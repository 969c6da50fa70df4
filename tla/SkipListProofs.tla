---------------------------- MODULE SkipListProofs ----------------------------
(***************************************************************************)
(* The reader of a skip list passes over no key that was inserted before   *)
(* it began, for any set of keys and any kMaxHeight.                       *)
(***************************************************************************)
EXTENDS SkipList, WellFoundedInduction, TLAPS

\* The order in which the provers are tried; the steps that need arithmetic name SMT.
USE Zenon, SMTT(20)

\* Keys are positive numbers and one of them is the greatest; nodes have a level 0.
ListAssumption ==
  /\ ListKeys \subseteq Nat \ {0}
  /\ \E m \in ListKeys : \A k \in ListKeys : k <= m
  /\ kMaxHeight \in Nat \ {0}

\* The nodes linked at a level, head_ among them.
Chain(i) == {x \in ListKeys \cup {HeadNode} : hist[<<x, i>>] # <<>>}

\* When the link of a node was first stored; its predecessor pointed to the node one store later.
FirstTime(x, i) == hist[<<x, i>>][1].time

\* The stores of a location are in the order of time, and all in the past.
HistTypes ==
  /\ clock \in Nat
  /\ inserter \in [key : Nat, height : Nat, level : Nat,
                   prev : {<<>>} \cup [Levels -> ListKeys \cup {HeadNode}]]
  /\ published \in [keys : SUBSET ListKeys, time : Nat]
  /\ hist \in [Links \cup {HeightLoc} -> Seq([time : Nat, value : Nat])]
  /\ \A l \in Links \cup {HeightLoc} : \A a, b \in DOMAIN hist[l] :
       hist[l][a].time <= clock /\ (a < b => hist[l][a].time < hist[l][b].time)

\* max_height_ is above the level of every node.
HeightInv ==
  /\ hist[HeightLoc] # <<>>
  /\ \A a \in DOMAIN hist[HeightLoc] : hist[HeightLoc][a].value \in 1..kMaxHeight
  /\ \A i \in Levels : \A x \in Chain(i) : x = HeadNode \/ i < Latest(HeightLoc)

\* A node is linked from level 0 upwards.
TowerInv ==
  /\ \A i \in Levels : HeadNode \in Chain(i) /\ FirstTime(HeadNode, i) = 0
  /\ \A i \in Levels : \A x \in Chain(i) :
       /\ x # HeadNode => FirstTime(x, i) + 1 <= clock
       /\ \A j \in Levels : j < i => x \in Chain(j) /\ FirstTime(x, j) <= FirstTime(x, i)

\* A value of a link is a node further on, linked before.
ForwardInv ==
  \A i \in Levels : \A x \in Chain(i) : \A a \in DOMAIN hist[<<x, i>>] :
    LET s == hist[<<x, i>>][a]
    IN  s.value > x /\ (s.value = Null \/ (s.value \in Chain(i) /\ FirstTime(s.value, i) < s.time))

\* If a value of a link leads past a node, the link was stored again no later than the node was
\* linked: who knows of the node no longer loads that value.
PassedInv ==
  \A i \in Levels : \A x \in Chain(i) : \A a \in DOMAIN hist[<<x, i>>] : \A k \in Chain(i) :
    x < k /\ k < hist[<<x, i>>][a].value =>
      \E b \in DOMAIN hist[<<x, i>>] :
        /\ hist[<<x, i>>][a].time < hist[<<x, i>>][b].time
        /\ hist[<<x, i>>][b].time <= FirstTime(k, i) + 1

\* The predecessors that Insert found are still the predecessors at the levels to be linked.
InsertInv ==
  inserter.key # Null =>
    /\ inserter.key \in ListKeys
    /\ inserter.height \in 1..kMaxHeight /\ inserter.height <= Latest(HeightLoc)
    /\ inserter.level \in 0..inserter.height
    /\ \A i \in Levels : inserter.key \in Chain(i) <=> i < inserter.level
    /\ inserter.prev \in [Levels -> ListKeys \cup {HeadNode}]
    /\ \A i \in Levels : i >= inserter.level =>
         /\ inserter.prev[i] \in Chain(i) /\ inserter.prev[i] < inserter.key
         /\ \A x \in Chain(i) : x < inserter.key => x <= inserter.prev[i]

\* What was made known was linked at level 0 by then.
PublishedInv ==
  /\ published.time <= clock
  /\ \A k \in published.keys : k \in Chain(0) /\ FirstTime(k, 0) + 1 <= published.time

ListInv ==
  HistTypes /\ HeightInv /\ TowerInv /\ ForwardInv /\ PassedInv /\ InsertInv /\ PublishedInv

\* What SeesPublished says of the last operation: nothing skipped, and the right side of the target.
Position ==
  /\ \A k \in iter.must : ~Skipped(k)
  /\ iter.node # Null =>
       CASE iter.op = "Seek"                    -> iter.node >= iter.target
         [] iter.op \in {"SeekToFirst", "Next"} -> iter.node > iter.target
         [] iter.op = "Prev"                    -> iter.node < iter.target
         [] OTHER                               -> TRUE

IterPcs == {"none", "idle", "search"}
IterOps == {"none", "Seek", "SeekToLast", "Prev", "SeekToFirst", "Next"}
IterRecords == [pc : IterPcs, op : IterOps, target : Nat, node : Nat, x : Nat, level : Int,
                view : Nat, must : SUBSET ListKeys]

\* The reader knows what it must find, and stands on a node whose link it knows to be set, before
\* its target.
IterInv ==
  /\ iter \in IterRecords
  /\ \A k \in iter.must : k \in Chain(0) /\ FirstTime(k, 0) + 1 <= iter.view
  /\ iter.pc = "search" =>
       /\ iter.level \in Levels /\ iter.x \in Chain(iter.level)
       /\ FirstTime(iter.x, iter.level) <= iter.view
       /\ iter.op \in {"Seek", "SeekToLast", "Prev"}
       /\ iter.op # "SeekToLast" => iter.x < iter.target
  /\ iter.pc = "idle" =>
       /\ iter.node # Null => /\ iter.node \in Chain(0) /\ iter.node # HeadNode
                              /\ FirstTime(iter.node, 0) <= iter.view
       /\ Position

-----------------------------------------------------------------------------
(* Keys, locations and maxima.                                             *)

\* A bounded set of numbers has a greatest one, which Max returns.
LEMMA MaxExists ==
  ASSUME NEW S \in SUBSET Nat, S # {}, NEW m \in Nat, \A k \in S : k <= m
  PROVE  Max(S) \in S /\ \A k \in S : k <= Max(S)
<1> DEFINE T == {m - k : k \in S}
<1>1. T \subseteq Nat /\ T # {}
  <2>1. \A k \in S : m - k \in Nat
    BY SMT
  <2> QED
    BY <2>1, Zenon
<1>2. PICK t \in T : \A u \in T : ~(<<u, t>> \in OpToRel(<, Nat))
  BY <1>1, NatLessThanWellFounded, WFMin, Zenon
<1>3. \A u \in T : t <= u
  <2>1. \A u \in T : u < t => <<u, t>> \in OpToRel(<, Nat)
    BY <1>1, Zenon DEF OpToRel
  <2>2. \A u \in T : u \in Nat /\ t \in Nat /\ ~(u < t)
    BY <1>1, <1>2, <2>1, Zenon
  <2> HIDE DEF T
  <2> QED
    BY <2>2, SMT
<1>4. PICK x \in S : t = m - x
  BY Zenon
<1>5. \A k \in S : t <= m - k
  BY <1>3, Zenon
<1> HIDE DEF T
<1>6. \A k \in S : x >= k
  BY <1>4, <1>5, SMT
<1>7. Max(S) \in S /\ \A k \in S : Max(S) >= k
  BY <1>6, Zenon DEF Max
<1> QED
  BY <1>7, SMT

\* Acquired raises the view to the store read.
LEMMA MaxOfTwo ==
  ASSUME NEW a \in Nat, NEW b \in Nat
  PROVE  Max({a, b}) \in Nat /\ Max({a, b}) >= a /\ Max({a, b}) >= b
<1>1. \E x \in {a, b} : \A y \in {a, b} : x >= y
  BY SMT
<1> QED
  BY <1>1, SMT DEF Max

\* head_ is before every key, and NULL after.
LEMMA KeyOrder ==
  ASSUME ListAssumption
  PROVE  /\ HeadNode = 0 /\ Null \in Nat /\ ListKeys \subseteq Nat
         /\ Null \notin ListKeys \cup {HeadNode}
         /\ \A k \in ListKeys : HeadNode < k /\ k < Null
         /\ 0 \in Levels /\ Levels \subseteq Nat
<1>1. PICK m \in ListKeys : \A k \in ListKeys : m >= k
  BY SMT DEF ListAssumption
<1>2. Max(ListKeys) \in ListKeys /\ \A k \in ListKeys : Max(ListKeys) >= k
  BY <1>1, Zenon DEF Max
<1> QED
  <2>1. /\ ListKeys \subseteq Nat /\ \A k \in ListKeys : 0 < k
        /\ 0 \in Levels /\ Levels \subseteq Nat
    BY SMT DEF Levels, ListAssumption
  <2>2. Max(ListKeys) \in Nat /\ Null = 1 + Max(ListKeys)
    BY <1>2, <2>1, Zenon DEF Null
  <2>3. Null \in Nat /\ \A k \in ListKeys : k < Null
    BY <1>2, <2>1, <2>2, SMT
  <2>4. Null # 0 /\ Null \notin ListKeys
    BY <1>2, <2>1, <2>2, SMT
  <2> QED
    BY <2>1, <2>3, <2>4, Zenon DEF HeadNode

\* Two links are one location only if node and level are the same, and none is max_height_.
LEMMA Locations ==
  /\ \A x, y, i, j : <<x, i>> = <<y, j>> <=> x = y /\ i = j
  /\ HeightLoc \notin Links
  /\ \A x \in ListKeys \cup {HeadNode}, i \in Levels : <<x, i>> \in Links
  BY SMT DEF HeightLoc, Links

\* The places of a sequence, and what is in them.
LEMMA SeqFacts ==
  ASSUME NEW S, NEW q \in Seq(S)
  PROVE  /\ DOMAIN q = 1..Len(q) /\ Len(q) \in Nat /\ \A a \in DOMAIN q : q[a] \in S
         /\ q # <<>> => 1 \in DOMAIN q /\ Len(q) \in DOMAIN q
  BY SMT

\* The sequences of Init.
LEMMA ShortSeqs ==
  ASSUME NEW S, NEW e \in S
  PROVE  /\ <<>> \in Seq(S) /\ DOMAIN <<>> = {}
         /\ <<e>> \in Seq(S) /\ <<e>> # <<>> /\ DOMAIN <<e>> = {1} /\ <<e>>[1] = e
  BY SMT

\* Appending to a sequence.
LEMMA AppendFacts ==
  ASSUME NEW S, NEW q \in Seq(S), NEW e \in S
  PROVE  /\ Append(q, e) \in Seq(S) /\ Append(q, e) # <<>> /\ Len(Append(q, e)) = Len(q) + 1
         /\ DOMAIN Append(q, e) = DOMAIN q \cup {Len(q) + 1}
         /\ \A a \in DOMAIN q : Append(q, e)[a] = q[a] /\ a < Len(q) + 1
         /\ Append(q, e)[Len(q) + 1] = e
  BY SMT

\* What was stored by c is older than a store after c.
LEMMA LaterTime ==
  ASSUME NEW x \in Nat, NEW c \in Nat, NEW t \in Nat, NEW d \in Nat, x <= c, c < t, t <= d
  PROVE  x <= d /\ x < t
  BY SMT

\* A later store keeps the order of time.
LEMMA AppendOrdered ==
  ASSUME NEW q \in Seq([time : Nat, value : Nat]), NEW c \in Nat, NEW d \in Nat,
         NEW e \in [time : Nat, value : Nat], c < e.time, e.time <= d,
         \A a, b \in DOMAIN q : q[a].time <= c /\ (a < b => q[a].time < q[b].time)
  PROVE  \A a, b \in DOMAIN Append(q, e) :
           /\ Append(q, e)[a].time <= d
           /\ a < b => Append(q, e)[a].time < Append(q, e)[b].time
<1> DEFINE r == Append(q, e)
           n == Len(q) + 1
<1>1. /\ DOMAIN r = DOMAIN q \cup {n} /\ r[n] = e
      /\ \A a \in DOMAIN q : r[a] = q[a] /\ a < n /\ a \in Nat /\ n \in Nat /\ q[a].time \in Nat
  <2>1. DOMAIN q = 1..Len(q) /\ Len(q) \in Nat /\ \A a \in DOMAIN q : q[a] \in [time : Nat, value : Nat]
    BY SeqFacts
  <2>2. n \in Nat /\ \A a \in DOMAIN q : a \in Nat
    BY <2>1, SMT
  <2>3. \A a \in DOMAIN q : q[a].time \in Nat
    BY <2>1
  <2>4. /\ DOMAIN r = DOMAIN q \cup {n} /\ r[n] = e
        /\ \A a \in DOMAIN q : r[a] = q[a] /\ a < n
    <3> DEFINE S == [time : Nat, value : Nat]
    <3>1. q \in Seq(S) /\ e \in S
      OBVIOUS
    <3> HIDE DEF S
    <3>2. /\ DOMAIN Append(q, e) = DOMAIN q \cup {Len(q) + 1} /\ Append(q, e)[Len(q) + 1] = e
          /\ \A a \in DOMAIN q : Append(q, e)[a] = q[a] /\ a < Len(q) + 1
      BY <3>1, AppendFacts, SMT
    <3> QED
      BY <3>2
  <2> HIDE DEF r, n
  <2> QED
    BY <2>2, <2>3, <2>4, Zenon
<1>2. e.time \in Nat
  OBVIOUS
<1> HIDE DEF r, n
<1>3. \A a \in DOMAIN q : r[a].time <= d /\ r[a].time < e.time
  <2> TAKE a \in DOMAIN q
  <2>1. r[a].time \in Nat /\ r[a].time <= c
    BY <1>1
  <2> QED
    BY <1>2, <2>1, LaterTime
<1>4. \A a \in DOMAIN r : r[a].time <= d
  BY <1>1, <1>3
<1>5. \A a, b \in DOMAIN r : a < b => r[a].time < r[b].time
  <2> SUFFICES ASSUME NEW a \in DOMAIN r, NEW b \in DOMAIN r, a < b PROVE r[a].time < r[b].time
    OBVIOUS
  <2>1. a \in DOMAIN q
    <3>1. a = n => FALSE
      BY <1>1, SMTT(20)
    <3> QED
      BY <1>1, <3>1
  <2> QED
    BY <1>1, <1>3, <2>1
<1> QED
  BY <1>4, <1>5 DEF r

\* The stores of a location have a time and a value.
LEMMA StoreTypes ==
  ASSUME HistTypes, NEW l \in Links \cup {HeightLoc}, NEW a \in DOMAIN hist[l]
  PROVE  /\ hist[l] \in Seq([time : Nat, value : Nat]) /\ DOMAIN hist[l] = 1..Len(hist[l])
         /\ Len(hist[l]) \in Nat
         /\ hist[l][a] \in [time : Nat, value : Nat]
<1>1. hist[l] \in Seq([time : Nat, value : Nat])
  BY Zenon DEF HistTypes
<1> QED
  BY <1>1, SeqFacts, Zenon

\* The first store of a link that has one.
LEMMA FirstStore ==
  ASSUME HistTypes, NEW i \in Levels, NEW x \in Chain(i)
  PROVE  /\ <<x, i>> \in Links /\ 1 \in DOMAIN hist[<<x, i>>] /\ FirstTime(x, i) \in Nat
         /\ x \in ListKeys \cup {HeadNode}
<1>1. x \in ListKeys \cup {HeadNode} /\ <<x, i>> \in Links /\ hist[<<x, i>>] # <<>>
  BY Locations, Zenon DEF Chain
<1>2. hist[<<x, i>>] \in Seq([time : Nat, value : Nat])
  BY <1>1, Zenon DEF HistTypes
<1>3. 1 \in DOMAIN hist[<<x, i>>] /\ hist[<<x, i>>][1] \in [time : Nat, value : Nat]
  BY <1>1, <1>2, SeqFacts, Zenon
<1> QED
  BY <1>1, <1>3, SMT DEF FirstTime

\* The value of max_height_ that the writer sees.
LEMMA LatestHeight ==
  ASSUME ListAssumption, ListInv
  PROVE  Latest(HeightLoc) \in 1..kMaxHeight /\ Latest(HeightLoc) \in Nat
<1>1. hist[HeightLoc] \in Seq([time : Nat, value : Nat]) /\ hist[HeightLoc] # <<>>
  BY DEF ListInv, HistTypes, HeightInv
<1>2. Len(hist[HeightLoc]) \in DOMAIN hist[HeightLoc]
  BY <1>1, SeqFacts
<1>3. Latest(HeightLoc) \in 1..kMaxHeight
  BY <1>2 DEF Latest, ListInv, HeightInv
<1> QED
  BY <1>3, SMT DEF ListAssumption

-----------------------------------------------------------------------------
(* What a load returns.                                                    *)

\* A loaded value is a node further on, which the reader may then use, or NULL.
LEMMA LoadForward ==
  ASSUME ListAssumption, ListInv, iter.view \in Nat, NEW i \in Levels, NEW x \in Chain(i),
         NEW s \in Load(x, i)
  PROVE  /\ s.time \in Nat /\ s.value \in Nat /\ s.value > x
         /\ Acquired(s) \in Nat /\ Acquired(s) >= iter.view
         /\ s.value # Null => s.value \in Chain(i) /\ FirstTime(s.value, i) <= Acquired(s)
<1>1. PICK a \in DOMAIN hist[<<x, i>>] : s = hist[<<x, i>>][a]
  BY DEF Load, Loadable
<1>2. HistTypes /\ <<x, i>> \in Links
  BY FirstStore DEF ListInv
<1>3. s \in [time : Nat, value : Nat]
  BY <1>1, <1>2, StoreTypes
<1>4. s.value > x /\ (s.value = Null \/ (s.value \in Chain(i) /\ FirstTime(s.value, i) < s.time))
  BY <1>1 DEF ListInv, ForwardInv
<1>5. Acquired(s) \in Nat /\ Acquired(s) >= iter.view /\ Acquired(s) >= s.time
  BY <1>3, MaxOfTwo DEF Acquired
<1>6. ASSUME s.value # Null
      PROVE  FirstTime(s.value, i) <= Acquired(s)
  <2>1. s.value \in Chain(i) /\ FirstTime(s.value, i) < s.time
    BY <1>4, <1>6
  <2>2. FirstTime(s.value, i) \in Nat
    BY <1>2, <2>1, FirstStore
  <2> QED
    BY <1>3, <1>5, <2>1, <2>2, SMT
<1> QED
  BY <1>3, <1>4, <1>5, <1>6

\* A load does not lead past a node that the reader knows to be linked.
LEMMA LoadStops ==
  ASSUME ListAssumption, ListInv, iter.view \in Nat, NEW i \in Levels, NEW x \in Chain(i),
         NEW s \in Load(x, i),
         NEW k \in Chain(i), FirstTime(k, i) + 1 <= iter.view, x < k
  PROVE  ~(k < s.value)
<1> SUFFICES ASSUME k < s.value PROVE FALSE
  OBVIOUS
<1>1. PICK a \in DOMAIN hist[<<x, i>>] :
        /\ s = hist[<<x, i>>][a]
        /\ \A j \in DOMAIN hist[<<x, i>>] :
             hist[<<x, i>>][j].time <= iter.view => hist[<<x, i>>][j].time <= s.time
  BY DEF Load, Loadable
<1>2. PICK b \in DOMAIN hist[<<x, i>>] : /\ s.time < hist[<<x, i>>][b].time
                                         /\ hist[<<x, i>>][b].time <= FirstTime(k, i) + 1
  BY <1>1 DEF ListInv, PassedInv
<1>3. HistTypes /\ <<x, i>> \in Links /\ FirstTime(k, i) \in Nat
  BY FirstStore DEF ListInv
<1>4. s \in [time : Nat, value : Nat] /\ hist[<<x, i>>][b] \in [time : Nat, value : Nat]
  BY <1>1, <1>2, <1>3, StoreTypes
<1>5. hist[<<x, i>>][b].time <= iter.view
  BY <1>2, <1>3, <1>4, SMT
<1>6. hist[<<x, i>>][b].time <= s.time
  BY <1>1, <1>2, <1>5
<1> QED
  BY <1>2, <1>4, <1>6, SMT

-----------------------------------------------------------------------------
(* The reader.                                                             *)

\* The reader changes nothing of the list.
LEMMA ListFrame ==
  ASSUME ListInv, UNCHANGED <<hist, clock, published, inserter>>
  PROVE  ListInv' /\ \A i : Chain(i)' = Chain(i) /\ \A x : FirstTime(x, i)' = FirstTime(x, i)
<1>1. \A i : Chain(i)' = Chain(i) /\ \A x : FirstTime(x, i)' = FirstTime(x, i)
  BY DEF Chain, FirstTime
<1>2. HistTypes' /\ HeightInv'
  BY <1>1 DEF ListInv, HistTypes, HeightInv, Latest
<1>3. TowerInv' /\ ForwardInv'
  BY <1>1 DEF ListInv, TowerInv, ForwardInv
<1>4. PassedInv' /\ PublishedInv'
  BY <1>1, ZenonT(30) DEF ListInv, PassedInv, PublishedInv
<1>5. InsertInv'
  BY <1>1 DEF ListInv, InsertInv, Latest
<1> QED
  BY <1>1, <1>2, <1>3, <1>4, <1>5 DEF ListInv

\* One turn of the search loop keeps the reader before its target, and the last one finds it.
LEMMA SearchKeeps ==
  ASSUME ListAssumption, ListInv, IterInv, SearchStep
  PROVE  IterInv'
<1>0. /\ iter.view \in Nat /\ iter.level \in Levels /\ iter.x \in Chain(iter.level)
      /\ FirstTime(iter.x, iter.level) <= iter.view /\ iter.op \in {"Seek", "SeekToLast", "Prev"}
      /\ iter.op # "SeekToLast" => iter.x < iter.target
  BY DEF IterInv, SearchStep, IterRecords
<1>1. UNCHANGED <<hist, clock, published, inserter>>
  BY DEF SearchStep
<1>2. \A i : Chain(i)' = Chain(i) /\ \A x : FirstTime(x, i)' = FirstTime(x, i)
  BY <1>1, ListFrame
<1>3. PICK s \in Load(iter.x, iter.level) :
        iter' = [(IF GoesOn(s.value) THEN [iter EXCEPT !.x = s.value]
                  ELSE IF iter.level > 0 THEN [iter EXCEPT !.level = @ - 1]
                  ELSE [iter EXCEPT !.pc = "idle", !.node = Found(s.value)])
                   EXCEPT !.view = Acquired(s)]
  BY DEF SearchStep
<1>4. /\ s.value \in Nat /\ s.value > iter.x /\ Acquired(s) \in Nat /\ Acquired(s) >= iter.view
      /\ s.value # Null => /\ s.value \in Chain(iter.level)
                           /\ FirstTime(s.value, iter.level) <= Acquired(s)
  BY <1>0, LoadForward
<1>5. \A k \in iter.must : k \in Chain(0) /\ FirstTime(k, 0) + 1 <= Acquired(s)
  <2> SUFFICES ASSUME NEW k \in iter.must
               PROVE  k \in Chain(0) /\ FirstTime(k, 0) + 1 <= Acquired(s)
    OBVIOUS
  <2>1. k \in Chain(0) /\ FirstTime(k, 0) + 1 <= iter.view
    BY DEF IterInv
  <2>2. FirstTime(k, 0) \in Nat
    BY <2>1, FirstStore, KeyOrder DEF ListInv
  <2> QED
    BY <1>0, <1>4, <2>1, <2>2, SMT
<1>6. /\ iter \in IterRecords /\ iter.pc = "search" /\ iter.target \in Nat /\ iter.x \in Nat
      /\ iter.must \subseteq ListKeys
  BY DEF IterInv, SearchStep, IterRecords
<1>7. CASE GoesOn(s.value)
  <2>1. iter' = [iter EXCEPT !.x = s.value, !.view = Acquired(s)]
    BY <1>3, <1>7
  <2>2. /\ iter' \in IterRecords
        /\ iter'.pc = "search" /\ iter'.x = s.value /\ iter'.view = Acquired(s)
        /\ iter'.level = iter.level
        /\ iter'.op = iter.op /\ iter'.target = iter.target /\ iter'.must = iter.must
    <3>1. iter \in IterRecords /\ Acquired(s) \in Nat /\ s.value \in Nat /\ iter.pc = "search"
      BY <1>4, <1>6
    <3> QED
      BY <2>1, <3>1 DEF IterRecords
  <2>3. s.value # Null /\ (iter.op # "SeekToLast" => s.value < iter.target)
    BY <1>7 DEF GoesOn
  <2>4. s.value \in Chain(iter.level) /\ FirstTime(s.value, iter.level) <= Acquired(s)
    BY <1>4, <2>3
  <2>5. (/\ iter.level \in Levels /\ iter.x \in Chain(iter.level)
         /\ FirstTime(iter.x, iter.level) <= iter.view)'
    BY <1>0, <1>2, <2>2, <2>4
  <2> QED
    BY <1>0, <1>2, <1>5, <2>2, <2>3, <2>5 DEF IterInv
<1>8. CASE ~GoesOn(s.value) /\ iter.level > 0
  <2>1. iter' = [iter EXCEPT !.level = @ - 1, !.view = Acquired(s)]
    BY <1>3, <1>8
  <2>2. iter.level - 1 \in Levels /\ iter.level - 1 \in Int /\ iter.level - 1 < iter.level
    BY <1>0, <1>8, SMT DEF Levels, ListAssumption
  <2>3. /\ iter' \in IterRecords
        /\ iter'.pc = "search" /\ iter'.x = iter.x /\ iter'.view = Acquired(s)
        /\ iter'.level = iter.level - 1
        /\ iter'.op = iter.op /\ iter'.target = iter.target /\ iter'.must = iter.must
    <3>1. iter \in IterRecords /\ Acquired(s) \in Nat /\ iter.pc = "search"
      BY <1>4, <1>6
    <3> QED
      BY <2>1, <2>2, <3>1 DEF IterRecords
  <2>4. /\ iter.x \in Chain(iter.level - 1)
        /\ FirstTime(iter.x, iter.level - 1) <= FirstTime(iter.x, iter.level)
    BY <1>0, <2>2 DEF ListInv, TowerInv
  <2>5. FirstTime(iter.x, iter.level - 1) \in Nat /\ FirstTime(iter.x, iter.level) \in Nat
    BY <1>0, <2>2, <2>4, FirstStore DEF ListInv
  <2>6. FirstTime(iter.x, iter.level - 1) <= Acquired(s)
    BY <1>0, <1>4, <2>4, <2>5, SMT
  <2> QED
    BY <1>0, <1>2, <1>5, <2>2, <2>3, <2>4, <2>6 DEF IterInv
<1>9. CASE ~GoesOn(s.value) /\ ~(iter.level > 0)
  <2>1. iter' = [iter EXCEPT !.pc = "idle", !.node = Found(s.value), !.view = Acquired(s)]
    BY <1>3, <1>9
  <2>2. /\ iter.level = 0 /\ iter.x \in Chain(0) /\ iter.x \in Nat /\ Found(s.value) \in Nat
        /\ iter.x # Null
    <3>1. iter.level = 0
      BY <1>0, <1>9, KeyOrder, SMT
    <3> QED
      BY <1>0, <1>4, <1>6, <3>1, KeyOrder DEF Found, Chain
  <2>3. /\ iter' \in IterRecords
        /\ iter'.pc = "idle" /\ iter'.view = Acquired(s) /\ iter'.node = Found(s.value)
        /\ iter'.op = iter.op /\ iter'.target = iter.target /\ iter'.must = iter.must
    <3>1. iter \in IterRecords /\ Acquired(s) \in Nat /\ Found(s.value) \in Nat
      BY <1>4, <1>6, <2>2
    <3> QED
      BY <2>1, <3>1 DEF IterRecords, IterPcs
  <2>4. /\ s.value = Null \/ (iter.op # "SeekToLast" /\ s.value >= iter.target)
        /\ s.value > iter.x
    BY <1>4, <1>6, <1>9, SMT DEF GoesOn
  <2>5. \A k \in iter.must : iter.x < k => k >= s.value
    <3> SUFFICES ASSUME NEW k \in iter.must, iter.x < k PROVE k >= s.value
      OBVIOUS
    <3>1. k \in Chain(0) /\ FirstTime(k, 0) + 1 <= iter.view /\ k \in Nat
      BY <1>6, KeyOrder DEF IterInv
    <3>2. ~(k < s.value)
      BY <1>0, <2>2, <3>1, LoadStops, KeyOrder
    <3> QED
      BY <1>4, <3>1, <3>2, SMT
  <2>6. Found(s.value) # Null => /\ Found(s.value) \in Chain(0) /\ Found(s.value) # HeadNode
                                 /\ FirstTime(Found(s.value), 0) <= Acquired(s)
    <3>1. CASE iter.op = "Seek"
      BY <1>4, <2>2, <2>4, <3>1, KeyOrder, SMT DEF Found
    <3>2. CASE iter.op # "Seek"
      <4>1. FirstTime(iter.x, 0) \in Nat /\ FirstTime(iter.x, 0) <= iter.view
        BY <1>0, <2>2, FirstStore, KeyOrder DEF ListInv
      <4>2. FirstTime(iter.x, 0) <= Acquired(s)
        BY <1>0, <1>4, <4>1, SMT
      <4> QED
        BY <2>2, <3>2, <4>2 DEF Found
    <3> QED
      BY <3>1, <3>2
  <2>7. Position'
    <3>1. CASE iter.op = "Seek"
      <4>1. \A k \in iter.must : ~(iter.target <= k /\ k < s.value)
        BY <1>0, <1>4, <1>6, <2>5, <3>1, KeyOrder, SMT
      <4>2. iter'.node = s.value /\ iter'.op = "Seek"
        BY <2>3, <3>1 DEF Found
      <4> QED
        BY <2>3, <2>4, <3>1, <4>1, <4>2 DEF Position, Skipped
    <3>2. CASE iter.op = "Prev"
      <4>1. \A k \in iter.must : k < iter.target => ~(iter.x < k)
        BY <1>4, <1>6, <2>4, <2>5, KeyOrder, SMT
      <4>2. \A k \in iter.must : HeadNode < k
        BY <1>6, KeyOrder
      <4>3. iter'.op = "Prev" /\ iter'.node = IF iter.x = HeadNode THEN Null ELSE iter.x
        BY <2>3, <3>2 DEF Found
      <4> QED
        <5>1. \A k \in iter.must : ~(k < iter.target /\ (iter'.node = Null \/ iter'.node < k))
          BY <2>2, <4>1, <4>2, <4>3
        <5>2. iter'.node # Null => iter'.node < iter.target
          BY <1>0, <3>2, <4>3
        <5> QED
          BY <2>3, <4>3, <5>1, <5>2 DEF Position, Skipped
    <3>3. CASE iter.op = "SeekToLast"
      <4>1. \A k \in iter.must : ~(iter.x < k)
        BY <1>4, <1>6, <2>4, <2>5, <3>3, KeyOrder, SMT
      <4>2. \A k \in iter.must : HeadNode < k
        BY <1>6, KeyOrder
      <4>3. iter'.op = "SeekToLast" /\ iter'.node = IF iter.x = HeadNode THEN Null ELSE iter.x
        BY <2>3, <3>3 DEF Found
      <4> QED
        <5>1. \A k \in iter.must : ~(iter'.node = Null \/ iter'.node < k)
          BY <2>2, <4>1, <4>2, <4>3
        <5> QED
          BY <2>3, <4>3, <5>1 DEF Position, Skipped
    <3> QED
      BY <1>0, <3>1, <3>2, <3>3
  <2> QED
    BY <1>2, <1>5, <2>3, <2>6, <2>7 DEF IterInv
<1> QED
  BY <1>7, <1>8, <1>9

\* SeekToFirst and Next find the next node, and pass over no key they know of.
LEMMA StepKeeps ==
  ASSUME ListAssumption, ListInv, IterInv, NEW op \in {"SeekToFirst", "Next"}, StepForward(op)
  PROVE  IterInv'
<1> DEFINE from == IF op = "Next" THEN iter.node ELSE HeadNode
<1>0. /\ iter \in IterRecords /\ iter.pc = "idle" /\ iter.view \in Nat /\ iter.must \subseteq ListKeys
      /\ op = "Next" => iter.node # Null
  BY DEF IterInv, StepForward, IterRecords
<1>1. UNCHANGED <<hist, clock, published, inserter>>
  BY DEF StepForward
<1>2. \A i : Chain(i)' = Chain(i) /\ \A x : FirstTime(x, i)' = FirstTime(x, i)
  BY <1>1, ListFrame
<1>3. from \in Chain(0) /\ from \in Nat /\ 0 \in Levels
  <2>1. HeadNode \in Chain(0)
    BY KeyOrder DEF ListInv, TowerInv
  <2>2. iter.node # Null => iter.node \in Chain(0)
    BY <1>0 DEF IterInv
  <2> QED
    BY <1>0, <2>1, <2>2, KeyOrder DEF IterRecords
<1>4. PICK s \in Load(from, 0) :
        iter' = [iter EXCEPT !.op = op, !.target = from, !.node = s.value, !.view = Acquired(s)]
  BY DEF StepForward
<1> HIDE DEF from
<1>5. /\ s.value \in Nat /\ s.value > from /\ Acquired(s) \in Nat /\ Acquired(s) >= iter.view
      /\ s.value # Null => s.value \in Chain(0) /\ FirstTime(s.value, 0) <= Acquired(s)
  BY <1>0, <1>3, LoadForward
<1>6. \A k \in iter.must : /\ k \in Chain(0) /\ FirstTime(k, 0) + 1 <= Acquired(s)
                           /\ ~(from < k /\ k < s.value)
  <2> SUFFICES ASSUME NEW k \in iter.must
               PROVE  /\ k \in Chain(0) /\ FirstTime(k, 0) + 1 <= Acquired(s)
                      /\ ~(from < k /\ k < s.value)
    OBVIOUS
  <2>1. k \in Chain(0) /\ FirstTime(k, 0) + 1 <= iter.view
    BY DEF IterInv
  <2>2. FirstTime(k, 0) \in Nat
    BY <1>3, <2>1, FirstStore DEF ListInv
  <2>3. ~(from < k /\ k < s.value)
    BY <1>0, <1>3, <2>1, LoadStops
  <2> QED
    BY <1>0, <1>5, <2>1, <2>2, <2>3, SMT
<1>7. /\ iter' \in IterRecords /\ iter'.pc = "idle" /\ iter'.op = op /\ iter'.target = from
      /\ iter'.node = s.value /\ iter'.view = Acquired(s) /\ iter'.must = iter.must
  <2>1. s.value \in Nat /\ Acquired(s) \in Nat /\ op \in IterOps
    BY <1>5 DEF IterOps
  <2> QED
    BY <1>0, <1>3, <1>4, <2>1 DEF IterRecords
<1>8. Position'
  BY <1>5, <1>6, <1>7 DEF Position, Skipped
<1>9. s.value # HeadNode
  BY <1>3, <1>5, KeyOrder, SMT
<1> QED
  BY <1>2, <1>5, <1>6, <1>7, <1>8, <1>9 DEF IterInv

\* A search starts at head_, whatever max_height_ it sees.
LEMMA StartKeeps ==
  ASSUME ListAssumption, ListInv, IterInv, NEW target \in Nat,
         NEW op \in {"Seek", "SeekToLast", "Prev"}, StartSearch(op, target),
         op = "Seek" => HeadNode < target
  PROVE  IterInv'
<1> DEFINE to == IF op = "Prev" THEN iter.node ELSE target
<1>0. /\ iter \in IterRecords /\ iter.pc = "idle"
      /\ op = "Prev" => iter.node # Null
      /\ \A k \in iter.must : k \in Chain(0) /\ FirstTime(k, 0) + 1 <= iter.view
  BY DEF IterInv, StartSearch
<1>1. UNCHANGED <<hist, clock, published, inserter>>
  BY DEF StartSearch
<1>2. \A i : Chain(i)' = Chain(i) /\ \A x : FirstTime(x, i)' = FirstTime(x, i)
  BY <1>1, ListFrame
<1>3. PICK s \in Loadable(HeightLoc) :
        iter' = [iter EXCEPT !.pc = "search", !.op = op, !.target = to, !.x = HeadNode,
                             !.level = s.value - 1]
  BY DEF StartSearch
<1>4. s.value - 1 \in Levels /\ s.value - 1 \in Int
  <2>1. s.value \in 1..kMaxHeight
    BY DEF Loadable, ListInv, HeightInv
  <2> QED
    BY <2>1, SMT DEF Levels, ListAssumption
<1>5. to \in Nat /\ (op # "SeekToLast" => HeadNode < to)
  <2>1. iter.node \in Nat
    BY <1>0 DEF IterRecords
  <2>2. op = "Prev" => HeadNode < iter.node
    BY <1>0, KeyOrder DEF IterInv, Chain
  <2> QED
    BY <2>1, <2>2
<1> HIDE DEF to
<1>6. /\ iter' \in IterRecords /\ iter'.pc = "search" /\ iter'.op = op /\ iter'.target = to
      /\ iter'.x = HeadNode /\ iter'.level = s.value - 1 /\ iter'.view = iter.view
      /\ iter'.must = iter.must
  <2>1. op \in IterOps /\ "search" \in IterPcs /\ HeadNode \in Nat
    BY KeyOrder DEF IterOps, IterPcs
  <2> QED
    BY <1>0, <1>3, <1>4, <1>5, <2>1 DEF IterRecords
<1>7. HeadNode \in Chain(s.value - 1) /\ FirstTime(HeadNode, s.value - 1) <= iter.view
  <2>1. HeadNode \in Chain(s.value - 1) /\ FirstTime(HeadNode, s.value - 1) = 0
    BY <1>4 DEF ListInv, TowerInv
  <2>2. iter.view \in Nat
    BY <1>0 DEF IterRecords
  <2> QED
    BY <2>1, <2>2, SMT
<1>8. (/\ iter.level \in Levels /\ iter.x \in Chain(iter.level)
       /\ FirstTime(iter.x, iter.level) <= iter.view)'
  BY <1>2, <1>4, <1>6, <1>7
<1> QED
  BY <1>0, <1>2, <1>5, <1>6, <1>8 DEF IterInv

\* A new iterator knows all that was made known under the lock.
LEMMA NewIteratorKeeps ==
  ASSUME ListAssumption, ListInv, IterInv, NewIterator
  PROVE  IterInv'
<1>0. /\ iter \in IterRecords /\ iter.view \in Nat
      /\ published.time \in Nat /\ published.keys \subseteq ListKeys
  BY DEF IterInv, IterRecords, ListInv, HistTypes
<1>1. UNCHANGED <<hist, clock, published, inserter>>
  BY DEF NewIterator
<1>2. \A i : Chain(i)' = Chain(i) /\ \A x : FirstTime(x, i)' = FirstTime(x, i)
  BY <1>1, ListFrame
<1> DEFINE v == Max({iter.view, published.time})
<1>3. v \in Nat /\ v >= published.time
  BY <1>0, MaxOfTwo
<1>4. iter' = [iter EXCEPT !.pc = "idle", !.op = "none", !.node = Null, !.must = published.keys,
                          !.view = v]
  BY DEF NewIterator
<1> HIDE DEF v
<1>5. /\ iter' \in IterRecords /\ iter'.pc = "idle" /\ iter'.op = "none" /\ iter'.node = Null
      /\ iter'.must = published.keys /\ iter'.view = v
  BY <1>0, <1>3, <1>4, KeyOrder DEF IterRecords, IterPcs, IterOps
<1>6. \A k \in published.keys : k \in Chain(0) /\ FirstTime(k, 0) + 1 <= v
  <2> SUFFICES ASSUME NEW k \in published.keys PROVE k \in Chain(0) /\ FirstTime(k, 0) + 1 <= v
    OBVIOUS
  <2>1. k \in Chain(0) /\ FirstTime(k, 0) + 1 <= published.time
    BY DEF ListInv, PublishedInv
  <2>2. FirstTime(k, 0) \in Nat
    BY <2>1, FirstStore, KeyOrder DEF ListInv
  <2> QED
    BY <1>0, <1>3, <2>1, <2>2, SMT
<1>7. Position'
  BY <1>5 DEF Position, Skipped
<1> QED
  BY <1>2, <1>5, <1>6, <1>7 DEF IterInv

-----------------------------------------------------------------------------
(* The writer.                                                             *)

\* What the reader knows stays true while nodes are added.
LEMMA IterFrame ==
  ASSUME ListAssumption, IterInv, iter' = iter,
         \A i \in Levels : \A x \in Chain(i) : x \in Chain(i)' /\ FirstTime(x, i)' = FirstTime(x, i)
  PROVE  IterInv'
<1>1. 0 \in Levels
  BY KeyOrder
<1>2. (\A k \in iter.must : k \in Chain(0) /\ FirstTime(k, 0) + 1 <= iter.view)'
  BY <1>1 DEF IterInv
<1>3. (iter.pc = "search" =>
       /\ iter.level \in Levels /\ iter.x \in Chain(iter.level)
       /\ FirstTime(iter.x, iter.level) <= iter.view)'
  BY DEF IterInv
<1>4. (iter.pc = "idle" => (iter.node # Null => /\ iter.node \in Chain(0) /\ iter.node # HeadNode
                                                /\ FirstTime(iter.node, 0) <= iter.view))'
  BY <1>1 DEF IterInv
<1>5. (iter.pc = "idle" => Position)'
  BY DEF IterInv, Position, Skipped
<1> QED
  BY <1>2, <1>3, <1>4, <1>5 DEF IterInv

\* The empty list.
LEMMA ListInit ==
  ASSUME ListAssumption, Init
  PROVE  ListInv /\ IterInv
<1>1. /\ \A i \in Levels : hist[<<HeadNode, i>>] = <<[time |-> 0, value |-> Null]>>
      /\ \A k \in ListKeys, i \in Levels : hist[<<k, i>>] = <<>>
      /\ hist[HeightLoc] = <<[time |-> 0, value |-> 1]>>
  BY Locations, KeyOrder DEF Init
<1>2. \A i \in Levels : Chain(i) = {HeadNode}
  BY <1>1 DEF Chain
<1>3. HistTypes
  <2>1. \A l \in Links : hist[l] \in {<<>>, <<[time |-> 0, value |-> Null]>>}
    BY Locations DEF Init
  <2>2. \A l \in Links \cup {HeightLoc} : hist[l] \in Seq([time : Nat, value : Nat])
    <3>1. [time |-> 0, value |-> Null] \in [time : Nat, value : Nat]
      BY KeyOrder
    <3>2. [time |-> 0, value |-> 1] \in [time : Nat, value : Nat]
      BY SMT
    <3>3. /\ <<>> \in Seq([time : Nat, value : Nat])
          /\ <<[time |-> 0, value |-> Null]>> \in Seq([time : Nat, value : Nat])
      BY <3>1, ShortSeqs
    <3>4. <<[time |-> 0, value |-> 1]>> \in Seq([time : Nat, value : Nat])
      BY <3>2, ShortSeqs
    <3> QED
      BY <1>1, <2>1, <3>3, <3>4
  <2>3. hist \in [Links \cup {HeightLoc} -> Seq([time : Nat, value : Nat])]
    BY <2>2 DEF Init
  <2>4. \A l \in Links \cup {HeightLoc} : \A a, b \in DOMAIN hist[l] : hist[l][a].time = 0 /\ a = b
    BY <1>1, <2>1, SMT
  <2>5. \A a : ~(a < a) \/ a \notin Nat
    BY SMT
  <2> QED
    BY <2>3, <2>4, <2>5, KeyOrder DEF HistTypes, Init
<1>4. HeightInv
  <2>1. hist[HeightLoc] # <<>> /\ \A a \in DOMAIN hist[HeightLoc] : hist[HeightLoc][a].value = 1
    BY <1>1, SMT
  <2>2. 1 \in 1..kMaxHeight
    BY SMT DEF ListAssumption
  <2> QED
    BY <1>2, <2>1, <2>2 DEF HeightInv
<1>5. TowerInv /\ ForwardInv /\ PassedInv
  <2>1. \A i \in Levels : /\ FirstTime(HeadNode, i) = 0 /\ DOMAIN hist[<<HeadNode, i>>] = {1}
                         /\ hist[<<HeadNode, i>>][1].value = Null
    BY <1>1, SMT DEF FirstTime
  <2>2. TowerInv
    <3>1. \A i, j \in Levels : FirstTime(HeadNode, j) <= FirstTime(HeadNode, i)
      <4>1. 0 <= 0
        BY SMT
      <4> QED
        BY <2>1, <4>1
    <3> QED
      BY <1>2, <2>1, <3>1 DEF TowerInv
  <2>3. Null > HeadNode /\ ~(HeadNode < HeadNode)
    BY KeyOrder, SMT
  <2>4. ForwardInv
    BY <1>2, <2>1, <2>3 DEF ForwardInv
  <2>5. PassedInv
    BY <1>2, <2>3 DEF PassedInv
  <2> QED
    BY <2>2, <2>4, <2>5
<1>6. InsertInv /\ PublishedInv
  BY KeyOrder DEF InsertInv, PublishedInv, Init
<1>7. IterInv
  BY KeyOrder DEF IterInv, IterRecords, IterPcs, IterOps, Init
<1> QED
  BY <1>3, <1>4, <1>5, <1>6, <1>7 DEF ListInv

\* PrevOf finds the last node before the key at every level.
LEMMA PrevFound ==
  ASSUME ListAssumption, ListInv, NEW key \in ListKeys, key \notin Inserted
  PROVE  /\ PrevOf(key) \in [Levels -> ListKeys \cup {HeadNode}]
         /\ \A i \in Levels :
              /\ PrevOf(key)[i] \in Chain(i) /\ PrevOf(key)[i] < key
              /\ \A x \in Chain(i) : x < key => x <= PrevOf(key)[i]
<1>1. ASSUME NEW i \in Levels
      PROVE  /\ PrevOf(key)[i] \in Chain(i) /\ PrevOf(key)[i] < key
             /\ \A x \in Chain(i) : x < key => x <= PrevOf(key)[i]
  <2>1. HeadNode \in Chain(i) /\ Chain(i) \subseteq ListKeys \cup {HeadNode} /\ HeadNode < key
    BY KeyOrder DEF ListInv, TowerInv, Chain
  <2>2. CASE i >= Latest(HeightLoc)
    <3>1. PrevOf(key)[i] = HeadNode
      BY <2>2 DEF PrevOf
    <3>2. Latest(HeightLoc) \in Nat /\ i \in Nat
      BY LatestHeight, KeyOrder
    <3>3. ~(i < Latest(HeightLoc))
      BY <2>2, <3>2, SMT
    <3>4. \A x \in Chain(i) : x = HeadNode
      BY <3>3 DEF ListInv, HeightInv
    <3>5. HeadNode <= HeadNode
      BY KeyOrder, SMT
    <3> QED
      BY <2>1, <3>1, <3>4, <3>5
  <2>3. CASE ~(i >= Latest(HeightLoc))
    <3> DEFINE S == {HeadNode} \cup {k \in Inserted : k < key /\ hist[<<k, i>>] # <<>>}
    <3>1. PrevOf(key)[i] = Max(S)
      BY <2>3 DEF PrevOf
    <3>2. \A x \in Chain(i) : x # HeadNode => x \in Inserted
      BY <2>1, KeyOrder DEF ListInv, TowerInv, Inserted, Chain
    <3>3. \A x : x \in S <=> x \in Chain(i) /\ x < key
      BY <2>1, <3>2 DEF Inserted, Chain
    <3> HIDE DEF S
    <3>4. S \in SUBSET Nat /\ S # {} /\ key \in Nat /\ \A x \in S : x <= key
      <4>1. S \subseteq Nat /\ HeadNode \in S /\ key \in Nat
        BY <2>1, <3>3, KeyOrder
      <4> QED
        BY <3>3, <4>1, SMT
    <3>5. Max(S) \in S /\ \A x \in S : x <= Max(S)
      BY <3>4, MaxExists
    <3> QED
      BY <3>1, <3>3, <3>5
  <2> QED
    BY <2>2, <2>3
<1>2. PrevOf(key) = [i \in Levels |-> PrevOf(key)[i]]
  BY DEF PrevOf
<1>3. \A i \in Levels : PrevOf(key)[i] \in ListKeys \cup {HeadNode}
  BY <1>1 DEF Chain
<1> QED
  BY <1>1, <1>2, <1>3

\* A new node, not linked yet, and perhaps a greater max_height_.
LEMMA StartInsertKeeps ==
  ASSUME ListAssumption, ListInv, IterInv,
         NEW key \in ListKeys, NEW height \in 1..kMaxHeight, StartInsert(key, height)
  PROVE  ListInv' /\ IterInv'
<1> DEFINE e == [time |-> clock + 1, value |-> height]
           q == hist[HeightLoc]
<1>0. /\ inserter.key = Null /\ key \notin Inserted
      /\ inserter' = [key |-> key, height |-> height, level |-> 0, prev |-> PrevOf(key)]
      /\ \/ /\ height > Latest(HeightLoc)
            /\ hist' = [hist EXCEPT ![HeightLoc] = Append(q, e)] /\ clock' = clock + 1
         \/ ~(height > Latest(HeightLoc)) /\ UNCHANGED <<hist, clock>>
      /\ UNCHANGED <<published, iter>>
  BY DEF StartInsert
<1>1. /\ clock \in Nat /\ height \in Nat /\ e \in [time : Nat, value : Nat]
      /\ hist \in [Links \cup {HeightLoc} -> Seq([time : Nat, value : Nat])]
      /\ q \in Seq([time : Nat, value : Nat]) /\ q # <<>>
      /\ \A a, b \in DOMAIN q : q[a].time <= clock /\ (a < b => q[a].time < q[b].time)
  <2>1. clock \in Nat /\ hist \in [Links \cup {HeightLoc} -> Seq([time : Nat, value : Nat])] /\ q # <<>>
    BY DEF ListInv, HistTypes, HeightInv
  <2>2. height \in Nat /\ clock + 1 \in Nat
    BY <2>1, SMT DEF ListAssumption
  <2> QED
    BY <2>1, <2>2 DEF ListInv, HistTypes
<1> HIDE DEF q, e
<1>2. /\ hist' \in [Links \cup {HeightLoc} -> Seq([time : Nat, value : Nat])]
      /\ \A l \in Links : hist'[l] = hist[l]
      /\ clock' \in Nat /\ clock <= clock'
  <2>1. Append(q, e) \in Seq([time : Nat, value : Nat])
    BY <1>1, AppendFacts
  <2>2. clock + 1 \in Nat /\ clock <= clock + 1 /\ clock <= clock
    BY <1>1, SMT
  <2>3. CASE UNCHANGED <<hist, clock>>
    BY <1>1, <2>2, <2>3
  <2>4. CASE hist' = [hist EXCEPT ![HeightLoc] = Append(q, e)] /\ clock' = clock + 1
    <3>1. \A l \in Links : hist'[l] = hist[l]
      BY <1>1, <2>4, Locations
    <3>2. hist' \in [Links \cup {HeightLoc} -> Seq([time : Nat, value : Nat])]
      BY <1>1, <2>1, <2>4
    <3> QED
      BY <2>2, <2>4, <3>1, <3>2
  <2> QED
    BY <1>0, <2>3, <2>4
<1>3. \A i \in Levels : Chain(i)' = Chain(i) /\ \A x \in Chain(i) : FirstTime(x, i)' = FirstTime(x, i)
  BY <1>2, Locations DEF Chain, FirstTime
<1>4. \A i \in Levels : \A x \in Chain(i) : hist'[<<x, i>>] = hist[<<x, i>>]
  BY <1>2, Locations DEF Chain
<1>5. /\ Latest(HeightLoc)' >= Latest(HeightLoc) /\ Latest(HeightLoc)' >= height
      /\ Latest(HeightLoc)' \in Nat
      /\ hist'[HeightLoc] # <<>>
      /\ \A a \in DOMAIN hist'[HeightLoc] : hist'[HeightLoc][a].value \in 1..kMaxHeight
  <2>1. /\ Latest(HeightLoc) \in Nat
        /\ \A a \in DOMAIN q : q[a].value \in 1..kMaxHeight
    BY LatestHeight DEF ListInv, HeightInv, q
  <2>2. CASE UNCHANGED hist /\ ~(height > Latest(HeightLoc))
    <3>1. Latest(HeightLoc)' = Latest(HeightLoc)
      BY <2>2 DEF Latest
    <3> QED
      BY <1>1, <2>1, <2>2, <3>1, SMT DEF q
  <2>3. CASE height > Latest(HeightLoc) /\ hist' = [hist EXCEPT ![HeightLoc] = Append(q, e)]
    <3>1. hist'[HeightLoc] = Append(q, e)
      BY <1>1, <2>3
    <3>2. /\ Append(q, e) # <<>> /\ Append(q, e)[Len(Append(q, e))] = e /\ e.value = height
          /\ \A a \in DOMAIN Append(q, e) : Append(q, e)[a].value \in 1..kMaxHeight
      BY <1>1, <2>1, AppendFacts DEF e
    <3>3. Latest(HeightLoc)' = height
      BY <3>1, <3>2 DEF Latest
    <3>4. height >= Latest(HeightLoc) /\ height >= height
      BY <1>1, <2>1, <2>3, SMT
    <3> QED
      BY <1>1, <3>1, <3>2, <3>3, <3>4
  <2> QED
    BY <1>0, <2>2, <2>3
<1>6. HistTypes'
  <2>1. inserter' \in [key : Nat, height : Nat, level : Nat,
                       prev : {<<>>} \cup [Levels -> ListKeys \cup {HeadNode}]]
    BY <1>0, <1>1, PrevFound, KeyOrder
  <2>2. ASSUME NEW l \in Links
        PROVE  \A a, b \in DOMAIN hist'[l] : /\ hist'[l][a].time <= clock'
                                             /\ a < b => hist'[l][a].time < hist'[l][b].time
    <3>1. \A a \in DOMAIN hist[l] : hist[l][a].time <= clock /\ hist[l][a].time \in Nat
      BY StoreTypes DEF ListInv, HistTypes
    <3>2. \A t \in Nat : t <= clock => t <= clock'
      BY <1>1, <1>2, SMT
    <3>3. \A a \in DOMAIN hist[l] : hist[l][a].time <= clock'
      BY <3>1, <3>2
    <3> QED
      BY <1>2, <3>3 DEF ListInv, HistTypes
  <2>3. \A a, b \in DOMAIN hist'[HeightLoc] :
          /\ hist'[HeightLoc][a].time <= clock'
          /\ a < b => hist'[HeightLoc][a].time < hist'[HeightLoc][b].time
    <3>1. CASE UNCHANGED <<hist, clock>>
      BY <1>1, <3>1 DEF q
    <3>2. CASE hist' = [hist EXCEPT ![HeightLoc] = Append(q, e)] /\ clock' = clock + 1
      <4>1. hist'[HeightLoc] = Append(q, e)
        BY <1>1, <3>2
      <4>2. clock < e.time /\ e.time <= clock' /\ clock' \in Nat
        BY <1>1, <3>2, SMT DEF e
      <4> QED
        BY <1>1, <4>1, <4>2, AppendOrdered
    <3> QED
      BY <1>0, <3>1, <3>2
  <2> QED
    BY <1>0, <1>2, <2>1, <2>2, <2>3 DEF ListInv, HistTypes
<1>7. HeightInv'
  <2>1. ASSUME NEW i \in Levels, NEW x \in Chain(i), x # HeadNode PROVE i < Latest(HeightLoc)'
    <3>1. i < Latest(HeightLoc) /\ i \in Nat /\ Latest(HeightLoc) \in Nat
      BY <2>1, LatestHeight, KeyOrder DEF ListInv, HeightInv
    <3> QED
      BY <1>5, <3>1, SMT
  <2> QED
    BY <1>3, <1>5, <2>1 DEF HeightInv
<1>8. TowerInv'
  <2>1. ASSUME NEW i \in Levels, NEW x \in Chain(i), x # HeadNode PROVE FirstTime(x, i) + 1 <= clock'
    <3>1. FirstTime(x, i) + 1 <= clock /\ FirstTime(x, i) \in Nat
      BY <2>1, FirstStore DEF ListInv, TowerInv
    <3> QED
      BY <1>1, <1>2, <3>1, SMT
  <2> QED
    BY <1>3, <2>1 DEF ListInv, TowerInv
<1>9. ForwardInv' /\ PassedInv'
  BY <1>3, <1>4 DEF ListInv, ForwardInv, PassedInv
<1>10. InsertInv'
  <2>1. \A i \in Levels : key \notin Chain(i)
    <3>1. key \notin Chain(0)
      BY <1>0 DEF Inserted, Chain
    <3>2. \A i \in Levels : i = 0 \/ 0 < i
      BY KeyOrder, SMT
    <3> QED
      BY <3>1, <3>2, KeyOrder DEF ListInv, TowerInv
  <2>2. \A i \in Levels : ~(i < 0)
    BY KeyOrder, SMT
  <2>3. /\ inserter'.key = key /\ inserter'.height = height /\ inserter'.level = 0
        /\ inserter'.prev = PrevOf(key)
    BY <1>0
  <2>4. height <= Latest(HeightLoc)' /\ 0 \in 0..height
    BY <1>1, <1>5, SMT
  <2> QED
    BY <1>0, <1>3, <2>1, <2>2, <2>3, <2>4, PrevFound DEF InsertInv
<1>11. PublishedInv'
  <2>1. published.time <= clock'
    <3>1. published.time <= clock /\ published.time \in Nat
      BY DEF ListInv, PublishedInv, HistTypes
    <3> QED
      BY <1>1, <1>2, <3>1, SMTT(20)
  <2> QED
    BY <1>0, <1>3, <2>1, KeyOrder DEF ListInv, PublishedInv
<1>12. IterInv'
  BY <1>0, <1>3, IterFrame
<1> QED
  BY <1>6, <1>7, <1>8, <1>9, <1>10, <1>11, <1>12 DEF ListInv

\* A level of the new node is linked.
LEMMA LinkKeeps ==
  ASSUME ListAssumption, ListInv, IterInv, LinkLevel
  PROVE  ListInv' /\ IterInv'
<1> DEFINE Rec == [time : Nat, value : Nat]
<1>1. PICK n \in ListKeys, h \in 1..kMaxHeight, lv \in Levels, c \in Nat :
        /\ n = inserter.key /\ h = inserter.height /\ lv = inserter.level /\ c = clock
        /\ lv < h /\ h <= Latest(HeightLoc)
  <2>1. /\ inserter.key \in ListKeys /\ inserter.height \in 1..kMaxHeight /\ clock \in Nat
        /\ inserter.level \in 0..inserter.height /\ inserter.level < inserter.height
        /\ inserter.height <= Latest(HeightLoc)
    BY DEF ListInv, HistTypes, InsertInv, LinkLevel
  <2>2. inserter.level \in Levels
    BY <2>1, SMT DEF Levels, ListAssumption
  <2> QED
    BY <2>1, <2>2
<1>2. /\ \A i \in Levels : n \in Chain(i) <=> i < lv
      /\ inserter.prev \in [Levels -> ListKeys \cup {HeadNode}]
      /\ \A i \in Levels : i >= lv =>
           /\ inserter.prev[i] \in Chain(i) /\ inserter.prev[i] < n
           /\ \A x \in Chain(i) : x < n => x <= inserter.prev[i]
  BY <1>1 DEF ListInv, InsertInv, LinkLevel
<1>3. PICK p \in Chain(lv) : /\ p = inserter.prev[lv] /\ p < n
                             /\ \A x \in Chain(lv) : x < n => x <= p
  <2>1. lv >= lv
    BY KeyOrder, SMT
  <2> QED
    BY <1>2, <2>1
<1>4. /\ n \notin Chain(lv) /\ n \in Nat /\ p \in Nat /\ p # n /\ lv \in Nat /\ h \in Nat
      /\ n < Null /\ HeadNode < n /\ Null \in Nat
      /\ <<n, lv>> \in Links /\ <<p, lv>> \in Links /\ <<n, lv>> # <<p, lv>>
  <2>1. /\ p \in ListKeys \cup {HeadNode} /\ n \in Nat /\ lv \in Nat
        /\ n < Null /\ HeadNode < n /\ Null \in Nat
    BY KeyOrder DEF Chain
  <2>2. ~(lv < lv)
    BY <2>1, SMT
  <2>3. p \in Nat /\ p # n /\ h \in Nat
    <3>1. p \in Nat
      BY <2>1, KeyOrder
    <3>2. h \in Nat
      BY SMT DEF ListAssumption
    <3> QED
      BY <1>2, <2>2, <3>1, <3>2
  <2> QED
    BY <1>2, <2>1, <2>2, <2>3, Locations
<1>5. PICK q \in Seq(Rec) : q = hist[<<p, lv>>] /\ q # <<>>
  BY <1>4 DEF ListInv, HistTypes, Chain
<1>6. PICK v \in Nat : /\ v = q[Len(q)].value /\ v = Latest(<<p, lv>>) /\ v > n
                       /\ v = Null \/ (v \in Chain(lv) /\ FirstTime(v, lv) < c + 1)
  <2>1. Len(q) \in DOMAIN q /\ q[Len(q)] \in Rec
    BY <1>5, SeqFacts
  <2>2. /\ q[Len(q)].value > p
        /\ \/ q[Len(q)].value = Null
           \/ /\ q[Len(q)].value \in Chain(lv)
              /\ FirstTime(q[Len(q)].value, lv) < q[Len(q)].time
    BY <1>5, <2>1 DEF ListInv, ForwardInv
  <2>3. q[Len(q)].time <= c /\ q[Len(q)].time \in Nat /\ q[Len(q)].value \in Nat
    BY <1>1, <1>4, <1>5, <2>1 DEF ListInv, HistTypes
  <2>4. q[Len(q)].value \in Chain(lv) => /\ FirstTime(q[Len(q)].value, lv) \in Nat
                                         /\ q[Len(q)].value # n
    BY <1>4, FirstStore DEF ListInv
  <2>5. q[Len(q)].value \in Chain(lv) => ~(q[Len(q)].value < n)
    <3>1. q[Len(q)].value \in Chain(lv) /\ q[Len(q)].value < n => q[Len(q)].value <= p
      BY <1>3
    <3> QED
      BY <1>4, <2>2, <2>3, <3>1, SMTT(20)
  <2>6. q[Len(q)].value > n
    BY <1>4, <2>2, <2>3, <2>4, <2>5, SMTT(20)
  <2>7. \/ q[Len(q)].value = Null
        \/ q[Len(q)].value \in Chain(lv) /\ FirstTime(q[Len(q)].value, lv) < c + 1
    BY <2>2, <2>3, <2>4, SMTT(20)
  <2> QED
    BY <1>5, <2>3, <2>6, <2>7 DEF Latest
<1> DEFINE own == [time |-> c + 1, value |-> v]
           new == [time |-> c + 2, value |-> n]
<1>7. /\ hist' = [hist EXCEPT ![<<n, lv>>] = Append(@, own), ![<<p, lv>>] = Append(@, new)]
      /\ clock' = c + 2 /\ inserter' = [inserter EXCEPT !.level = lv + 1]
      /\ UNCHANGED <<published, iter>>
  BY <1>1, <1>3, <1>6 DEF LinkLevel, LinkTimes
<1>8. /\ own \in Rec /\ own.time = c + 1 /\ own.value = v
      /\ new \in Rec /\ new.time = c + 2 /\ new.value = n
  <2>1. c + 1 \in Nat /\ c + 2 \in Nat
    BY SMT
  <2> QED
    BY <1>4, <2>1
<1>9. /\ hist \in [Links \cup {HeightLoc} -> Seq(Rec)] /\ hist[<<n, lv>>] = <<>>
      /\ hist[<<p, lv>>] = q
  BY <1>4, <1>5 DEF ListInv, HistTypes, Chain
<1> HIDE DEF own, new, Rec
<1>10. /\ hist'[<<n, lv>>] = Append(<<>>, own) /\ hist'[<<p, lv>>] = Append(q, new)
       /\ \A l \in Links \cup {HeightLoc} : l # <<n, lv>> /\ l # <<p, lv>> => hist'[l] = hist[l]
       /\ DOMAIN hist' = Links \cup {HeightLoc} /\ hist' = [l \in DOMAIN hist' |-> hist'[l]]
  BY <1>4, <1>7, <1>9
<1>11. /\ Append(<<>>, own) \in Seq(Rec) /\ Append(<<>>, own) # <<>>
       /\ DOMAIN Append(<<>>, own) = {1} /\ Append(<<>>, own)[1] = own
  BY <1>8, SMT
<1>12. /\ Append(q, new) \in Seq(Rec) /\ Append(q, new) # <<>>
       /\ DOMAIN Append(q, new) = DOMAIN q \cup {Len(q) + 1} /\ Append(q, new)[Len(q) + 1] = new
       /\ \A a \in DOMAIN q : Append(q, new)[a] = q[a]
       /\ 1 \in DOMAIN q /\ Len(q) \in DOMAIN q
       /\ \A a \in DOMAIN q : q[a].time <= c /\ q[a].time \in Nat
       /\ \A a, b \in DOMAIN q : a < b => q[a].time < q[b].time
  <2>1. 1 \in DOMAIN q /\ Len(q) \in DOMAIN q /\ \A a \in DOMAIN q : q[a] \in Rec
    BY <1>5, SeqFacts
  <2>2. \A a \in DOMAIN q : q[a].time \in Nat
    BY <2>1 DEF Rec
  <2>3. \A a, b \in DOMAIN q : q[a].time <= c /\ (a < b => q[a].time < q[b].time)
    BY <1>1, <1>4, <1>5 DEF ListInv, HistTypes
  <2>4. /\ Append(q, new) \in Seq(Rec) /\ Append(q, new) # <<>>
        /\ DOMAIN Append(q, new) = DOMAIN q \cup {Len(q) + 1} /\ Append(q, new)[Len(q) + 1] = new
        /\ \A a \in DOMAIN q : Append(q, new)[a] = q[a]
    <3>1. q \in Seq(Rec) /\ new \in Rec
      BY <1>8
    <3> QED
      BY <3>1, AppendFacts
  <2> QED
    BY <2>1, <2>2, <2>3, <2>4
<1>13. \A i \in Levels : \A x \in Chain(i) : x \in Chain(i)' /\ FirstTime(x, i)' = FirstTime(x, i)
  <2> SUFFICES ASSUME NEW i \in Levels, NEW x \in Chain(i)
               PROVE  x \in Chain(i)' /\ FirstTime(x, i)' = FirstTime(x, i)
    OBVIOUS
  <2>1. x \in ListKeys \cup {HeadNode} /\ <<x, i>> \in Links /\ hist[<<x, i>>] # <<>>
    BY Locations DEF Chain
  <2>2. <<x, i>> # <<n, lv>>
    BY <1>9, <2>1
  <2>3. CASE <<x, i>> = <<p, lv>>
    <3>1. hist'[<<x, i>>] # <<>> /\ hist'[<<x, i>>][1] = hist[<<x, i>>][1]
      <4>1. hist'[<<x, i>>] = Append(q, new) /\ hist[<<x, i>>] = q
        BY <1>9, <1>10, <2>3
      <4> QED
        BY <1>12, <4>1
    <3> QED
      BY <2>1, <3>1 DEF Chain, FirstTime
  <2>4. CASE <<x, i>> # <<p, lv>>
    <3>1. hist'[<<x, i>>] = hist[<<x, i>>]
      BY <1>10, <2>1, <2>2, <2>4
    <3> QED
      BY <2>1, <3>1 DEF Chain, FirstTime
  <2> QED
    BY <2>3, <2>4
<1>14. n \in Chain(lv)' /\ FirstTime(n, lv)' = c + 1
  BY <1>8, <1>10, <1>11 DEF Chain, FirstTime
<1>15. ASSUME NEW i \in Levels, NEW x \in Chain(i)'
       PROVE  \/ x = n /\ i = lv
              \/ x = p /\ i = lv
              \/ x \in Chain(i) /\ hist'[<<x, i>>] = hist[<<x, i>>]
  <2>1. x \in ListKeys \cup {HeadNode} /\ <<x, i>> \in Links /\ hist'[<<x, i>>] # <<>>
    BY Locations DEF Chain
  <2> QED
    BY <1>10, <2>1, Locations DEF Chain
<1>16. \A i \in Levels : \A x \in Chain(i)' : x \in Chain(i) \/ (x = n /\ i = lv)
  BY <1>15
<1>17. \A t \in Nat : t <= c => t <= clock'
  BY <1>7, SMT
<1>18. HistTypes'
  <2>1. hist' \in [Links \cup {HeightLoc} -> Seq(Rec)]
    BY <1>9, <1>10, <1>11, <1>12, ZenonT(30)
  <2>2. inserter' \in [key : Nat, height : Nat, level : Nat,
                       prev : {<<>>} \cup [Levels -> ListKeys \cup {HeadNode}]]
    <3>1. lv + 1 \in Nat
      BY <1>4, SMT
    <3> QED
      BY <1>7, <3>1 DEF ListInv, HistTypes
  <2>3. ASSUME NEW l \in Links \cup {HeightLoc}
        PROVE  \A a, b \in DOMAIN hist'[l] : /\ hist'[l][a].time <= clock'
                                             /\ a < b => hist'[l][a].time < hist'[l][b].time
    <3>1. CASE l = <<n, lv>>
      <4>1. c + 1 <= clock' /\ ~(1 < 1)
        BY <1>7, SMT
      <4>2. hist'[l] = Append(<<>>, own)
        BY <1>10, <3>1
      <4>3. DOMAIN hist'[l] = {1} /\ hist'[l][1].time <= clock'
        <5>1. own.time <= clock'
          BY <1>8, <4>1
        <5> QED
          BY <1>11, <4>2, <5>1
      <4> QED
        BY <4>1, <4>3
    <3>2. CASE l = <<p, lv>>
      <4>1. c < new.time /\ new.time <= clock' /\ clock' \in Nat
        BY <1>7, <1>8, SMT
      <4>2. /\ q \in Seq([time : Nat, value : Nat]) /\ new \in [time : Nat, value : Nat]
            /\ \A a, b \in DOMAIN q : q[a].time <= c /\ (a < b => q[a].time < q[b].time)
        BY <1>8, <1>12 DEF Rec
      <4>3. \A a, b \in DOMAIN Append(q, new) :
              /\ Append(q, new)[a].time <= clock'
              /\ a < b => Append(q, new)[a].time < Append(q, new)[b].time
        BY <4>1, <4>2, AppendOrdered
      <4> QED
        BY <1>10, <3>2, <4>3
    <3>3. CASE l # <<n, lv>> /\ l # <<p, lv>>
      <4>1. \A a \in DOMAIN hist[l] : hist[l][a].time <= c /\ hist[l][a].time \in Nat
        BY <1>1, StoreTypes DEF ListInv, HistTypes
      <4>2. hist'[l] = hist[l]
        BY <1>10, <3>3
      <4>3. \A a \in DOMAIN hist[l] : hist[l][a].time <= clock'
        BY <1>17, <4>1
      <4> QED
        BY <4>2, <4>3 DEF ListInv, HistTypes
    <3> QED
      BY <3>1, <3>2, <3>3
  <2>4. clock' \in Nat /\ published' \in [keys : SUBSET ListKeys, time : Nat]
    <3>1. c + 2 \in Nat
      BY SMT
    <3> QED
      BY <1>7, <3>1 DEF ListInv, HistTypes
  <2> QED
    BY <2>1, <2>2, <2>3, <2>4 DEF HistTypes, Rec
<1>19. HeightInv'
  <2>1. hist'[HeightLoc] = hist[HeightLoc] /\ Latest(HeightLoc)' = Latest(HeightLoc)
    BY <1>4, <1>10, Locations DEF Latest
  <2>2. lv < Latest(HeightLoc)
    BY <1>1, <1>4, LatestHeight, SMT
  <2> QED
    BY <1>16, <2>1, <2>2 DEF ListInv, HeightInv
<1>20. TowerInv'
  <2>1. ASSUME NEW i \in Levels, NEW x \in Chain(i)', x # HeadNode PROVE FirstTime(x, i)' + 1 <= clock'
    <3>1. CASE x = n /\ i = lv
      BY <1>7, <1>14, <3>1, SMT
    <3>2. CASE x \in Chain(i)
      <4>1. FirstTime(x, i) + 1 <= c /\ FirstTime(x, i) \in Nat /\ FirstTime(x, i)' = FirstTime(x, i)
        BY <1>1, <1>13, <2>1, <3>2, FirstStore DEF ListInv, TowerInv
      <4> QED
        BY <1>7, <4>1, SMT
    <3> QED
      BY <1>16, <3>1, <3>2
  <2>2. ASSUME NEW i \in Levels, NEW x \in Chain(i)', NEW j \in Levels, j < i
        PROVE  x \in Chain(j)' /\ FirstTime(x, j)' <= FirstTime(x, i)'
    <3>1. CASE x = n /\ i = lv
      <4>1. n \in Chain(j) /\ n # HeadNode
        BY <1>2, <1>4, <2>2, <3>1, KeyOrder
      <4>2. FirstTime(n, j) + 1 <= c /\ FirstTime(n, j) \in Nat
        BY <1>1, <4>1, FirstStore DEF ListInv, TowerInv
      <4>3. FirstTime(n, j) <= c + 1
        BY <4>2, SMT
      <4> QED
        BY <1>13, <1>14, <3>1, <4>1, <4>3
    <3>2. CASE x \in Chain(i)
      BY <1>13, <2>2, <3>2 DEF ListInv, TowerInv
    <3> QED
      BY <1>16, <3>1, <3>2
  <2>3. \A i \in Levels : HeadNode \in Chain(i)' /\ FirstTime(HeadNode, i)' = 0
    BY <1>13 DEF ListInv, TowerInv
  <2> QED
    BY <2>1, <2>2, <2>3 DEF TowerInv
<1>21. ForwardInv'
  <2> SUFFICES ASSUME NEW i \in Levels, NEW x \in Chain(i)', NEW a \in DOMAIN hist'[<<x, i>>],
                      NEW s, s = hist'[<<x, i>>][a]
               PROVE  /\ s.value > x
                      /\ s.value = Null \/ (s.value \in Chain(i)' /\ FirstTime(s.value, i)' < s.time)
    BY DEF ForwardInv
  <2>1. CASE x \in Chain(i) /\ a \in DOMAIN hist[<<x, i>>] /\ s = hist[<<x, i>>][a]
    BY <1>13, <2>1 DEF ListInv, ForwardInv
  <2>2. CASE x = n /\ i = lv
    <3>1. s = own
      BY <1>10, <1>11, <2>2
    <3> QED
      BY <1>6, <1>8, <1>13, <2>2, <3>1
  <2>3. CASE x = p /\ i = lv /\ s = new
    <3>1. c + 1 < c + 2 /\ n > p
      BY <1>3, <1>4, SMT
    <3> QED
      BY <1>8, <1>14, <2>3, <3>1
  <2>4. x = p /\ i = lv => (a \in DOMAIN q /\ s = q[a]) \/ s = new
    BY <1>10, <1>12
  <2> QED
    BY <1>9, <1>15, <2>1, <2>2, <2>3, <2>4
<1>22. PassedInv'
  <2> SUFFICES ASSUME NEW i \in Levels, NEW x \in Chain(i)', NEW a \in DOMAIN hist'[<<x, i>>],
                      NEW k \in Chain(i)', x < k, k < hist'[<<x, i>>][a].value
               PROVE  \E b \in DOMAIN hist'[<<x, i>>] :
                        /\ hist'[<<x, i>>][a].time < hist'[<<x, i>>][b].time
                        /\ hist'[<<x, i>>][b].time <= FirstTime(k, i)' + 1
    BY DEF PassedInv
  <2>0. x \in Nat /\ k \in Nat /\ (\A y \in Chain(i) : y \in Nat)
    BY KeyOrder DEF Chain
  <2>1. CASE x = n /\ i = lv
    <3>1. hist'[<<x, i>>][a].value = v
      BY <1>8, <1>10, <1>11, <2>1
    <3>2. k # n /\ p < k
      BY <1>3, <1>4, <2>0, <2>1, SMTT(20)
    <3>3. k \in Chain(lv)
      BY <1>16, <2>1, <3>2
    <3>4. PICK b \in DOMAIN q : q[Len(q)].time < q[b].time
      <4>1. k < q[Len(q)].value /\ Len(q) \in DOMAIN q
        BY <1>6, <1>12, <3>1
      <4>2. \A b \in DOMAIN hist[<<p, lv>>] : \A y \in Chain(lv) :
              p < y /\ y < hist[<<p, lv>>][b].value =>
                \E d \in DOMAIN hist[<<p, lv>>] : hist[<<p, lv>>][b].time < hist[<<p, lv>>][d].time
        BY DEF ListInv, PassedInv
      <4> QED
        BY <1>9, <3>2, <3>3, <4>1, <4>2
    <3>5. b \in Nat /\ b <= Len(q) /\ Len(q) \in Nat
      BY SeqFacts, SMT
    <3>6. b = Len(q) \/ b < Len(q)
      BY <3>5, SMT
    <3>7. b < Len(q) => q[b].time < q[Len(q)].time
      BY <1>12
    <3>8. q[b].time \in Nat /\ q[Len(q)].time \in Nat
      BY <1>12
    <3> QED
      BY <3>4, <3>6, <3>7, <3>8, SMT
  <2>2. CASE x = p /\ i = lv
    <3>1. hist'[<<x, i>>] = Append(q, new)
      BY <1>10, <2>2
    <3>2. a \in DOMAIN q
      <4>1. CASE a = Len(q) + 1
        <5>1. k < n
          BY <1>8, <1>12, <3>1, <4>1
        <5>2. k \in Chain(lv) => k <= p
          BY <1>3, <5>1
        <5> QED
          BY <1>4, <1>16, <2>0, <2>2, <5>1, <5>2, SMT
      <4> QED
        BY <1>12, <3>1, <4>1
    <3>3. q[a].time <= c /\ q[a].time \in Nat /\ Append(q, new)[a] = q[a]
      BY <1>12, <3>2
    <3>4. CASE k = n
      <4>1. q[a].time < c + 2 /\ c + 2 <= c + 1 + 1
        BY <3>3, SMT
      <4>2. Len(q) + 1 \in DOMAIN Append(q, new) /\ Append(q, new)[Len(q) + 1].time = c + 2
        BY <1>8, <1>12
      <4>3. FirstTime(k, i)' = c + 1
        BY <1>14, <2>2, <3>4
      <4> QED
        BY <3>1, <3>3, <4>1, <4>2, <4>3
    <3>5. CASE k \in Chain(lv)
      <4>1. PICK b \in DOMAIN q : q[a].time < q[b].time /\ q[b].time <= FirstTime(k, lv) + 1
        BY <1>5, <2>2, <3>1, <3>2, <3>3, <3>5 DEF ListInv, PassedInv
      <4> QED
        BY <1>12, <1>13, <2>2, <3>1, <3>3, <3>5, <4>1
    <3> QED
      BY <1>16, <2>2, <3>4, <3>5
  <2>3. CASE x \in Chain(i) /\ hist'[<<x, i>>] = hist[<<x, i>>] /\ ~(x = p /\ i = lv)
    <3>1. CASE k \in Chain(i)
      BY <1>13, <2>3, <3>1 DEF ListInv, PassedInv
    <3>2. CASE k = n /\ i = lv
      <4>1. x <= p /\ x # p
        BY <1>3, <2>3, <3>2
      <4>2. x < p /\ p < hist[<<x, i>>][a].value
        <5>1. hist[<<x, i>>][a].value \in Nat
          BY <2>3, StoreTypes, FirstStore DEF ListInv
        <5> QED
          <6>1. n < hist[<<x, i>>][a].value
            BY <2>3, <3>2
          <6>2. x \in Nat /\ p \in Nat /\ n \in Nat /\ p < n
            BY <1>3, <1>4, <2>0
          <6> QED
            BY <4>1, <5>1, <6>1, <6>2, SMTT(20)
      <4>3. PICK b \in DOMAIN hist[<<x, i>>] :
              /\ hist[<<x, i>>][a].time < hist[<<x, i>>][b].time
              /\ hist[<<x, i>>][b].time <= FirstTime(p, i) + 1
        BY <2>3, <3>2, <4>2 DEF ListInv, PassedInv
      <4>4. p # HeadNode
        BY <2>0, <4>2, KeyOrder, SMT
      <4>5. FirstTime(p, i) + 1 <= c /\ FirstTime(p, i) \in Nat
        BY <1>1, <3>2, <4>4, FirstStore DEF ListInv, TowerInv
      <4>6. hist[<<x, i>>][b].time \in Nat
        BY <2>3, StoreTypes, FirstStore DEF ListInv
      <4>7. hist[<<x, i>>][b].time <= c + 1 + 1
        BY <4>3, <4>5, <4>6, SMT
      <4> QED
        BY <1>14, <2>3, <3>2, <4>3, <4>7
    <3> QED
      BY <1>16, <3>1, <3>2
  <2> QED
    BY <1>15, <2>1, <2>2, <2>3
<1>23. InsertInv'
  <2>1. /\ inserter'.key = n /\ inserter'.height = h /\ inserter'.level = lv + 1
        /\ inserter'.prev = inserter.prev
    BY <1>1, <1>7 DEF ListInv, HistTypes
  <2>2. lv + 1 \in 0..h
    BY <1>1, <1>4, SMT
  <2>3. Latest(HeightLoc)' = Latest(HeightLoc)
    BY <1>4, <1>10, Locations DEF Latest
  <2>4. \A i \in Levels : n \in Chain(i)' <=> i < lv + 1
    <3>1. \A i \in Levels : i < lv + 1 <=> i < lv \/ i = lv
      BY <1>4, KeyOrder, SMT
    <3> QED
      BY <1>2, <1>13, <1>14, <1>16, <3>1
  <2>5. ASSUME NEW i \in Levels, i >= lv + 1
        PROVE  /\ inserter.prev[i] \in Chain(i)' /\ inserter.prev[i] < n
               /\ \A x \in Chain(i)' : x < n => x <= inserter.prev[i]
    <3>1. i >= lv /\ i # lv
      BY <1>4, <2>5, KeyOrder, SMT
    <3> QED
      BY <1>2, <1>13, <1>16, <3>1
  <2> QED
    BY <1>1, <1>2, <2>1, <2>2, <2>3, <2>4, <2>5 DEF InsertInv
<1>24. PublishedInv'
  <2>1. published.time <= clock'
    BY <1>1, <1>17 DEF ListInv, PublishedInv, HistTypes
  <2> QED
    BY <1>7, <1>13, <2>1, KeyOrder DEF ListInv, PublishedInv
<1>25. IterInv'
  BY <1>7, <1>13, IterFrame
<1> QED
  BY <1>18, <1>19, <1>20, <1>21, <1>22, <1>23, <1>24, <1>25 DEF ListInv

\* The new node is made known.
LEMMA PublishKeeps ==
  ASSUME ListAssumption, ListInv, IterInv, Publish
  PROVE  ListInv' /\ IterInv'
<1>0. /\ inserter.key \in ListKeys /\ inserter.key # Null /\ inserter.level = inserter.height
      /\ inserter.height \in 1..kMaxHeight
      /\ \A i \in Levels : inserter.key \in Chain(i) <=> i < inserter.level
  BY DEF Publish, ListInv, InsertInv
<1>1. /\ published' = [keys |-> published.keys \cup {inserter.key}, time |-> clock]
      /\ inserter' = [inserter EXCEPT !.key = Null, !.height = 0, !.level = 0, !.prev = <<>>]
      /\ UNCHANGED <<hist, clock, iter>>
  BY DEF Publish
<1>2. \A i : Chain(i)' = Chain(i) /\ \A x : FirstTime(x, i)' = FirstTime(x, i)
  BY <1>1 DEF Chain, FirstTime
<1>3. HeightInv' /\ TowerInv'
  BY <1>1, <1>2 DEF ListInv, HeightInv, TowerInv, Latest
<1>4. ForwardInv' /\ PassedInv'
  BY <1>1, <1>2, ZenonT(30) DEF ListInv, ForwardInv, PassedInv
<1>5. inserter'.key = Null
  BY <1>1 DEF ListInv, HistTypes
<1>6. InsertInv'
  BY <1>5 DEF InsertInv
<1>7. HistTypes'
  <2>1. inserter' \in [key : Nat, height : Nat, level : Nat,
                       prev : {<<>>} \cup [Levels -> ListKeys \cup {HeadNode}]]
    BY <1>1, KeyOrder DEF ListInv, HistTypes
  <2>2. published' \in [keys : SUBSET ListKeys, time : Nat]
    BY <1>0, <1>1 DEF ListInv, HistTypes
  <2> QED
    BY <1>1, <2>1, <2>2 DEF ListInv, HistTypes
<1>8. PublishedInv'
  <2>1. inserter.key \in Chain(0) /\ 0 \in Levels /\ inserter.key # HeadNode
    BY <1>0, KeyOrder, SMT DEF ListAssumption
  <2>2. FirstTime(inserter.key, 0) + 1 <= clock
    BY <2>1 DEF ListInv, TowerInv
  <2>3. ASSUME NEW k \in published.keys PROVE k \in Chain(0) /\ FirstTime(k, 0) + 1 <= clock
    <3>1. k \in Chain(0) /\ FirstTime(k, 0) + 1 <= published.time /\ published.time <= clock
      BY DEF ListInv, PublishedInv
    <3>2. FirstTime(k, 0) \in Nat /\ clock \in Nat /\ published.time \in Nat
      BY <2>1, <3>1, FirstStore DEF ListInv, HistTypes
    <3> QED
      BY <3>1, <3>2, SMT
  <2>4. /\ published'.time = clock /\ published'.keys = published.keys \cup {inserter.key}
        /\ clock <= clock
    BY <1>1, SMT DEF ListInv, HistTypes
  <2> QED
    BY <1>1, <1>2, <2>1, <2>2, <2>3, <2>4 DEF PublishedInv
<1>9. IterInv'
  BY <1>1, <1>2, IterFrame
<1> QED
  BY <1>3, <1>4, <1>6, <1>7, <1>8, <1>9 DEF ListInv

-----------------------------------------------------------------------------
(* The theorem.                                                            *)

\* Every step of the writer and of the reader keeps both invariants.
LEMMA ListNext ==
  ASSUME ListAssumption, ListInv, IterInv, [Next]_vars
  PROVE  ListInv' /\ IterInv'
<1>1. ASSUME NEW k \in ListKeys, NEW h \in 1..kMaxHeight, StartInsert(k, h)
      PROVE  ListInv' /\ IterInv'
  BY <1>1, StartInsertKeeps
<1>2. CASE LinkLevel
  BY <1>2, LinkKeeps
<1>3. CASE Publish
  BY <1>3, PublishKeeps
<1>4. CASE NewIterator
  BY <1>4, NewIteratorKeeps, ListFrame DEF NewIterator
<1>5. ASSUME NEW k \in ListKeys, StartSearch("Seek", k)
      PROVE  ListInv' /\ IterInv'
  <2>1. k \in Nat /\ HeadNode < k /\ UNCHANGED <<hist, clock, published, inserter>>
    BY <1>5, KeyOrder DEF StartSearch
  <2> QED
    BY <1>5, <2>1, StartKeeps, ListFrame
<1>6. CASE StartSearch("SeekToLast", 0) \/ StartSearch("Prev", 0)
  <2>1. 0 \in Nat /\ UNCHANGED <<hist, clock, published, inserter>>
    BY <1>6 DEF StartSearch
  <2>2. ListInv'
    BY <2>1, ListFrame
  <2>3. CASE StartSearch("SeekToLast", 0)
    BY <2>1, <2>2, <2>3, StartKeeps
  <2>4. CASE StartSearch("Prev", 0)
    BY <2>1, <2>2, <2>4, StartKeeps
  <2> QED
    BY <1>6, <2>3, <2>4
<1>7. CASE SearchStep
  BY <1>7, SearchKeeps, ListFrame DEF SearchStep
<1>8. CASE StepForward("SeekToFirst") \/ StepForward("Next")
  <2>1. UNCHANGED <<hist, clock, published, inserter>>
    BY <1>8 DEF StepForward
  <2>2. ListInv'
    BY <2>1, ListFrame
  <2> QED
    BY <1>8, <2>2, StepKeeps
<1>9. CASE UNCHANGED vars
  <2>1. UNCHANGED <<hist, clock, published, inserter>> /\ iter' = iter
    BY <1>9 DEF vars
  <2>2. ListInv' /\ \A i : Chain(i)' = Chain(i) /\ \A x : FirstTime(x, i)' = FirstTime(x, i)
    BY <2>1, ListFrame
  <2> QED
    BY <2>1, <2>2, IterFrame
<1> QED
  BY <1>1, <1>2, <1>3, <1>4, <1>5, <1>6, <1>7, <1>8, <1>9 DEF Next

\* The invariants say what SeesPublished says.
LEMMA ListSees ==
  ASSUME ListAssumption, ListInv, IterInv
  PROVE  SeesPublished
<1>1. ASSUME NEW i \in Levels, NEW x \in Chain(i), FirstTime(x, i) <= iter.view
      PROVE  Initialised(x, i)
  <2>1. 1 \in DOMAIN hist[<<x, i>>]
    BY FirstStore DEF ListInv
  <2> QED
    BY <1>1, <2>1 DEF Initialised, FirstTime
<1>2. iter.pc = "search" => Initialised(iter.x, iter.level)
  BY <1>1 DEF IterInv
<1>3. iter.pc = "idle" /\ iter.node # Null => Initialised(iter.node, 0)
  BY <1>1, KeyOrder DEF IterInv
<1>4. iter.pc = "idle" => Position
  BY DEF IterInv
<1> QED
  BY <1>2, <1>3, <1>4 DEF SeesPublished, Position

\* For any keys and any kMaxHeight: SkipList::Iterator passes over no key inserted before it was
\* made, stands on the right side of its target, and loads no link before its first store, whatever
\* older or newer stores its unlocked loads return while Insert links other nodes.
THEOREM SeesPublishedHolds ==
  ASSUME ListAssumption
  PROVE  Spec => []SeesPublished
<1>1. Init => ListInv /\ IterInv
  BY ListInit
<1>2. (ListInv /\ IterInv) /\ [Next]_vars => (ListInv /\ IterInv)'
  BY ListNext
<1>3. ListInv /\ IterInv => SeesPublished
  BY ListSees
<1> QED
  BY <1>1, <1>2, <1>3, PTL DEF Spec
=============================================================================
