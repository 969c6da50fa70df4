----------------------------- MODULE LsmProofs -----------------------------
(***************************************************************************)
(* Proofs about Lsm: the inputs of a compaction stay in place, the files   *)
(* of a level are disjoint, newer entries are above older ones, and a read *)
(* returns the newest value written.                                       *)
(***************************************************************************)
EXTENDS Lsm, FiniteSetTheorems, WellFoundedInduction, TLAPS

\* The order in which the provers are tried; the steps that need arithmetic name SMT.
USE Zenon, SMTT(20)

\* The behaviours the last three results are about.  A flush inside a manual compaction can land
\* between its inputs, and a user key split over two files while a snapshot reads both of its
\* entries lets the older one be left above the newer one.
Tame == \A m \in Modes : ~(m.manual /\ m.nested) /\ (m.split => m.snapshots = 0)

-----------------------------------------------------------------------------
(* The inductive invariant.                                                *)

Entry == [key : Keys, seq : Nat \ {0}, del : BOOLEAN]
Levels == 0..(NumLevels - 1)
Stored == {e \in history : \/ \E n \in DOMAIN level0 : e \in level0[n]
                           \/ \E l \in DOMAIN levels : e \in Deep(l)}
All == mem \cup imm \cup Stored

Below(S, T) == \A a \in S, b \in T : a.key < b.key
Apart(S, T) == Below(S, T) \/ Below(T, S)
NoCommonKey(S, T) == \A a \in S, b \in T : a.key # b.key
Covers(f, k) == \E a, b \in f : a.key <= k /\ k <= b.key
NoHole(fs, gs) ==
  \A a, b \in UNION fs, k \in Nat : a.key <= k /\ k <= b.key => \E f \in gs : Covers(f, k)

TypeInv ==
  /\ mode \in Modes
  /\ lastSequence \in Nat
  /\ history \subseteq Entry
  /\ \A e \in history : e.seq <= lastSequence
  /\ \A a, b \in history : a.seq = b.seq => a = b
  /\ \E top \in Nat : \A e \in history : e.key <= top
  /\ mem \subseteq history /\ imm \subseteq history
  /\ DOMAIN level0 \subseteq Nat
  /\ \E top \in Nat : \A n \in DOMAIN level0 : n <= top
  /\ DOMAIN levels = 1..(NumLevels - 1)
  /\ \A n \in DOMAIN level0 : level0[n] \subseteq history /\ level0[n] # {}
  /\ \A l \in DOMAIN levels : \A f \in levels[l] : f \subseteq history /\ f # {}
  /\ snapshots \subseteq 0..lastSequence
  /\ mode.snapshots = 0 => snapshots = {}

SortedInv == \A l \in DOMAIN levels : \A f, g \in levels[l] : f # g => Apart(f, g)

MemInv ==
  /\ \A a \in mem, b \in imm \cup Stored : a.seq > b.seq
  /\ \A a \in imm, b \in Stored : a.seq > b.seq

OrderInv ==
  /\ \A n, m \in DOMAIN level0 : m < n => Newer(level0[n], level0[m])
  /\ \A n \in DOMAIN level0, l \in DOMAIN levels : Newer(level0[n], Deep(l))
  /\ \A l, j \in DOMAIN levels : l < j => Newer(Deep(l), Deep(j))

\* What the choice of the inputs guarantees, and nested flushes keep.
InputsOK(l, in0, in1) ==
  /\ l \in 0..(NumLevels - 2) /\ in0 \subseteq Files(l) /\ in1 \subseteq levels[l + 1]
  /\ l = 0 => \A n, m \in DOMAIN level0 :
       n < m /\ level0[m] \in in0 /\ level0[n] \notin in0 => NoCommonKey(level0[n], level0[m])
  /\ \A g \in levels[l + 1] \ in1 : Apart(g, UNION (in0 \cup in1))
  /\ mode.nested => NoHole(in0 \cup in1, in0 \cup in1)

WorkInv ==
  compaction # NoCompaction =>
    LET c == compaction
        inputs == c.in0 \cup c.in1
    IN  /\ InputsOK(c.level, c.in0, c.in1)
        /\ \A j \in DOMAIN levels : j >= c.level + 2 =>
             \A f \in levels[j] : f \in c.deeper \/ NoCommonKey(f, UNION inputs)
        /\ c.smallestSnapshot \in Nat
        /\ \A s \in snapshots \cup {lastSequence} : c.smallestSnapshot <= s
        /\ mode.split => \A e \in UNION inputs : e.seq <= c.smallestSnapshot

\* e is what a read of its key at s must find.
IsNewest(e, s) ==
  e.seq <= s /\ \A d \in history : d.key = e.key /\ d.seq <= s => d.seq <= e.seq

ReadInv ==
  \A s \in snapshots \cup {lastSequence} : \A e \in history :
    IsNewest(e, s) =>
      e \in All \/ (e.del /\ \A d \in All : d.key = e.key => d.seq > s)

LsmInv == TypeInv /\ SortedInv /\ MemInv /\ OrderInv /\ WorkInv /\ ReadInv

-----------------------------------------------------------------------------
(* Least and greatest elements.                                            *)

\* A nonempty set of naturals has a least element, and Min is it.
LEMMA MinOfNats ==
  ASSUME NEW S \in SUBSET Nat, S # {}
  PROVE  Min(S) \in S /\ \A x \in S : Min(S) <= x
<1>1. PICK x \in S : \A y \in S : ~(<<y, x>> \in OpToRel(<, Nat))
  BY WFMin, NatLessThanWellFounded
<1>2. \A y \in S : x <= y
  <2> TAKE y \in S
  <2>1. ~(y < x)
    BY <1>1 DEF OpToRel
  <2> QED  BY <2>1, SMT
<1> QED  BY <1>2 DEF Min

\* A nonempty bounded set of naturals has a greatest element, and Max is it.
LEMMA MaxOfNats ==
  ASSUME NEW S \in SUBSET Nat, S # {}, NEW t \in Nat, \A x \in S : x <= t
  PROVE  Max(S) \in S /\ \A x \in S : x <= Max(S)
<1> DEFINE T == {n \in Nat : \A x \in S : x <= n}
<1>1. Min(T) \in T /\ \A n \in T : Min(T) <= n
  BY MinOfNats
<1> DEFINE m == Min(T)
<1> HIDE DEF T
<1>2. m \in Nat /\ \A x \in S : x <= m
  BY <1>1 DEF T
<1>3. \A n \in Nat : (\A x \in S : x <= n) => m <= n
  BY <1>1 DEF T
<1> HIDE DEF m
<1>4. m \in S
  <2> SUFFICES ASSUME m \notin S PROVE FALSE
    OBVIOUS
  <2>1. PICK x \in S : TRUE
    OBVIOUS
  <2>2. m - 1 \in Nat /\ \A y \in S : y <= m - 1
    BY <1>2, <2>1, SMT
  <2> QED  BY <1>2, <1>3, <2>2, SMT
<1>5. \A x \in S : m >= x
  BY <1>2, SMT
<1>6. \A y \in S : Max(S) >= y /\ Max(S) \in S
  BY <1>4, <1>5 DEF Max
<1> QED  BY <1>4, <1>6, SMT

\* The fields of the entries that were written.
LEMMA EntryTypes ==
  ASSUME TypeInv, NEW e \in history
  PROVE  e.key \in Keys /\ e.key \in Nat /\ e.seq \in Nat /\ e.seq > 0 /\ e.del \in BOOLEAN
<1>1. e \in Entry
  BY DEF TypeInv
<1>2. e.key \in Keys /\ e.seq \in Nat \ {0} /\ e.del \in BOOLEAN
  BY <1>1 DEF Entry
<1>3. e.key \in Nat
  BY <1>2, LsmAssumption
<1> QED  BY <1>2, <1>3, SMT

\* A nonempty set of entries has a first and a last entry, and Smallest and Largest are these.
LEMMA Ends ==
  ASSUME TypeInv, NEW S \in SUBSET history, S # {}
  PROVE  /\ Smallest(S) \in S /\ \A b \in S : ~Before(b, Smallest(S))
         /\ Largest(S) \in S /\ \A b \in S : ~Before(Largest(S), b)
<1> DEFINE K == {e.key : e \in S}
<1>1. PICK top \in Nat : \A e \in history : e.key <= top
  BY DEF TypeInv
<1>2. K \in SUBSET Nat /\ K # {} /\ \A k \in K : k <= top
  BY <1>1, EntryTypes
<1>3. Min(K) \in K /\ \A k \in K : Min(K) <= k
  BY <1>2, MinOfNats
<1>4. Max(K) \in K /\ \A k \in K : k <= Max(K)
  BY <1>2, MaxOfNats
<1>5. ASSUME NEW k \in K
      PROVE  /\ \E a \in S : a.key = k /\ \A d \in S : d.key = k => d.seq <= a.seq
             /\ \E z \in S : z.key = k /\ \A d \in S : d.key = k => z.seq <= d.seq
  <2> DEFINE Q == {e.seq : e \in {d \in S : d.key = k}}
  <2>1. Q \in SUBSET Nat /\ Q # {} /\ \A q \in Q : q <= lastSequence
    <3>1. \A e \in S : e.seq \in Nat /\ e.seq <= lastSequence
      BY EntryTypes DEF TypeInv
    <3> QED  BY <3>1
  <2>2. lastSequence \in Nat
    BY DEF TypeInv
  <2> HIDE DEF Q
  <2>3. Min(Q) \in Q /\ \A q \in Q : Min(Q) <= q
    BY <2>1, MinOfNats
  <2>4. Max(Q) \in Q /\ \A q \in Q : q <= Max(Q)
    BY <2>1, <2>2, MaxOfNats
  <2>5. \A d \in S : d.key = k => d.seq \in Q
    BY DEF Q
  <2>6. \A q \in Q : \E d \in S : d.key = k /\ d.seq = q
    BY DEF Q
  <2>7. PICK a \in S : a.key = k /\ a.seq = Max(Q)
    BY <2>4, <2>6
  <2>8. PICK z \in S : z.key = k /\ z.seq = Min(Q)
    BY <2>3, <2>6
  <2>9. \A d \in S : d.key = k => d.seq <= a.seq
    BY <2>4, <2>5, <2>7
  <2>10. \A d \in S : d.key = k => z.seq <= d.seq
    BY <2>3, <2>5, <2>8
  <2> QED  BY <2>7, <2>8, <2>9, <2>10
<1>6. PICK a \in S : a.key = Min(K) /\ \A d \in S : d.key = Min(K) => d.seq <= a.seq
  BY <1>3, <1>5
<1>7. PICK z \in S : z.key = Max(K) /\ \A d \in S : d.key = Max(K) => z.seq <= d.seq
  BY <1>4, <1>5
<1>8. \A d \in S : d.key \in Nat /\ d.seq \in Nat /\ a.key <= d.key /\ d.key <= z.key
  BY <1>3, <1>4, <1>6, <1>7, EntryTypes
<1> HIDE DEF K
<1>9. \A b \in S : ~Before(b, a)
  BY <1>6, <1>8, SMT DEF Before
<1>10. \A b \in S : ~Before(z, b)
  BY <1>7, <1>8, SMT DEF Before
<1> QED  BY <1>6, <1>7, <1>9, <1>10 DEF Smallest, Largest

\* The user keys of a set of entries lie between those of its ends.
LEMMA EndKeys ==
  ASSUME TypeInv, NEW S \in SUBSET history, S # {}
  PROVE  /\ Smallest(S) \in S /\ Largest(S) \in S
         /\ Smallest(S).key \in Nat /\ Largest(S).key \in Nat
         /\ \A b \in S : Smallest(S).key <= b.key /\ b.key <= Largest(S).key
<1>1. /\ Smallest(S) \in S /\ \A b \in S : ~Before(b, Smallest(S))
      /\ Largest(S) \in S /\ \A b \in S : ~Before(Largest(S), b)
  BY Ends
<1>2. \A b \in S : b.key \in Nat
  BY EntryTypes
<1> QED  BY <1>1, <1>2, SMT DEF Before

\* Overlaps, in terms of the entries of the file.
LEMMA OverlapsMeans ==
  ASSUME TypeInv, NEW f \in SUBSET history, f # {}, NEW begin \in Nat, NEW end \in Nat
  PROVE  Overlaps(f, begin, end) <=>
           (\E a \in f : a.key <= end) /\ (\E a \in f : begin <= a.key)
<1>1. /\ Smallest(f) \in f /\ Largest(f) \in f
      /\ Smallest(f).key \in Nat /\ Largest(f).key \in Nat
      /\ \A b \in f : Smallest(f).key <= b.key /\ b.key <= Largest(f).key
  BY EndKeys
<1>2. \A b \in f : b.key \in Nat
  BY EntryTypes
<1> QED  BY <1>1, <1>2, SMT DEF Overlaps

-----------------------------------------------------------------------------
(* The choice of the inputs.                                               *)

\* There are at least two levels.
LEMMA LevelCount ==
  ASSUME TypeInv
  PROVE  /\ NumLevels \in Nat /\ NumLevels >= 2 /\ 0 \in Levels
         /\ MaxMemLevel \in 0..(NumLevels - 1)
         /\ \A l \in 0..(NumLevels - 2) :
              l \in Levels /\ l + 1 \in Levels /\ l + 1 \in DOMAIN levels
         /\ \A l \in DOMAIN levels : l \in Levels /\ l # 0 /\ l \in Nat
         /\ \A l \in Levels : l \in Nat /\ (l = 0 \/ l \in DOMAIN levels)
<1>1. NumLevels \in Nat /\ NumLevels >= 2 /\ MaxMemLevel \in 0..(NumLevels - 1)
  BY LsmAssumption DEF TypeInv, Mode, NumLevels
<1>2. DOMAIN levels = 1..(NumLevels - 1)
  BY DEF TypeInv
<1> QED  BY <1>1, <1>2, SMT DEF Levels

\* The files of a set of levels are nonempty sets of entries that were written.
LEMMA FileTypes ==
  ASSUME TypeInv, NEW l \in Levels, NEW f \in Files(l)
  PROVE  f \in SUBSET history /\ f # {}
BY LevelCount DEF TypeInv, Files

\* GetRange: the range of a set of files is the least one that holds their keys.
LEMMA RangeOf ==
  ASSUME TypeInv, NEW fs, fs # {}, \A f \in fs : f \in SUBSET history /\ f # {}
  PROVE  /\ RangeBegin(fs) \in Nat /\ RangeEnd(fs) \in Nat
         /\ \A a \in UNION fs : RangeBegin(fs) <= a.key /\ a.key <= RangeEnd(fs)
         /\ \E a \in UNION fs : a.key = RangeBegin(fs)
         /\ \E a \in UNION fs : a.key = RangeEnd(fs)
<1> DEFINE B == {Smallest(f).key : f \in fs}
           E == {Largest(f).key : f \in fs}
<1>1. ASSUME NEW f \in fs
      PROVE  /\ Smallest(f) \in f /\ Largest(f) \in f
             /\ Smallest(f).key \in Nat /\ Largest(f).key \in Nat
             /\ \A b \in f : Smallest(f).key <= b.key /\ b.key <= Largest(f).key
  BY EndKeys
<1>2. PICK top \in Nat : \A e \in history : e.key <= top
  BY DEF TypeInv
<1>3. B \in SUBSET Nat /\ B # {}
  BY <1>1
<1>4. E \in SUBSET Nat /\ E # {} /\ \A k \in E : k <= top
  BY <1>1, <1>2
<1>5. Min(B) \in B /\ \A k \in B : Min(B) <= k
  BY <1>3, MinOfNats
<1>6. Max(E) \in E /\ \A k \in E : k <= Max(E)
  BY <1>4, MaxOfNats
<1>7. PICK f \in fs : Smallest(f).key = Min(B)
  BY <1>5
<1>8. PICK g \in fs : Largest(g).key = Max(E)
  BY <1>6
<1>9. \A h \in fs : Smallest(h).key \in B /\ Largest(h).key \in E
  OBVIOUS
<1>10. ASSUME NEW h \in fs, NEW a \in h
       PROVE  Min(B) <= a.key /\ a.key <= Max(E)
  <2>1. Min(B) <= Smallest(h).key /\ Largest(h).key <= Max(E)
    BY <1>5, <1>6, <1>9
  <2>2. Smallest(h).key <= a.key /\ a.key <= Largest(h).key
    BY <1>1
  <2>3. /\ Min(B) \in Nat /\ Max(E) \in Nat
        /\ Smallest(h).key \in Nat /\ Largest(h).key \in Nat /\ a.key \in Nat
    BY <1>1, <1>3, <1>4, <1>5, <1>6, EntryTypes
  <2> QED  BY <2>1, <2>2, <2>3, SMT
<1>11. RangeBegin(fs) = Min(B) /\ RangeEnd(fs) = Max(E)
  BY DEF RangeBegin, RangeEnd
<1>12. Min(B) \in Nat /\ Max(E) \in Nat
  BY <1>3, <1>4, <1>5, <1>6
<1> HIDE DEF B, E
<1>13. \E a \in UNION fs : a.key = Min(B)
  BY <1>1, <1>7
<1>14. \E a \in UNION fs : a.key = Max(E)
  BY <1>1, <1>8
<1> QED  BY <1>10, <1>11, <1>12, <1>13, <1>14

Hits(l, b, e) == {f \in Files(l) : Overlaps(f, b, e)}
Closed(b, e) == \A f \in Hits(0, b, e) : b <= Smallest(f).key /\ Largest(f).key <= e
IsLeastClosed(b, e, begin, end) ==
  /\ b \in Keys \cup {begin} /\ e \in Keys \cup {end} /\ b <= begin /\ end <= e
  /\ Closed(b, e)
  /\ \A x \in Keys \cup {begin}, y \in Keys \cup {end} :
       x <= begin /\ end <= y /\ Closed(x, y) => x <= b /\ e <= y

\* GetOverlappingInputs at level 0: the files that meet the least closed range around the given one.
LEMMA ClosedRange ==
  ASSUME TypeInv, NEW begin \in Nat, NEW end \in Nat
  PROVE  \E b, e \in Nat :
           IsLeastClosed(b, e, begin, end) /\ GetOverlappingInputs(0, begin, end) = Hits(0, b, e)
<1> DEFINE Begins == {b \in Keys \cup {begin} : b <= begin}
           Stops == {e \in Keys \cup {end} : end <= e}
           Ranges == {r \in Begins \X Stops : Closed(r[1], r[2])}
           B == {r[1] : r \in Ranges}
           E == {r[2] : r \in Ranges}
<1>1. 0 \in Levels
  BY LevelCount
<1>2. ASSUME NEW f \in Files(0)
      PROVE  /\ Smallest(f).key \in Keys /\ Largest(f).key \in Keys
             /\ Smallest(f).key \in Nat /\ Largest(f).key \in Nat
             /\ Smallest(f) \in history /\ Largest(f) \in history
  <2>1. f \in SUBSET history /\ f # {}
    BY <1>1, FileTypes
  <2>2. Smallest(f) \in f /\ Largest(f) \in f
    BY <2>1, EndKeys
  <2> QED  BY <2>1, <2>2, EntryTypes
<1>3. Begins \in SUBSET Nat /\ Stops \in SUBSET Nat
  BY LsmAssumption
<1>4. \A x \in Begins, y \in Stops : Closed(x, y) => x \in B /\ y \in E
  <2> TAKE x \in Begins, y \in Stops
  <2> HAVE Closed(x, y)
  <2>1. <<x, y>> \in Ranges /\ <<x, y>>[1] = x /\ <<x, y>>[2] = y
    OBVIOUS
  <2> QED  BY <2>1
<1>5. \A x \in B : x \in Begins /\ \E y \in Stops : Closed(x, y)
  OBVIOUS
<1>6. \A y \in E : y \in Stops /\ \E x \in Begins : Closed(x, y)
  OBVIOUS
<1>7. PICK x0 \in Begins, y0 \in Stops : Closed(x0, y0)
  <2> DEFINE S == {begin} \cup {Smallest(f).key : f \in Files(0)}
             L == {end} \cup {Largest(f).key : f \in Files(0)}
  <2>1. PICK top \in Nat : \A e \in history : e.key <= top
    BY DEF TypeInv
  <2>2. S \in SUBSET Nat /\ S # {} /\ L \in SUBSET Nat /\ L # {}
    BY <1>2
  <2>3. top + end \in Nat /\ \A k \in L : k <= top + end
    <3>1. \A f \in Files(0) : Largest(f).key \in Nat /\ Largest(f).key <= top
      BY <1>2, <2>1
    <3> QED  BY <3>1, SMT
  <2>4. Min(S) \in S /\ \A k \in S : Min(S) <= k
    BY <2>2, MinOfNats
  <2>5. Max(L) \in L /\ \A k \in L : k <= Max(L)
    BY <2>2, <2>3, MaxOfNats
  <2>6. /\ begin \in S /\ end \in L
        /\ \A f \in Files(0) : Smallest(f).key \in S /\ Largest(f).key \in L
    OBVIOUS
  <2>7. Min(S) \in Keys \cup {begin} /\ Max(L) \in Keys \cup {end}
    BY <1>2, <2>4, <2>5
  <2> HIDE DEF S, L
  <2>8. Min(S) \in Begins /\ Max(L) \in Stops
    BY <2>4, <2>5, <2>6, <2>7
  <2>9. Closed(Min(S), Max(L))
    BY <2>4, <2>5, <2>6 DEF Closed, Hits
  <2> QED  BY <2>8, <2>9
<1>8. x0 \in B /\ y0 \in E
  BY <1>4, <1>7
<1>9. B \in SUBSET Nat /\ B # {} /\ E \in SUBSET Nat /\ E # {} /\ \A x \in B : x <= begin
  BY <1>3, <1>5, <1>6, <1>8
<1>10. Max(B) \in B /\ \A x \in B : x <= Max(B)
  BY <1>9, MaxOfNats
<1>11. Min(E) \in E /\ \A y \in E : Min(E) <= y
  BY <1>9, MinOfNats
<1>12. GetOverlappingInputs(0, begin, end) = Hits(0, Max(B), Min(E))
  BY DEF GetOverlappingInputs, Hits, Closed
<1>13. /\ Max(B) \in Keys \cup {begin} /\ Max(B) <= begin
       /\ Min(E) \in Keys \cup {end} /\ end <= Min(E)
  BY <1>5, <1>6, <1>10, <1>11
<1>14. PICK y1 \in Stops : Closed(Max(B), y1)
  BY <1>5, <1>10
<1>15. PICK x1 \in Begins : Closed(x1, Min(E))
  BY <1>6, <1>11
<1>16. Min(E) <= y1 /\ x1 <= Max(B)
  <2>1. Max(B) \in Begins /\ Min(E) \in Stops
    BY <1>5, <1>6, <1>10, <1>11
  <2>2. x1 \in B /\ y1 \in E
    BY <1>4, <1>14, <1>15, <2>1
  <2> QED  BY <1>10, <1>11, <2>2
<1>17. Max(B) \in Nat /\ Min(E) \in Nat /\ x1 \in Nat /\ y1 \in Nat
  BY <1>3, <1>9, <1>10, <1>11
<1> DEFINE b == Max(B)
           e == Min(E)
<1> HIDE DEF B, E, Ranges, b, e
<1>18. Closed(b, e)
  <2> SUFFICES ASSUME NEW f \in Files(0), Overlaps(f, b, e)
               PROVE  b <= Smallest(f).key /\ Largest(f).key <= e
    BY DEF Closed, Hits
  <2>1. Overlaps(f, b, y1) /\ Overlaps(f, x1, e)
    <3>1. Smallest(f).key \in Nat /\ Largest(f).key \in Nat
      BY <1>2
    <3>2. b \in Nat /\ e \in Nat /\ x1 \in Nat /\ y1 \in Nat /\ e <= y1 /\ x1 <= b
      BY <1>16, <1>17 DEF b, e
    <3> QED  BY <3>1, <3>2, SMT DEF Overlaps
  <2> QED  BY <1>14, <1>15, <2>1 DEF Closed, Hits, b, e
<1>19. \A x \in Keys \cup {begin}, y \in Keys \cup {end} :
         x <= begin /\ end <= y /\ Closed(x, y) => x <= b /\ e <= y
  BY <1>4, <1>10, <1>11 DEF b, e
<1>20. IsLeastClosed(b, e, begin, end)
  BY <1>13, <1>18, <1>19 DEF IsLeastClosed, b, e
<1> QED  BY <1>12, <1>17, <1>20 DEF b, e

\* What GetOverlappingInputs returns: files of the level, among them every file that meets the
\* range, at level 0 every file that shares a key with one of them, and no hole outside the range.
LEMMA Overlapping ==
  ASSUME TypeInv, NEW l \in Levels, NEW begin \in Nat, NEW end \in Nat
  PROVE  LET R == GetOverlappingInputs(l, begin, end)
         IN  /\ R \subseteq Files(l)
             /\ \A f \in Files(l) : Overlaps(f, begin, end) => f \in R
             /\ l # 0 => \A f \in R : Overlaps(f, begin, end)
             /\ l = 0 => \A f \in R, g \in Files(0) \ R : NoCommonKey(g, f)
             /\ \A x, y \in UNION R, k \in Nat :
                  x.key <= k /\ k <= y.key => (begin <= k /\ k <= end) \/ \E f \in R : Covers(f, k)
<1> DEFINE R == GetOverlappingInputs(l, begin, end)
<1>1. ASSUME NEW f \in Files(l)
      PROVE  /\ f \in SUBSET history /\ f # {}
             /\ Smallest(f) \in f /\ Largest(f) \in f
             /\ Smallest(f).key \in Nat /\ Largest(f).key \in Nat
             /\ Smallest(f).key \in Keys /\ Largest(f).key \in Keys
             /\ \A b \in f : b.key \in Nat /\ Smallest(f).key <= b.key /\ b.key <= Largest(f).key
  <2>1. f \in SUBSET history /\ f # {}
    BY FileTypes
  <2> QED  BY <2>1, EndKeys, EntryTypes
<1>2. CASE l # 0
  <2>1. R = Hits(l, begin, end)
    BY <1>2 DEF GetOverlappingInputs, Hits
  <2>2. R \subseteq Files(l) /\ \A f \in Files(l) : Overlaps(f, begin, end) <=> f \in R
    BY <2>1 DEF Hits
  <2>3. ASSUME NEW f \in R, NEW g \in R, NEW x \in f, NEW y \in g, NEW k \in Nat,
               x.key <= k, k <= y.key
        PROVE  (begin <= k /\ k <= end) \/ Covers(f, k) \/ Covers(g, k)
    <3>1. f \in Files(l) /\ g \in Files(l) /\ Overlaps(f, begin, end) /\ Overlaps(g, begin, end)
      BY <2>2
    <3>2. CASE k < begin
      <4>1. begin <= Largest(f).key /\ Largest(f).key \in Nat
        BY <1>1, <3>1 DEF Overlaps
      <4>2. k <= Largest(f).key
        BY <3>2, <4>1, SMT
      <4> QED  BY <1>1, <2>3, <3>1, <4>2 DEF Covers
    <3>3. CASE k > end
      <4>1. Smallest(g).key <= end /\ Smallest(g).key \in Nat
        BY <1>1, <3>1 DEF Overlaps
      <4>2. Smallest(g).key <= k
        BY <3>3, <4>1, SMT
      <4> QED  BY <1>1, <2>3, <3>1, <4>2 DEF Covers
    <3> QED  BY <3>2, <3>3, SMT
  <2> QED  BY <1>2, <2>2, <2>3
<1>3. CASE l = 0
  <2>1. R = GetOverlappingInputs(0, begin, end)
    BY <1>3
  <2> HIDE DEF R
  <2>2. PICK b \in Nat, e \in Nat :
          IsLeastClosed(b, e, begin, end) /\ GetOverlappingInputs(0, begin, end) = Hits(0, b, e)
    BY ClosedRange
  <2>3. /\ b \in Nat /\ e \in Nat /\ b <= begin /\ end <= e
        /\ b \in Keys \cup {begin} /\ e \in Keys \cup {end}
        /\ R = Hits(0, b, e)
        /\ Closed(b, e)
        /\ \A x \in Keys \cup {begin}, y \in Keys \cup {end} :
             x <= begin /\ end <= y /\ Closed(x, y) => x <= b /\ e <= y
    BY <2>1, <2>2 DEF IsLeastClosed
  <2>4. R \subseteq Files(0) /\ \A f \in Files(0) : Overlaps(f, b, e) <=> f \in R
    BY <2>3 DEF Hits
  <2>5. \A f \in R : b <= Smallest(f).key /\ Largest(f).key <= e
    BY <2>3 DEF Closed
  <2>6. ASSUME NEW f \in Files(0), Overlaps(f, begin, end)
        PROVE  f \in R
    <3>1. Smallest(f).key \in Nat /\ Largest(f).key \in Nat
      BY <1>1, <1>3
    <3>2. Smallest(f).key <= end /\ begin <= Largest(f).key /\ b <= begin /\ end <= e
          /\ b \in Nat /\ e \in Nat
      BY <2>3, <2>6 DEF Overlaps
    <3>3. Overlaps(f, b, e)
      BY <3>1, <3>2, SMT DEF Overlaps
    <3> QED  BY <2>4, <3>3
  <2>7. ASSUME NEW f \in R, NEW g \in Files(0) \ R, NEW u \in g, NEW v \in f, u.key = v.key
        PROVE  FALSE
    <3>1. b <= Smallest(f).key /\ Largest(f).key <= e /\ b \in Nat /\ e \in Nat
      BY <2>3, <2>5
    <3>2. Smallest(f).key <= v.key /\ v.key <= Largest(f).key /\ v.key \in Nat
          /\ Smallest(f).key \in Nat /\ Largest(f).key \in Nat
      BY <1>1, <1>3, <2>4
    <3>3. Smallest(g).key <= u.key /\ u.key <= Largest(g).key
          /\ Smallest(g).key \in Nat /\ Largest(g).key \in Nat
      BY <1>1, <1>3
    <3>4. Overlaps(g, b, e)
      BY <2>7, <3>1, <3>2, <3>3, SMT DEF Overlaps
    <3> QED  BY <2>4, <3>4
  <2>8. ASSUME NEW f \in R, NEW g \in R, NEW x \in f, NEW y \in g, NEW k \in Nat,
               x.key <= k, k <= y.key, ~(begin <= k /\ k <= end)
        PROVE  \E h \in R : Covers(h, k)
    <3> SUFFICES ASSUME \A h \in R : ~Covers(h, k) PROVE FALSE
      OBVIOUS
    <3>1. ASSUME NEW h \in R
          PROVE  Smallest(h).key > k \/ Largest(h).key < k
      <4>1. ~(Smallest(h).key <= k /\ k <= Largest(h).key)
        BY <1>1, <1>3, <2>4 DEF Covers
      <4>2. Smallest(h).key \in Nat /\ Largest(h).key \in Nat
        BY <1>1, <1>3, <2>4
      <4> QED  BY <4>1, <4>2, SMT
    <3>2. b <= k /\ k <= e
      <4>1. b <= Smallest(f).key /\ Smallest(f).key <= x.key /\ y.key <= Largest(g).key
            /\ Largest(g).key <= e
        BY <1>1, <1>3, <2>4, <2>5
      <4>2. x.key \in Nat /\ y.key \in Nat /\ Smallest(f).key \in Nat /\ Largest(g).key \in Nat
            /\ b \in Nat /\ e \in Nat
        BY <1>1, <1>3, <2>3, <2>4
      <4> QED  BY <2>8, <4>1, <4>2, SMT
    <3>3. CASE k < begin
      <4> DEFINE B == {begin} \cup {c \in {Smallest(h).key : h \in R} : c > k}
      <4>1. B \in SUBSET Nat /\ B # {}
        BY <1>1, <1>3, <2>4
      <4>2. Min(B) \in B /\ \A c \in B : Min(B) <= c
        BY <4>1, MinOfNats
      <4>3. Min(B) \in Keys \cup {begin}
        BY <1>1, <1>3, <2>4, <4>2
      <4>4. begin \in B /\ \A h \in R : Smallest(h).key > k => Smallest(h).key \in B
        OBVIOUS
      <4>5. Min(B) > k /\ Min(B) <= begin /\ Min(B) \in Nat
        BY <3>3, <4>1, <4>2, <4>4, SMTT(20)
      <4> HIDE DEF B
      <4>6. Closed(Min(B), e)
        <5> SUFFICES ASSUME NEW h \in Files(0), Overlaps(h, Min(B), e)
                     PROVE  Min(B) <= Smallest(h).key /\ Largest(h).key <= e
          BY DEF Closed, Hits
        <5>1. Smallest(h).key \in Nat /\ Largest(h).key \in Nat /\ b \in Nat /\ e \in Nat
          BY <1>1, <1>3, <2>3
        <5>2. Smallest(h).key <= e /\ b <= Largest(h).key /\ ~(Largest(h).key < k)
          BY <3>2, <4>5, <5>1, SMT DEF Overlaps
        <5>3. h \in R
          BY <2>4, <5>2 DEF Overlaps
        <5> QED  BY <2>5, <3>1, <4>2, <4>4, <5>2, <5>3
      <4>7. Min(B) <= b
        BY <2>3, <4>3, <4>5, <4>6
      <4> QED  BY <2>3, <3>2, <4>5, <4>7, SMT
    <3>4. CASE k > end
      <4> DEFINE E == {end} \cup {c \in {Largest(h).key : h \in R} : c < k}
      <4>1. E \in SUBSET Nat /\ E # {} /\ \A c \in E : c <= k
        BY <1>1, <1>3, <2>4, <3>4, SMT
      <4>2. Max(E) \in E /\ \A c \in E : c <= Max(E)
        BY <4>1, MaxOfNats
      <4>3. Max(E) \in Keys \cup {end}
        BY <1>1, <1>3, <2>4, <4>2
      <4>4. end \in E /\ \A h \in R : Largest(h).key < k => Largest(h).key \in E
        OBVIOUS
      <4>5. Max(E) < k /\ end <= Max(E) /\ Max(E) \in Nat
        BY <3>4, <4>1, <4>2, <4>4, SMT
      <4> HIDE DEF E
      <4>6. Closed(b, Max(E))
        <5> SUFFICES ASSUME NEW h \in Files(0), Overlaps(h, b, Max(E))
                     PROVE  b <= Smallest(h).key /\ Largest(h).key <= Max(E)
          BY DEF Closed, Hits
        <5>1. Smallest(h).key \in Nat /\ Largest(h).key \in Nat /\ b \in Nat /\ e \in Nat
          BY <1>1, <1>3, <2>3
        <5>2. Smallest(h).key <= e /\ b <= Largest(h).key /\ ~(Smallest(h).key > k)
          BY <3>2, <4>5, <5>1, SMT DEF Overlaps
        <5>3. h \in R
          BY <2>4, <5>2 DEF Overlaps
        <5> QED  BY <2>5, <3>1, <4>2, <4>4, <5>2, <5>3
      <4>7. e <= Max(E)
        BY <2>3, <4>3, <4>5, <4>6
      <4> QED  BY <2>3, <3>2, <4>5, <4>7, SMT
    <3> QED  BY <2>8, <3>3, <3>4, SMT
  <2>9. \A h \in R, g \in Files(0) \ R : NoCommonKey(g, h)
    BY <2>7 DEF NoCommonKey
  <2>10. \A x, y \in UNION R, k \in Nat :
          x.key <= k /\ k <= y.key => (begin <= k /\ k <= end) \/ \E h \in R : Covers(h, k)
    BY <2>8
  <2> QED  BY <1>3, <2>4, <2>6, <2>9, <2>10 DEF R
<1> QED  BY <1>2, <1>3

\* At level 0 a compaction takes every file that shares a key with one of its inputs.
Shut(in0) == \A f \in in0, g \in Files(0) \ in0 : NoCommonKey(g, f)

\* The inputs from the next level: every other file of it is before or after all inputs.
LEMMA NextLevel ==
  ASSUME TypeInv, SortedInv, NEW l \in 0..(NumLevels - 2), NEW in0 \in SUBSET Files(l), in0 # {}
  PROVE  LET in1 == GetOverlappingInputs(l + 1, RangeBegin(in0), RangeEnd(in0))
         IN  /\ in1 \subseteq levels[l + 1]
             /\ \A g \in levels[l + 1] \ in1 : Apart(g, UNION (in0 \cup in1))
             /\ NoHole(in0, in0 \cup in1) => NoHole(in0 \cup in1, in0 \cup in1)
<1> DEFINE B == RangeBegin(in0)
           E == RangeEnd(in0)
           in1 == GetOverlappingInputs(l + 1, B, E)
<1>1. l \in Levels /\ l + 1 \in Levels /\ l + 1 \in DOMAIN levels /\ l + 1 # 0
  BY LevelCount, SMT
<1>2. Files(l + 1) = levels[l + 1]
  BY <1>1 DEF Files
<1>3. \A f \in in0 : f \in SUBSET history /\ f # {}
  BY <1>1, FileTypes
<1>4. /\ B \in Nat /\ E \in Nat
      /\ \A a \in UNION in0 : B <= a.key /\ a.key <= E
      /\ \E a \in UNION in0 : a.key = B
      /\ \E a \in UNION in0 : a.key = E
  BY <1>3, RangeOf
<1>5. in1 \subseteq levels[l + 1] /\ \A f \in levels[l + 1] : f \in in1 <=> Overlaps(f, B, E)
  BY <1>1, <1>2, <1>4, Overlapping
<1> HIDE DEF B, E, in1
<1>6. ASSUME NEW f \in levels[l + 1]
      PROVE  /\ \A a \in f : a.key \in Nat
             /\ Overlaps(f, B, E) <=> (\E a \in f : a.key <= E) /\ (\E a \in f : B <= a.key)
  <2>1. f \in SUBSET history /\ f # {}
    BY <1>1, <1>2, FileTypes
  <2> QED  BY <1>4, <2>1, OverlapsMeans, EntryTypes
<1>7. \A a \in UNION in0 : a.key \in Nat
  BY <1>3, EntryTypes
<1>8. ASSUME NEW g \in levels[l + 1] \ in1
      PROVE  Apart(g, UNION (in0 \cup in1))
  <2>1. (\A a \in g : a.key > E) \/ (\A a \in g : a.key < B)
    <3>1. \A a \in g : a.key \in Nat
      BY <1>6
    <3>2. (\A a \in g : ~(a.key <= E)) \/ (\A a \in g : ~(B <= a.key))
      BY <1>5, <1>6
    <3> QED  BY <1>4, <3>1, <3>2, SMT
  <2>2. ASSUME NEW f \in in1
        PROVE  /\ f \in levels[l + 1] /\ f # g /\ (Below(f, g) \/ Below(g, f))
               /\ (\E a \in f : a.key <= E) /\ (\E a \in f : B <= a.key)
    BY <1>1, <1>5, <1>6 DEF SortedInv, Apart
  <2>3. CASE \A a \in g : a.key > E
    <3>1. ASSUME NEW f \in in0, NEW b \in f, NEW a \in g
          PROVE  b.key < a.key
      <4>1. b.key <= E /\ b.key \in Nat /\ a.key \in Nat /\ a.key > E
        BY <1>4, <1>6, <1>7, <2>3
      <4> QED  BY <1>4, <4>1, SMT
    <3>2. ASSUME NEW f \in in1, NEW b \in f, NEW a \in g
          PROVE  b.key < a.key
      <4>1. PICK d \in f : d.key <= E
        BY <2>2
      <4>2. d.key \in Nat /\ a.key \in Nat /\ a.key > E
        BY <1>6, <2>2, <2>3
      <4>3. ~(a.key < d.key)
        BY <1>4, <4>1, <4>2, SMT
      <4> QED  BY <2>2, <4>3 DEF Below
    <3>3. Below(UNION (in0 \cup in1), g)
      BY <3>1, <3>2 DEF Below
    <3> QED  BY <3>3 DEF Apart
  <2>4. CASE \A a \in g : a.key < B
    <3>1. ASSUME NEW f \in in0, NEW b \in f, NEW a \in g
          PROVE  a.key < b.key
      <4>1. B <= b.key /\ b.key \in Nat /\ a.key \in Nat /\ a.key < B
        BY <1>4, <1>6, <1>7, <2>4
      <4> QED  BY <1>4, <4>1, SMT
    <3>2. ASSUME NEW f \in in1, NEW b \in f, NEW a \in g
          PROVE  a.key < b.key
      <4>1. PICK d \in f : B <= d.key
        BY <2>2
      <4>2. d.key \in Nat /\ a.key \in Nat /\ a.key < B
        BY <1>6, <2>2, <2>4
      <4>3. ~(d.key < a.key)
        BY <1>4, <4>1, <4>2, SMT
      <4> QED  BY <2>2, <4>3 DEF Below
    <3>3. Below(g, UNION (in0 \cup in1))
      BY <3>1, <3>2 DEF Below
    <3> QED  BY <3>3 DEF Apart
  <2> QED  BY <2>1, <2>3, <2>4
<1>9. ASSUME NoHole(in0, in0 \cup in1),
             NEW f \in in0 \cup in1, NEW g \in in0 \cup in1, NEW x \in f, NEW y \in g,
             NEW k \in Nat, x.key <= k, k <= y.key
      PROVE  \E h \in in0 \cup in1 : Covers(h, k)
  <2>1. CASE B <= k /\ k <= E
    <3>1. PICK a \in UNION in0, b \in UNION in0 : a.key = B /\ b.key = E
      BY <1>4
    <3> QED  BY <1>9, <2>1, <3>1 DEF NoHole
  <2>2. CASE k < B
    <3>1. f \in in1
      <4>1. ASSUME f \in in0 PROVE FALSE
        <5>1. B <= x.key /\ x.key \in Nat
          BY <1>4, <1>7, <4>1
        <5> QED  BY <1>4, <1>9, <2>2, <5>1, SMT
      <4> QED  BY <4>1
    <3>2. PICK a \in f : B <= a.key
      BY <1>5, <1>6, <3>1
    <3>3. a.key \in Nat
      BY <1>5, <1>6, <3>1
    <3>4. k <= a.key
      BY <1>4, <2>2, <3>2, <3>3, SMT
    <3> QED  BY <1>9, <3>4 DEF Covers
  <2>3. CASE k > E
    <3>1. g \in in1
      <4>1. ASSUME g \in in0 PROVE FALSE
        <5>1. y.key <= E /\ y.key \in Nat
          BY <1>4, <1>7, <4>1
        <5> QED  BY <1>4, <1>9, <2>3, <5>1, SMT
      <4> QED  BY <4>1
    <3>2. PICK a \in g : a.key <= E
      BY <1>5, <1>6, <3>1
    <3>3. a.key \in Nat
      BY <1>5, <1>6, <3>1
    <3>4. a.key <= k
      BY <1>4, <2>3, <3>2, <3>3, SMT
    <3> QED  BY <1>9, <3>4 DEF Covers
  <2> QED  BY <1>4, <2>1, <2>2, <2>3, SMT
<1>10. NoHole(in0, in0 \cup in1) => NoHole(in0 \cup in1, in0 \cup in1)
  <2> HAVE NoHole(in0, in0 \cup in1)
  <2> SUFFICES ASSUME NEW x \in UNION (in0 \cup in1), NEW y \in UNION (in0 \cup in1), NEW k \in Nat,
                      x.key <= k, k <= y.key
               PROVE  \E h \in in0 \cup in1 : Covers(h, k)
    BY DEF NoHole
  <2>1. PICK f \in in0 \cup in1, g \in in0 \cup in1 : x \in f /\ y \in g
    OBVIOUS
  <2> QED  BY <1>9, <2>1
<1> QED  BY <1>5, <1>8, <1>10 DEF in1, B, E

\* SetupOtherInputs: from inputs that are shut at level 0, and without a hole where a flush can
\* come between, it makes inputs a compaction may work on.
LEMMA SetupInputs ==
  ASSUME TypeInv, SortedInv, NEW l \in 0..(NumLevels - 2), NEW in0 \in SUBSET Files(l), in0 # {},
         l = 0 => Shut(in0), mode.nested => NoHole(in0, in0),
         NEW inputs \in SetupOtherInputs(l, in0)
  PROVE  InputsOK(l, inputs[1], inputs[2])
<1> DEFINE in1 == GetOverlappingInputs(l + 1, RangeBegin(in0), RangeEnd(in0))
           all == in0 \cup in1
           expanded0 == GetOverlappingInputs(l, RangeBegin(all), RangeEnd(all))
           expanded1 == GetOverlappingInputs(l + 1, RangeBegin(expanded0), RangeEnd(expanded0))
<1>1. inputs = <<in0, in1>> \/ inputs = <<expanded0, expanded1>>
  BY DEF SetupOtherInputs
<1>2. /\ in1 \subseteq levels[l + 1]
      /\ \A g \in levels[l + 1] \ in1 : Apart(g, UNION (in0 \cup in1))
      /\ NoHole(in0, in0 \cup in1) => NoHole(in0 \cup in1, in0 \cup in1)
  BY NextLevel
<1>3. l \in Levels /\ l + 1 \in Levels /\ l + 1 # 0
  BY LevelCount, SMT
<1>4. Files(l + 1) = levels[l + 1]
  BY <1>3 DEF Files
<1>5. mode.nested => NoHole(all, all)
  <2> HAVE mode.nested
  <2>1. NoHole(in0, in0)
    OBVIOUS
  <2>2. NoHole(in0, in0 \cup in1)
    BY <2>1 DEF NoHole
  <2> QED  BY <1>2, <2>2
<1>6. ASSUME NEW fs \in SUBSET Files(l), Shut(fs), l = 0
      PROVE  \A n, m \in DOMAIN level0 :
               n < m /\ level0[m] \in fs /\ level0[n] \notin fs => NoCommonKey(level0[n], level0[m])
  <2>1. \A n \in DOMAIN level0 : level0[n] \in Files(0)
    BY DEF Files
  <2> QED  BY <1>6, <2>1 DEF Shut
<1>7. CASE inputs = <<in0, in1>>
  <2>1. inputs[1] = in0 /\ inputs[2] = in1
    BY <1>7
  <2> HIDE DEF in1
  <2>2. InputsOK(l, in0, in1)
    BY <1>2, <1>5, <1>6 DEF InputsOK
  <2> QED  BY <2>1, <2>2
<1>8. CASE inputs = <<expanded0, expanded1>>
  <2>1. inputs[1] = expanded0 /\ inputs[2] = expanded1
    BY <1>8
  <2>2. \A f \in all : f \in SUBSET history /\ f # {}
    <3>1. \A f \in in0 : f \in SUBSET history /\ f # {}
      BY <1>3, FileTypes
    <3>2. \A f \in in1 : f \in SUBSET history /\ f # {}
      BY <1>2, <1>3, <1>4, FileTypes
    <3> QED  BY <3>1, <3>2
  <2> HIDE DEF in1
  <2>3. /\ RangeBegin(all) \in Nat /\ RangeEnd(all) \in Nat
        /\ \A a \in UNION all : RangeBegin(all) <= a.key /\ a.key <= RangeEnd(all)
        /\ \E a \in UNION all : a.key = RangeBegin(all)
        /\ \E a \in UNION all : a.key = RangeEnd(all)
    BY <2>2, RangeOf
  <2> HIDE DEF all
  <2>4. /\ expanded0 \subseteq Files(l)
        /\ \A f \in Files(l) : Overlaps(f, RangeBegin(all), RangeEnd(all)) => f \in expanded0
        /\ l = 0 => \A f \in expanded0, g \in Files(0) \ expanded0 : NoCommonKey(g, f)
        /\ \A x, y \in UNION expanded0, k \in Nat :
             x.key <= k /\ k <= y.key =>
               (RangeBegin(all) <= k /\ k <= RangeEnd(all)) \/ \E f \in expanded0 : Covers(f, k)
    BY <1>3, <2>3, Overlapping
  <2>5. in0 \subseteq expanded0
    <3> SUFFICES ASSUME NEW f \in in0 PROVE Overlaps(f, RangeBegin(all), RangeEnd(all))
      BY <2>4
    <3>1. f \in SUBSET history /\ f # {} /\ f \in all
      BY <2>2 DEF all
    <3>2. PICK a \in f : TRUE
      BY <3>1
    <3>3. RangeBegin(all) <= a.key /\ a.key <= RangeEnd(all)
      BY <2>3, <3>1
    <3> QED  BY <2>3, <3>1, <3>3, OverlapsMeans
  <2> HIDE DEF expanded0
  <2>6. expanded0 \in SUBSET Files(l) /\ expanded0 # {}
    BY <2>4, <2>5
  <2>7. /\ expanded1 \subseteq levels[l + 1]
        /\ \A g \in levels[l + 1] \ expanded1 : Apart(g, UNION (expanded0 \cup expanded1))
        /\ NoHole(expanded0, expanded0 \cup expanded1) =>
             NoHole(expanded0 \cup expanded1, expanded0 \cup expanded1)
    BY <2>6, NextLevel
  <2>8. in1 \subseteq expanded1
    <3>1. \A f \in expanded0 : f \in SUBSET history /\ f # {}
      BY <1>3, <2>6, FileTypes
    <3>2. /\ RangeBegin(expanded0) \in Nat /\ RangeEnd(expanded0) \in Nat
          /\ \A a \in UNION expanded0 :
               RangeBegin(expanded0) <= a.key /\ a.key <= RangeEnd(expanded0)
      BY <2>6, <3>1, RangeOf
    <3>3. \A f \in in0 : f \in SUBSET history /\ f # {}
      BY <2>2 DEF all
    <3>4. /\ RangeBegin(in0) \in Nat /\ RangeEnd(in0) \in Nat
          /\ \E a \in UNION in0 : a.key = RangeBegin(in0)
          /\ \E a \in UNION in0 : a.key = RangeEnd(in0)
      BY <3>3, RangeOf
    <3>5. RangeBegin(expanded0) <= RangeBegin(in0) /\ RangeEnd(in0) <= RangeEnd(expanded0)
      BY <2>5, <3>2, <3>4
    <3>6. ASSUME NEW f \in in1
          PROVE  Overlaps(f, RangeBegin(expanded0), RangeEnd(expanded0))
      <4>1. Overlaps(f, RangeBegin(in0), RangeEnd(in0))
        BY <1>3, <3>4, Overlapping DEF in1
      <4>2. f \in SUBSET history /\ f # {}
        BY <2>2 DEF all
      <4>3. Smallest(f).key \in Nat /\ Largest(f).key \in Nat
        BY <4>2, EndKeys
      <4> QED  BY <3>2, <3>4, <3>5, <4>1, <4>3, SMTT(20) DEF Overlaps
    <3>7. \A f \in Files(l + 1) :
            Overlaps(f, RangeBegin(expanded0), RangeEnd(expanded0)) => f \in expanded1
      BY <1>3, <3>2, Overlapping
    <3> QED  BY <1>2, <1>4, <3>6, <3>7
  <2>9. ASSUME mode.nested
        PROVE  NoHole(expanded0, expanded0 \cup expanded1)
    <3> SUFFICES ASSUME NEW x \in UNION expanded0, NEW y \in UNION expanded0, NEW k \in Nat,
                        x.key <= k, k <= y.key
                 PROVE  \E f \in expanded0 \cup expanded1 : Covers(f, k)
      BY DEF NoHole
    <3>1. CASE RangeBegin(all) <= k /\ k <= RangeEnd(all)
      <4>1. NoHole(all, all)
        BY <1>5, <2>9
      <4>2. \E f \in all : Covers(f, k)
        BY <2>3, <3>1, <4>1 DEF NoHole
      <4> QED  BY <2>5, <2>8, <4>2 DEF all
    <3> QED  BY <2>4, <3>1
  <2> HIDE DEF expanded1
  <2>10. Shut(expanded0) \/ l # 0
    BY <2>4 DEF Shut
  <2>11. InputsOK(l, expanded0, expanded1)
    BY <1>6, <2>6, <2>7, <2>9, <2>10 DEF InputsOK
  <2> QED  BY <2>1, <2>11
<1> QED  BY <1>1, <1>7, <1>8

\* PickCompaction starts from files of the level, shut at level 0, without a hole.
LEMMA PickInputs ==
  ASSUME TypeInv, NEW l \in 0..(NumLevels - 2), NEW in0 \in PickCompaction(l)
  PROVE  /\ in0 \in SUBSET Files(l) /\ in0 # {} /\ NoHole(in0, in0)
         /\ l = 0 => Shut(in0)
         /\ l # 0 => \E f : in0 = {f}
<1>1. l \in Levels
  BY LevelCount
<1>2. PICK f \in Files(l) :
        in0 = IF l = 0 THEN GetOverlappingInputs(0, Smallest(f).key, Largest(f).key) ELSE {f}
  BY DEF PickCompaction
<1>3. f \in SUBSET history /\ f # {}
  BY <1>1, FileTypes
<1>4. /\ Smallest(f) \in f /\ Largest(f) \in f
      /\ Smallest(f).key \in Nat /\ Largest(f).key \in Nat
      /\ \A b \in f : Smallest(f).key <= b.key /\ b.key <= Largest(f).key
  BY <1>3, EndKeys
<1>5. CASE l = 0
  <2>1. in0 = GetOverlappingInputs(0, Smallest(f).key, Largest(f).key)
    BY <1>2, <1>5
  <2>2. /\ in0 \subseteq Files(0)
        /\ Overlaps(f, Smallest(f).key, Largest(f).key) => f \in in0
        /\ \A h \in in0, g \in Files(0) \ in0 : NoCommonKey(g, h)
        /\ \A x, y \in UNION in0, k \in Nat :
             x.key <= k /\ k <= y.key =>
               (Smallest(f).key <= k /\ k <= Largest(f).key) \/ \E h \in in0 : Covers(h, k)
    BY <1>1, <1>4, <1>5, <2>1, Overlapping
  <2>3. f \in in0
    BY <1>4, <2>2 DEF Overlaps
  <2>4. \A k \in Nat : Smallest(f).key <= k /\ k <= Largest(f).key => Covers(f, k)
    BY <1>4 DEF Covers
  <2>5. NoHole(in0, in0)
    BY <2>2, <2>3, <2>4 DEF NoHole
  <2> QED  BY <1>5, <2>2, <2>3, <2>5 DEF Shut
<1>6. CASE l # 0
  <2>1. in0 = {f}
    BY <1>2, <1>6
  <2>2. NoHole(in0, in0)
    BY <2>1 DEF NoHole, Covers
  <2> QED  BY <1>6, <2>1, <2>2
<1> QED  BY <1>5, <1>6

\* CompactRange: the inputs it starts from are files of the level, shut at level 0.
LEMMA RangeInputs ==
  ASSUME TypeInv, NEW l \in 0..(NumLevels - 2), NEW begin \in Keys, NEW end \in Keys,
         NEW in0 \in CompactRange(l, begin, end)
  PROVE  in0 \in SUBSET Files(l) /\ in0 # {} /\ (l = 0 => Shut(in0))
<1>1. l \in Levels /\ begin \in Nat /\ end \in Nat
  BY LevelCount, LsmAssumption
<1> DEFINE R == GetOverlappingInputs(l, begin, end)
<1>2. R \subseteq Files(l) /\ (l = 0 => \A f \in R, g \in Files(0) \ R : NoCommonKey(g, f))
  BY <1>1, Overlapping
<1>3. in0 \subseteq R /\ in0 # {} /\ (l = 0 => in0 = R)
  BY DEF CompactRange
<1> HIDE DEF R
<1> QED  BY <1>2, <1>3 DEF Shut

-----------------------------------------------------------------------------
(* Moving entries down.                                                    *)

\* The internal keys of the entries that were written are in a total order.
LEMMA TotalOrder ==
  ASSUME TypeInv, NEW a \in history, NEW b \in history, NEW c \in history
  PROVE  /\ ~Before(a, a)
         /\ Before(a, b) => ~Before(b, a)
         /\ Before(a, b) /\ Before(b, c) => Before(a, c)
         /\ a # b => Before(a, b) \/ Before(b, a)
<1>1. /\ a.key \in Nat /\ a.seq \in Nat /\ b.key \in Nat /\ b.seq \in Nat
      /\ c.key \in Nat /\ c.seq \in Nat
  BY EntryTypes
<1>2. a.seq = b.seq => a = b
  BY DEF TypeInv
<1> QED  BY <1>1, <1>2, SMT DEF Before

\* The output files hold what the loop keeps, and no user key is in two of them when no file
\* is finished between two entries of a user key.
LEMMA OutputFiles ==
  ASSUME TypeInv, NEW kept \in SUBSET history, NEW cuts \in SUBSET kept,
         \A e \in cuts, d \in kept : Before(e, d) => d.key # e.key
  PROVE  /\ \A f \in Outputs(kept, cuts) : f # {} /\ f \subseteq kept
         /\ \A e \in kept : \E f \in Outputs(kept, cuts) : e \in f
         /\ \A f, g \in Outputs(kept, cuts) : f # g => Apart(f, g)
<1> DEFINE ends == cuts \cup (IF kept = {} THEN {} ELSE {Largest(kept)})
           File(c) == {e \in kept : ~Before(c, e) /\ \A d \in cuts : Before(d, c) => Before(d, e)}
<1>1. Outputs(kept, cuts) = {File(c) : c \in ends}
  BY DEF Outputs
<1>2. kept # {} => Largest(kept) \in kept /\ \A b \in kept : ~Before(Largest(kept), b)
  BY Ends
<1>3. ends \in SUBSET kept
  BY <1>2
<1>4. \A c \in ends : c \in cuts \/ (kept # {} /\ c = Largest(kept))
  OBVIOUS
<1>5. kept # {} => Largest(kept) \in ends
  OBVIOUS
<1>6. \A c \in ends, e \in kept :
        e \in File(c) <=> ~Before(c, e) /\ \A d \in cuts : Before(d, c) => Before(d, e)
  OBVIOUS
<1>7. \A c \in ends : File(c) \subseteq kept
  OBVIOUS
<1> HIDE DEF ends, File
<1>8. \A c \in ends : c \in File(c)
  BY <1>3, <1>6, TotalOrder
<1>9. ASSUME NEW e \in kept
      PROVE  \E c \in ends : e \in File(c)
  <2> DEFINE C == {c \in ends : ~Before(c, e)}
  <2>1. Largest(kept) \in C
    BY <1>2, <1>5
  <2>2. C \in SUBSET history /\ C # {}
    BY <1>3, <2>1
  <2>3. Smallest(C) \in C /\ \A b \in C : ~Before(b, Smallest(C))
    BY <2>2, Ends
  <2>4. \A d \in cuts : d \in ends
    BY DEF ends
  <2>5. \A d \in cuts : Before(d, Smallest(C)) => Before(d, e)
    BY <2>3, <2>4
  <2>6. Smallest(C) \in ends /\ ~Before(Smallest(C), e)
    BY <2>3
  <2> HIDE DEF C
  <2>7. e \in File(Smallest(C))
    BY <1>6, <2>5, <2>6
  <2> QED  BY <2>6, <2>7
<1>10. ASSUME NEW c \in ends, NEW d \in ends, Before(c, d)
       PROVE  Below(File(c), File(d))
  <2>1. c \in cuts
    BY <1>2, <1>3, <1>4, <1>10
  <2> SUFFICES ASSUME NEW a \in File(c), NEW b \in File(d)
               PROVE  a.key < b.key
    BY DEF Below
  <2>2. a \in kept /\ b \in kept /\ c \in kept
    BY <1>3, <1>7
  <2>3. ~Before(c, a) /\ Before(c, b)
    BY <1>6, <1>10, <2>1, <2>2
  <2>4. b.key # c.key
    BY <2>1, <2>2, <2>3
  <2>5. a.key \in Nat /\ b.key \in Nat /\ c.key \in Nat
    BY <2>2, EntryTypes
  <2> QED  BY <2>3, <2>4, <2>5, SMT DEF Before
<1>11. ASSUME NEW f \in Outputs(kept, cuts), NEW g \in Outputs(kept, cuts), f # g
       PROVE  Apart(f, g)
  <2>1. PICK c \in ends, d \in ends : f = File(c) /\ g = File(d)
    BY <1>1
  <2>2. Before(c, d) \/ Before(d, c)
    BY <1>3, <1>11, <2>1, TotalOrder
  <2> QED  BY <1>10, <2>1, <2>2 DEF Apart
<1>12. \A f \in Outputs(kept, cuts) : f # {} /\ f \subseteq kept
  BY <1>1, <1>7, <1>8
<1>13. \A e \in kept : \E f \in Outputs(kept, cuts) : e \in f
  BY <1>1, <1>9
<1> QED  BY <1>11, <1>12, <1>13

\* The inputs of a compaction are replaced, one level down, by files made of their entries.
Replaced(l, in0, in1, outs) ==
  /\ \A n \in DOMAIN level0' : /\ n \in DOMAIN level0 /\ level0'[n] = level0[n]
                               /\ l = 0 => level0[n] \notin in0
  /\ DOMAIN levels' = DOMAIN levels
  /\ \A j \in DOMAIN levels : \A f \in levels'[j] :
       \/ f \in levels[j] /\ (j = l => f \notin in0) /\ (j = l + 1 => f \notin in1)
       \/ j = l + 1 /\ f \in outs
  /\ \A f \in outs : f # {} /\ f \subseteq UNION (in0 \cup in1)
  /\ \A f, g \in outs : f # g => Apart(f, g)

\* Where the inputs are, and how their entries relate to the rest of the version.
LEMMA InputPlaces ==
  ASSUME TypeInv, NEW l, NEW in0, NEW in1, InputsOK(l, in0, in1)
  PROVE  /\ l \in Nat /\ l + 1 \in DOMAIN levels /\ in1 \subseteq levels[l + 1]
         /\ l # 0 => l \in DOMAIN levels /\ in0 \subseteq levels[l]
         /\ l = 0 => \A f \in in0 : \E m \in DOMAIN level0 : f = level0[m]
<1>1. l \in 0..(NumLevels - 2) /\ in0 \subseteq Files(l) /\ in1 \subseteq levels[l + 1]
  BY DEF InputsOK
<1>2. l \in Nat /\ l + 1 \in DOMAIN levels /\ (l # 0 => l \in DOMAIN levels)
  BY <1>1, LevelCount, SMT
<1> QED  BY <1>1, <1>2 DEF Files

\* An entry of an input is newer than what the rest holds of its key from the output level down, and
\* older than what the rest holds of its key above.
LEMMA InputOrder ==
  ASSUME TypeInv, SortedInv, OrderInv, NEW l, NEW in0, NEW in1, InputsOK(l, in0, in1),
         NEW e \in UNION (in0 \cup in1), NEW d \in history, d.key = e.key
  PROVE  /\ \A n \in DOMAIN level0 :
              d \in level0[n] /\ (l = 0 => level0[n] \notin in0) => d.seq > e.seq
         /\ \A j \in DOMAIN levels : \A f \in levels[j] :
              d \in f /\ j <= l /\ (j = l => f \notin in0) => d.seq > e.seq
         /\ \A f \in levels[l + 1] : d \in f => f \in in1
         /\ \A j \in DOMAIN levels : d \in Deep(j) /\ j > l + 1 => e.seq > d.seq
<1>1. /\ l \in Nat /\ l + 1 \in DOMAIN levels /\ in1 \subseteq levels[l + 1]
      /\ l # 0 => l \in DOMAIN levels /\ in0 \subseteq levels[l]
      /\ l = 0 => \A f \in in0 : \E m \in DOMAIN level0 : f = level0[m]
  BY InputPlaces
<1>2. PICK i \in in0 \cup in1 : e \in i
  OBVIOUS
<1>3. e \in Deep(l + 1) \/ (i \in in0 /\ e \in i)
  BY <1>1, <1>2 DEF Deep
<1>4. /\ i \in in0 /\ l # 0 => e \in Deep(l) /\ l \in DOMAIN levels
      /\ i \in in0 /\ l = 0 => \E m \in DOMAIN level0 : i = level0[m]
  BY <1>1, <1>2 DEF Deep
<1>5. DOMAIN level0 \subseteq Nat /\ \A j \in DOMAIN levels : j \in Nat /\ j # 0
  BY LevelCount DEF TypeInv
<1>6. e.key \in Nat /\ d.key \in Nat
  <2>1. e \in history
    BY <1>1, <1>2 DEF TypeInv
  <2> QED  BY <2>1, EntryTypes
<1>7. ASSUME NEW n \in DOMAIN level0, d \in level0[n], l = 0 => level0[n] \notin in0
      PROVE  d.seq > e.seq
  <2>1. CASE e \in Deep(l + 1)
    BY <1>1, <1>7, <2>1 DEF OrderInv, Newer
  <2>2. CASE i \in in0 /\ l # 0
    BY <1>4, <1>7, <2>2 DEF OrderInv, Newer
  <2>3. CASE i \in in0 /\ l = 0
    <3>1. PICK m \in DOMAIN level0 : i = level0[m]
      BY <1>4, <2>3
    <3>2. n # m
      BY <1>7, <2>3, <3>1
    <3>3. CASE m < n
      BY <1>2, <1>7, <3>1, <3>3 DEF OrderInv, Newer
    <3>4. CASE n < m
      <4>1. NoCommonKey(level0[n], level0[m])
        BY <1>7, <2>3, <3>1, <3>4 DEF InputsOK
      <4> QED  BY <1>2, <1>7, <3>1, <4>1 DEF NoCommonKey
    <3>5. n \in Nat /\ m \in Nat
      BY <1>5
    <3>6. m < n \/ n < m
      BY <3>2, <3>5, SMT
    <3> QED  BY <3>3, <3>4, <3>6
  <2> QED  BY <1>3, <2>1, <2>2, <2>3
<1>8. ASSUME NEW j \in DOMAIN levels, NEW f \in levels[j], d \in f, j <= l, j = l => f \notin in0
      PROVE  d.seq > e.seq
  <2>1. d \in Deep(j) /\ j \in Nat /\ j # 0
    BY <1>5, <1>8 DEF Deep
  <2>2. l # 0 /\ j < l + 1
    BY <1>1, <1>8, <2>1, SMT
  <2>3. CASE e \in Deep(l + 1)
    BY <1>1, <2>1, <2>2, <2>3 DEF OrderInv, Newer
  <2>4. CASE i \in in0 /\ j # l
    <3>1. j < l
      BY <1>1, <1>8, <2>1, <2>4, SMT
    <3> QED  BY <1>4, <2>1, <2>2, <2>4, <3>1 DEF OrderInv, Newer
  <2>5. CASE i \in in0 /\ j = l
    <3>1. i \in levels[j] /\ f # i
      BY <1>1, <1>8, <2>2, <2>5
    <3>2. Apart(f, i)
      BY <3>1 DEF SortedInv
    <3>3. d.key < e.key \/ e.key < d.key
      BY <1>2, <1>8, <3>2 DEF Apart, Below
    <3> QED  BY <1>6, <3>3, SMT
  <2> QED  BY <1>3, <2>3, <2>4, <2>5
<1>9. ASSUME NEW f \in levels[l + 1], d \in f, f \notin in1
      PROVE  FALSE
  <2>1. Apart(f, UNION (in0 \cup in1))
    BY <1>9 DEF InputsOK
  <2>2. d.key < e.key \/ e.key < d.key
    BY <1>9, <2>1 DEF Apart, Below
  <2> QED  BY <1>6, <2>2, SMT
<1>10. ASSUME NEW j \in DOMAIN levels, d \in Deep(j), j > l + 1
       PROVE  e.seq > d.seq
  <2>1. l < j /\ l + 1 < j
    BY <1>1, <1>5, <1>10, SMT
  <2>2. CASE e \in Deep(l + 1)
    BY <1>1, <1>10, <2>1, <2>2 DEF OrderInv, Newer
  <2>3. CASE i \in in0 /\ l # 0
    BY <1>4, <1>10, <2>1, <2>3 DEF OrderInv, Newer
  <2>4. CASE i \in in0 /\ l = 0
    BY <1>2, <1>4, <1>10, <2>4 DEF OrderInv, Newer
  <2> QED  BY <1>3, <2>2, <2>3, <2>4
<1> QED  BY <1>7, <1>8, <1>9, <1>10

\* Replacing inputs keeps the files of a level apart, and newer entries above older ones.
LEMMA ReplacedKeeps ==
  ASSUME TypeInv, SortedInv, OrderInv, NEW l, NEW in0, NEW in1, InputsOK(l, in0, in1),
         NEW outs, Replaced(l, in0, in1, outs), history' = history
  PROVE  SortedInv' /\ OrderInv' /\ Stored' \subseteq Stored
<1>1. /\ l \in Nat /\ l + 1 \in DOMAIN levels /\ in1 \subseteq levels[l + 1]
      /\ l # 0 => l \in DOMAIN levels /\ in0 \subseteq levels[l]
      /\ l = 0 => \A f \in in0 : \E m \in DOMAIN level0 : f = level0[m]
  BY InputPlaces
<1>2. DOMAIN level0 \subseteq Nat /\ \A j \in DOMAIN levels : j \in Nat /\ j # 0
  BY LevelCount DEF TypeInv
<1>3. \A n \in DOMAIN level0' : /\ n \in DOMAIN level0 /\ level0'[n] = level0[n]
                                /\ l = 0 => level0[n] \notin in0
  BY DEF Replaced
<1>4. DOMAIN levels' = DOMAIN levels
  BY DEF Replaced
<1>5. ASSUME NEW j \in DOMAIN levels, NEW f \in levels'[j]
      PROVE  \/ f \in levels[j] /\ (j = l => f \notin in0) /\ (j = l + 1 => f \notin in1)
             \/ j = l + 1 /\ f \in outs
  BY DEF Replaced
<1>6. \A f \in outs : f # {} /\ f \subseteq UNION (in0 \cup in1)
  BY DEF Replaced
<1>7. \A f, g \in outs : f # g => Apart(f, g)
  BY DEF Replaced
<1>8. ASSUME NEW j \in DOMAIN levels, NEW f \in levels[j], NEW g \in outs, j = l + 1, f \notin in1
      PROVE  Apart(f, g) /\ Apart(g, f)
  <2>1. Apart(f, UNION (in0 \cup in1))
    BY <1>8 DEF InputsOK
  <2>2. g \subseteq UNION (in0 \cup in1)
    BY <1>6
  <2>3. Below(f, g) \/ Below(g, f)
    BY <2>1, <2>2 DEF Apart, Below
  <2> QED  BY <2>3 DEF Apart
<1>9. SortedInv'
  <2> SUFFICES ASSUME NEW j \in DOMAIN levels, NEW f \in levels'[j], NEW g \in levels'[j], f # g
               PROVE  Apart(f, g)
    BY <1>4 DEF SortedInv, Apart, Below
  <2>1. CASE f \in levels[j] /\ g \in levels[j]
    BY <2>1 DEF SortedInv
  <2>2. CASE f \in outs /\ g \in outs
    BY <1>7, <2>2
  <2>3. CASE f \in levels[j] /\ g \in outs /\ j = l + 1 /\ f \notin in1
    BY <1>8, <2>3
  <2>4. CASE g \in levels[j] /\ f \in outs /\ j = l + 1 /\ g \notin in1
    BY <1>8, <2>4
  <2> QED  BY <1>5, <2>1, <2>2, <2>3, <2>4
<1>10. \A f \in outs : \A e \in f : e \in UNION (in0 \cup in1)
  BY <1>6
<1>11. \A e \in UNION (in0 \cup in1) : e \in history
  BY <1>1 DEF TypeInv
<1>12. ASSUME NEW n \in DOMAIN level0', NEW m \in DOMAIN level0', m < n
       PROVE  Newer(level0'[n], level0'[m])
  BY <1>3, <1>12 DEF OrderInv
<1>13. ASSUME NEW n \in DOMAIN level0', NEW j \in DOMAIN levels,
              NEW a \in level0'[n], NEW g \in levels'[j], NEW b \in g, a.key = b.key
       PROVE  a.seq > b.seq
  <2>1. n \in DOMAIN level0 /\ a \in level0[n] /\ (l = 0 => level0[n] \notin in0)
    BY <1>3
  <2>2. CASE g \in levels[j]
    <3>1. b \in Deep(j)
      BY <2>2 DEF Deep
    <3> QED  BY <1>13, <2>1, <3>1 DEF OrderInv, Newer
  <2>3. CASE g \in outs
    <3>1. b \in UNION (in0 \cup in1) /\ a \in history
      BY <1>10, <2>1, <2>3 DEF TypeInv
    <3> QED  BY <1>13, <2>1, <3>1, InputOrder
  <2> QED  BY <1>5, <2>2, <2>3
<1>14. ASSUME NEW i \in DOMAIN levels, NEW j \in DOMAIN levels, i < j,
              NEW f \in levels'[i], NEW a \in f, NEW g \in levels'[j], NEW b \in g, a.key = b.key
       PROVE  a.seq > b.seq
  <2>1. i \in Nat /\ j \in Nat
    BY <1>2
  <2>2. CASE f \in levels[i] /\ g \in levels[j]
    <3>1. a \in Deep(i) /\ b \in Deep(j)
      BY <2>2 DEF Deep
    <3> QED  BY <1>14, <3>1 DEF OrderInv, Newer
  <2>3. CASE f \in outs /\ i = l + 1
    <3>1. j > l + 1 /\ j # l + 1
      BY <1>1, <1>14, <2>1, <2>3, SMT
    <3>2. g \in levels[j]
      BY <1>5, <3>1
    <3>3. a \in UNION (in0 \cup in1) /\ b \in Deep(j) /\ b \in history
      BY <1>10, <2>3, <3>2 DEF Deep, TypeInv
    <3> QED  BY <1>14, <3>1, <3>3, InputOrder
  <2>4. CASE f \in levels[i] /\ (i = l => f \notin in0) /\ g \in outs /\ j = l + 1
    <3>1. i <= l
      BY <1>1, <1>14, <2>1, <2>4, SMT
    <3>2. b \in UNION (in0 \cup in1) /\ a \in history
      BY <1>10, <2>4 DEF TypeInv
    <3> QED  BY <1>14, <2>4, <3>1, <3>2, InputOrder
  <2>5. \/ f \in levels[i] /\ (i = l => f \notin in0)
        \/ f \in outs /\ i = l + 1
    BY <1>5
  <2>6. g \in levels[j] \/ (g \in outs /\ j = l + 1)
    BY <1>5
  <2> QED  BY <2>2, <2>3, <2>4, <2>5, <2>6
<1>15. OrderInv'
  <2>1. \A n \in DOMAIN level0', j \in DOMAIN levels : Newer(level0'[n], UNION levels'[j])
    BY <1>13 DEF Newer
  <2>2. \A i, j \in DOMAIN levels : i < j => Newer(UNION levels'[i], UNION levels'[j])
    BY <1>14 DEF Newer
  <2> QED  BY <1>4, <1>12, <2>1, <2>2 DEF OrderInv, Newer, Deep
<1>16. Stored' \subseteq Stored
  <2> SUFFICES ASSUME NEW e \in Stored' PROVE e \in Stored
    OBVIOUS
  <2>1. e \in history
    BY DEF Stored
  <2>2. ASSUME NEW n \in DOMAIN level0', e \in level0'[n]
        PROVE  e \in Stored
    BY <1>3, <2>1, <2>2 DEF Stored
  <2>3. ASSUME NEW j \in DOMAIN levels, NEW f \in levels'[j], e \in f
        PROVE  e \in Stored
    <3>1. CASE f \in levels[j]
      BY <2>1, <2>3, <3>1 DEF Stored, Deep
    <3>2. CASE f \in outs
      <4>1. PICK i \in in0 \cup in1 : e \in i
        BY <1>10, <2>3, <3>2
      <4>2. CASE i \in in1 \/ (i \in in0 /\ l # 0)
        BY <1>1, <2>1, <4>1, <4>2 DEF Stored, Deep
      <4>3. CASE i \in in0 /\ l = 0
        BY <1>1, <2>1, <4>1, <4>3 DEF Stored
      <4> QED  BY <4>1, <4>2, <4>3
    <3> QED  BY <1>5, <3>1, <3>2
  <2>4. (\E n \in DOMAIN level0' : e \in level0'[n])
        \/ (\E j \in DOMAIN levels : \E f \in levels'[j] : e \in f)
    BY <1>4 DEF Stored, Deep
  <2> QED  BY <2>2, <2>3, <2>4
<1> QED  BY <1>9, <1>15, <1>16

-----------------------------------------------------------------------------
(* The steps.                                                              *)

\* Everything stored was written.
LEMMA AllWritten ==
  ASSUME TypeInv
  PROVE  All \subseteq history /\ Stored \subseteq history
BY DEF All, Stored, TypeInv

\* What a step that leaves the version alone leaves alone.
LEMMA SameVersion ==
  ASSUME SortedInv, OrderInv, UNCHANGED <<level0, levels, mode>>
  PROVE  /\ SortedInv' /\ OrderInv' /\ NumLevels' = NumLevels
         /\ \A l, in0, in1 : InputsOK(l, in0, in1) => InputsOK(l, in0, in1)'
<1>1. SortedInv'
  BY DEF SortedInv, Apart, Below
<1>2. OrderInv'
  BY DEF OrderInv, Newer, Deep
<1>3. NumLevels' = NumLevels
  BY DEF NumLevels
<1>4. ASSUME NEW l, NEW in0, NEW in1, InputsOK(l, in0, in1)
      PROVE  InputsOK(l, in0, in1)'
  <2>1. Files(l)' = Files(l)
    BY DEF Files
  <2> QED  BY <1>3, <1>4, <2>1 DEF InputsOK
<1> QED  BY <1>1, <1>2, <1>3, <1>4

\* The initial states: nothing is stored and nothing runs.
LEMMA InitInv ==
  ASSUME Init
  PROVE  LsmInv
<1>1. mode \in Modes /\ mem = {} /\ imm = {} /\ lastSequence = 0 /\ snapshots = {} /\ history = {}
      /\ compaction = NoCompaction
  BY DEF Init
<1>2. DOMAIN level0 = {}
  BY SMT DEF Init
<1>3. DOMAIN levels = 1..(NumLevels - 1) /\ \A l \in DOMAIN levels : levels[l] = {}
  BY DEF Init
<1>4. TypeInv
  <2>1. \E top \in Nat : \A e \in history : e.key <= top
    BY <1>1
  <2>2. \E top \in Nat : \A n \in DOMAIN level0 : n <= top
    BY <1>2
  <2> QED  BY <1>1, <1>2, <1>3, <2>1, <2>2 DEF TypeInv
<1>5. Stored = {}
  BY <1>1 DEF Stored
<1>6. SortedInv
  BY <1>3 DEF SortedInv
<1>7. MemInv
  BY <1>1, <1>5 DEF MemInv
<1>8. OrderInv
  BY <1>2, <1>3 DEF OrderInv, Newer, Deep
<1>9. WorkInv /\ ReadInv
  BY <1>1 DEF WorkInv, ReadInv
<1> QED  BY <1>4, <1>6, <1>7, <1>8, <1>9 DEF LsmInv

\* A write puts an entry that is newer than all others into the memtable.
LEMMA WriteStep ==
  ASSUME LsmInv, NEW k \in Keys, NEW del \in BOOLEAN, Write(k, del)
  PROVE  LsmInv'
<1> DEFINE new == [key |-> k, seq |-> lastSequence + 1, del |-> del]
<1>1. /\ TypeInv /\ SortedInv /\ MemInv /\ OrderInv /\ WorkInv /\ ReadInv
  BY DEF LsmInv
<1>2. /\ mem' = mem \cup {new} /\ history' = history \cup {new}
      /\ lastSequence' = lastSequence + 1
      /\ UNCHANGED <<imm, level0, levels, snapshots, compaction, mode>>
  BY DEF Write
<1>3. k \in Nat /\ lastSequence \in Nat
  BY <1>1, LsmAssumption DEF TypeInv
<1>4. new \in Entry /\ new.key = k /\ new.seq = lastSequence + 1
  <2>1. lastSequence + 1 \in Nat \ {0}
    BY <1>3, SMT
  <2> QED  BY <2>1 DEF Entry
<1> HIDE DEF new
<1>5. \A e \in history : e.seq \in Nat /\ e.seq <= lastSequence /\ e.seq < new.seq
  <2>1. \A e \in history : e.seq \in Nat /\ e.seq <= lastSequence
    BY <1>1, EntryTypes DEF TypeInv
  <2> QED  BY <1>3, <1>4, <2>1, SMT
<1>6. TypeInv'
  <2>1. \A e \in history' : e.seq <= lastSequence'
    BY <1>2, <1>3, <1>4, <1>5, SMT
  <2>2. \A a, b \in history' : a.seq = b.seq => a = b
    <3>1. \A a \in history : a.seq # new.seq
      BY <1>3, <1>4, <1>5, SMT
    <3> QED  BY <1>1, <1>2, <3>1 DEF TypeInv
  <2>3. \E top \in Nat : \A e \in history' : e.key <= top
    <3>1. PICK top \in Nat : \A e \in history : e.key <= top
      BY <1>1 DEF TypeInv
    <3>2. \A e \in history : e.key \in Nat
      BY <1>1, EntryTypes
    <3>3. top + k \in Nat /\ new.key <= top + k /\ \A e \in history : e.key <= top + k
      BY <1>3, <1>4, <3>1, <3>2, SMT
    <3> QED  BY <1>2, <3>3
  <2>4. snapshots' \subseteq 0..lastSequence'
    <3>1. snapshots \subseteq 0..lastSequence
      BY <1>1 DEF TypeInv
    <3> QED  BY <1>2, <1>3, <3>1, SMT
  <2>5. lastSequence' \in Nat
    BY <1>2, <1>3, SMT
  <2>6. history' \subseteq Entry /\ mem' \subseteq history' /\ imm' \subseteq history'
    BY <1>1, <1>2, <1>4 DEF TypeInv
  <2>7. /\ DOMAIN level0' \subseteq Nat
        /\ \E top \in Nat : \A n \in DOMAIN level0' : n <= top
        /\ DOMAIN levels' = 1..(NumLevels' - 1)
    BY <1>1, <1>2 DEF TypeInv, NumLevels
  <2>8. /\ \A n \in DOMAIN level0' : level0'[n] \subseteq history' /\ level0'[n] # {}
        /\ \A l \in DOMAIN levels' : \A f \in levels'[l] : f \subseteq history' /\ f # {}
    BY <1>1, <1>2 DEF TypeInv
  <2>9. mode' \in Modes /\ (mode'.snapshots = 0 => snapshots' = {})
    BY <1>1, <1>2 DEF TypeInv
  <2> QED  BY <2>1, <2>2, <2>3, <2>4, <2>5, <2>6, <2>7, <2>8, <2>9 DEF TypeInv
<1>7. /\ SortedInv' /\ OrderInv' /\ NumLevels' = NumLevels
      /\ \A l, in0, in1 : InputsOK(l, in0, in1) => InputsOK(l, in0, in1)'
  BY <1>1, <1>2, SameVersion
<1>8. Stored' = Stored
  BY <1>1, <1>2 DEF Stored, Deep, TypeInv
<1>9. All' = All \cup {new}
  BY <1>2, <1>8 DEF All
<1>10. MemInv'
  <2>1. \A b \in imm \cup Stored : new.seq > b.seq
    <3>1. \A b \in imm \cup Stored : b \in history
      BY <1>1, AllWritten DEF All
    <3> QED  BY <1>3, <1>4, <1>5, <3>1, SMT
  <2> QED  BY <1>1, <1>2, <1>8, <2>1 DEF MemInv
<1>11. WorkInv'
  <2> SUFFICES ASSUME compaction # NoCompaction
               PROVE  WorkInv'
    BY <1>2 DEF WorkInv
  <2>1. compaction.smallestSnapshot \in Nat /\ compaction.smallestSnapshot <= lastSequence
    BY <1>1 DEF WorkInv
  <2>2. compaction.smallestSnapshot <= lastSequence + 1
    BY <1>3, <2>1, SMT
  <2>3. \A s \in snapshots' \cup {lastSequence'} : compaction.smallestSnapshot <= s
    BY <1>1, <1>2, <2>2 DEF WorkInv
  <2> QED  BY <1>1, <1>2, <1>7, <2>3 DEF WorkInv
<1>12. ReadInv'
  <2> SUFFICES ASSUME NEW s \in snapshots \cup {lastSequence + 1}, NEW e \in history',
                      IsNewest(e, s)'
               PROVE  e \in All' \/ (e.del /\ \A d \in All' : d.key = e.key => d.seq > s)
    BY <1>2 DEF ReadInv
  <2>1. e.seq <= s /\ \A d \in history' : d.key = e.key /\ d.seq <= s => d.seq <= e.seq
    BY DEF IsNewest
  <2>2. CASE e = new
    BY <1>9, <2>2
  <2>3. CASE e \in history /\ s \in snapshots
    <3>1. IsNewest(e, s)
      BY <1>2, <2>1 DEF IsNewest
    <3>2. e \in All \/ (e.del /\ \A d \in All : d.key = e.key => d.seq > s)
      BY <1>1, <2>3, <3>1 DEF ReadInv
    <3>3. new.seq > s
      <4>1. s \in Nat /\ s <= lastSequence
        BY <1>1, <1>3, <2>3, SMT DEF TypeInv
      <4> QED  BY <1>3, <1>4, <4>1, SMT
    <3> QED  BY <1>9, <3>2, <3>3
  <2>4. CASE e \in history /\ s = lastSequence + 1
    <3>1. \A d \in history : d.seq <= s
      BY <1>3, <1>5, <2>4, SMT
    <3>2. IsNewest(e, lastSequence)
      BY <1>2, <1>5, <2>1, <2>4, <3>1 DEF IsNewest
    <3>3. e.key # new.key
      <4>1. new.seq <= s /\ ~(new.seq <= e.seq)
        BY <1>3, <1>4, <1>5, <2>4, SMTT(20)
      <4> QED  BY <1>2, <2>1, <4>1
    <3>4. e \in All \/ (e.del /\ \A d \in All : d.key = e.key => d.seq > lastSequence)
      BY <1>1, <2>4, <3>2 DEF ReadInv
    <3>5. \A d \in All : ~(d.seq > lastSequence)
      <4>1. \A d \in All : d.seq \in Nat /\ d.seq <= lastSequence
        BY <1>1, <1>5, AllWritten
      <4> QED  BY <1>3, <4>1, SMT
    <3> QED  BY <1>9, <3>3, <3>4, <3>5
  <2> QED  BY <1>2, <2>2, <2>3, <2>4
<1> QED  BY <1>6, <1>7, <1>10, <1>11, <1>12 DEF LsmInv

\* A step that leaves the version and what was written alone keeps the types.
LEMMA SameTypes ==
  ASSUME TypeInv, UNCHANGED <<level0, levels, lastSequence, history, mode>>,
         mem' \subseteq history, imm' \subseteq history, snapshots' \subseteq 0..lastSequence,
         mode.snapshots = 0 => snapshots' = {}
  PROVE  TypeInv' /\ Stored' = Stored
BY DEF TypeInv, NumLevels, Stored, Deep

\* MakeRoomForWrite turns the memtable into the immutable one.
LEMMA SwitchStep ==
  ASSUME LsmInv, SwitchMemTable
  PROVE  LsmInv'
<1>1. /\ TypeInv /\ SortedInv /\ MemInv /\ OrderInv /\ WorkInv /\ ReadInv
  BY DEF LsmInv
<1>2. /\ imm = {} /\ imm' = mem /\ mem' = {}
      /\ UNCHANGED <<level0, levels, lastSequence, snapshots, compaction, history, mode>>
  BY DEF SwitchMemTable
<1>3. TypeInv' /\ Stored' = Stored
  <2>1. /\ mem' \subseteq history /\ imm' \subseteq history /\ snapshots' \subseteq 0..lastSequence
        /\ mode.snapshots = 0 => snapshots' = {}
    BY <1>1, <1>2 DEF TypeInv
  <2> QED  BY <1>1, <1>2, <2>1, SameTypes
<1>4. /\ SortedInv' /\ OrderInv' /\ NumLevels' = NumLevels
      /\ \A l, in0, in1 : InputsOK(l, in0, in1) => InputsOK(l, in0, in1)'
  BY <1>1, <1>2, SameVersion
<1>5. All' = All
  BY <1>2, <1>3 DEF All
<1>6. MemInv'
  BY <1>1, <1>2, <1>3 DEF MemInv
<1>7. WorkInv'
  BY <1>1, <1>2, <1>4 DEF WorkInv
<1>8. ReadInv'
  BY <1>1, <1>2, <1>5 DEF ReadInv, IsNewest
<1> QED  BY <1>3, <1>4, <1>6, <1>7, <1>8 DEF LsmInv

\* Snapshots come with the latest sequence number, and go.
LEMMA SnapshotStep ==
  ASSUME LsmInv, GetSnapshot \/ \E s \in snapshots : ReleaseSnapshot(s)
  PROVE  LsmInv'
<1>1. /\ TypeInv /\ SortedInv /\ MemInv /\ OrderInv /\ WorkInv /\ ReadInv
  BY DEF LsmInv
<1>2. /\ UNCHANGED <<mem, imm, level0, levels, lastSequence, compaction, history, mode>>
      /\ snapshots' \subseteq snapshots \cup {lastSequence}
  BY DEF GetSnapshot, ReleaseSnapshot
<1>3. mode.snapshots = 0 => snapshots' = {}
  <2> HAVE mode.snapshots = 0
  <2>1. snapshots = {}
    BY <1>1 DEF TypeInv
  <2>2. ~GetSnapshot
    <3>1. Cardinality(snapshots) = 0
      BY <2>1, FS_EmptySet
    <3>2. ~(Cardinality(snapshots) < mode.snapshots)
      BY <3>1, SMT
    <3> QED  BY <3>2 DEF GetSnapshot
  <2> QED  BY <2>1, <2>2
<1>4. TypeInv' /\ Stored' = Stored
  <2>1. mem' \subseteq history /\ imm' \subseteq history
    BY <1>1, <1>2 DEF TypeInv
  <2>2. snapshots' \subseteq 0..lastSequence
    <3>1. snapshots \subseteq 0..lastSequence /\ lastSequence \in Nat
      BY <1>1 DEF TypeInv
    <3>2. lastSequence \in 0..lastSequence
      BY <3>1, SMT
    <3> QED  BY <1>2, <3>1, <3>2
  <2> QED  BY <1>1, <1>2, <1>3, <2>1, <2>2, SameTypes
<1>5. /\ SortedInv' /\ OrderInv' /\ NumLevels' = NumLevels
      /\ \A l, in0, in1 : InputsOK(l, in0, in1) => InputsOK(l, in0, in1)'
  BY <1>1, <1>2, SameVersion
<1>6. All' = All
  BY <1>2, <1>4 DEF All
<1>7. MemInv'
  BY <1>1, <1>2, <1>4 DEF MemInv
<1>8. \A s \in snapshots' \cup {lastSequence'} : s \in snapshots \cup {lastSequence}
  BY <1>2
<1>9. WorkInv'
  BY <1>1, <1>2, <1>5, <1>8 DEF WorkInv
<1>10. ReadInv'
  BY <1>1, <1>2, <1>6, <1>8 DEF ReadInv, IsNewest
<1> QED  BY <1>4, <1>5, <1>7, <1>9, <1>10 DEF LsmInv

\* DoCompactionWork up to the release of the mutex.
LEMMA WorkStarts ==
  ASSUME LsmInv, Tame, NEW l, NEW inputs, InputsOK(l, inputs[1], inputs[2]), StartWork(l, inputs)
  PROVE  LsmInv'
<1>1. /\ TypeInv /\ SortedInv /\ MemInv /\ OrderInv /\ WorkInv /\ ReadInv
  BY DEF LsmInv
<1> DEFINE first == IF snapshots = {} THEN lastSequence ELSE Min(snapshots)
<1>2. /\ compaction' = [level |-> l, in0 |-> inputs[1], in1 |-> inputs[2],
                        deeper |-> Grandparents(l), smallestSnapshot |-> first]
      /\ UNCHANGED <<mem, imm, level0, levels, lastSequence, snapshots, history, mode>>
  BY DEF StartWork
<1>3. /\ compaction'.level = l /\ compaction'.in0 = inputs[1] /\ compaction'.in1 = inputs[2]
      /\ compaction'.deeper = Grandparents(l) /\ compaction'.smallestSnapshot = first
  BY <1>2
<1>4. first \in Nat /\ \A s \in snapshots \cup {lastSequence} : first <= s
  <2>1. lastSequence \in Nat /\ snapshots \subseteq 0..lastSequence
    BY <1>1 DEF TypeInv
  <2>2. snapshots \in SUBSET Nat /\ \A s \in snapshots : s <= lastSequence
    BY <2>1, SMT
  <2>3. CASE snapshots = {}
    BY <2>1, <2>3, SMT
  <2>4. CASE snapshots # {}
    <3>1. Min(snapshots) \in snapshots /\ \A s \in snapshots : Min(snapshots) <= s
      BY <2>2, <2>4, MinOfNats
    <3> QED  BY <2>2, <2>4, <3>1
  <2> QED  BY <2>3, <2>4
<1>5. TypeInv' /\ Stored' = Stored
  <2>1. /\ mem' \subseteq history /\ imm' \subseteq history /\ snapshots' \subseteq 0..lastSequence
        /\ mode.snapshots = 0 => snapshots' = {}
    BY <1>1, <1>2 DEF TypeInv
  <2> QED  BY <1>1, <1>2, <2>1, SameTypes
<1>6. /\ SortedInv' /\ OrderInv' /\ NumLevels' = NumLevels
      /\ InputsOK(l, inputs[1], inputs[2])'
  BY <1>1, <1>2, SameVersion
<1>7. All' = All
  BY <1>2, <1>5 DEF All
<1>8. MemInv'
  BY <1>1, <1>2, <1>5 DEF MemInv
<1>9. ReadInv'
  BY <1>1, <1>2, <1>7 DEF ReadInv, IsNewest
<1>10. ASSUME NEW j \in DOMAIN levels, j >= l + 2, NEW f \in levels[j]
       PROVE  f \in Grandparents(l)
  <2>1. l \in Nat
    BY <1>1, InputPlaces
  <2>2. j \in 1..(NumLevels - 1) /\ NumLevels \in Nat
    BY <1>1, LevelCount DEF TypeInv
  <2>3. j \in (l + 2)..(NumLevels - 1)
    BY <1>10, <2>1, <2>2, SMT
  <2> QED  BY <1>10, <2>3 DEF Grandparents
<1>11. ASSUME mode.split, NEW e \in UNION (inputs[1] \cup inputs[2])
       PROVE  e.seq <= first
  <2>1. snapshots = {}
    BY <1>1, <1>11 DEF TypeInv, Tame
  <2>2. PICK f \in inputs[1] \cup inputs[2] : e \in f
    OBVIOUS
  <2>3. e \in history
    BY <1>1, <2>2, InputPlaces DEF TypeInv
  <2> QED  BY <1>1, <2>1, <2>3 DEF TypeInv
<1> HIDE DEF first
<1>12. WorkInv'
  BY <1>2, <1>3, <1>4, <1>6, <1>10, <1>11 DEF WorkInv
<1> QED  BY <1>5, <1>6, <1>8, <1>9, <1>12 DEF LsmInv

\* PickCompaction and CompactRange choose inputs the invariant allows.
LEMMA StartStep ==
  ASSUME LsmInv, Tame, NEW l \in 0..(NumLevels - 2), StartCompaction(l) \/ StartManualCompaction(l)
  PROVE  LsmInv'
<1>1. TypeInv /\ SortedInv
  BY DEF LsmInv
<1>2. CASE StartCompaction(l)
  <2>1. PICK in0 \in PickCompaction(l) :
          \E inputs \in SetupOtherInputs(l, in0) : StartWork(l, inputs)
    BY <1>2 DEF StartCompaction
  <2>2. PICK inputs \in SetupOtherInputs(l, in0) : StartWork(l, inputs)
    BY <2>1
  <2>3. in0 \in SUBSET Files(l) /\ in0 # {} /\ NoHole(in0, in0) /\ (l = 0 => Shut(in0))
    BY <1>1, PickInputs
  <2>4. InputsOK(l, inputs[1], inputs[2])
    BY <1>1, <2>3, SetupInputs
  <2> QED  BY <2>2, <2>4, WorkStarts
<1>3. CASE StartManualCompaction(l)
  <2>1. mode.manual /\ \E begin, end \in mode.keys : \E in0 \in CompactRange(l, begin, end) :
                         \E inputs \in SetupOtherInputs(l, in0) : StartWork(l, inputs)
    BY <1>3 DEF StartManualCompaction
  <2>2. mode \in Modes /\ mode.keys \subseteq Keys
    BY <1>1, LsmAssumption DEF TypeInv, Mode
  <2>3. ~mode.nested
    BY <2>1, <2>2 DEF Tame
  <2>4. PICK begin \in Keys, end \in Keys : \E in0 \in CompactRange(l, begin, end) :
                         \E inputs \in SetupOtherInputs(l, in0) : StartWork(l, inputs)
    BY <2>1, <2>2
  <2>5. PICK in0 \in CompactRange(l, begin, end) :
          \E inputs \in SetupOtherInputs(l, in0) : StartWork(l, inputs)
    BY <2>4
  <2>6. PICK inputs \in SetupOtherInputs(l, in0) : StartWork(l, inputs)
    BY <2>5
  <2>7. in0 \in SUBSET Files(l) /\ in0 # {} /\ (l = 0 => Shut(in0))
    BY <1>1, RangeInputs
  <2>8. InputsOK(l, inputs[1], inputs[2])
    BY <1>1, <2>3, <2>7, SetupInputs
  <2> QED  BY <2>6, <2>8, WorkStarts
<1> QED  BY <1>2, <1>3

\* The number of a new file is above the numbers in use.
LEMMA NewNumber ==
  ASSUME TypeInv
  PROVE  NewFileNumber \in Nat /\ \A n \in DOMAIN level0 : n \in Nat /\ n < NewFileNumber
<1> DEFINE N == {0} \cup DOMAIN level0
<1>1. PICK top \in Nat : \A n \in DOMAIN level0 : n <= top
  BY DEF TypeInv
<1>2. DOMAIN level0 \subseteq Nat
  BY DEF TypeInv
<1>3. N \in SUBSET Nat /\ N # {} /\ \A n \in N : n <= top
  BY <1>1, <1>2, SMT
<1>4. Max(N) \in N /\ \A n \in N : n <= Max(N)
  BY <1>3, MaxOfNats
<1>5. NewFileNumber = Max(N) + 1
  BY DEF NewFileNumber
<1>6. Max(N) \in Nat /\ \A n \in DOMAIN level0 : n <= Max(N)
  BY <1>3, <1>4
<1> HIDE DEF N
<1> QED  BY <1>2, <1>5, <1>6, SMT

\* PickLevelForMemTableOutput: a table that goes below level 0 is apart from every file on the way.
LEMMA FlushClear ==
  ASSUME TypeInv, imm # {}, NEW l \in MemTableOutputLevels(imm)
  PROVE  /\ l \in Levels
         /\ Smallest(imm).key \in Nat /\ Largest(imm).key \in Nat
         /\ Smallest(imm).key <= Largest(imm).key
         /\ \A a \in imm : a.key \in Nat /\ Smallest(imm).key <= a.key /\ a.key <= Largest(imm).key
         /\ l # 0 => \A j \in 0..l : \A f \in Files(j) :
              \/ \A a \in f : a.key \in Nat /\ a.key > Largest(imm).key
              \/ \A a \in f : a.key \in Nat /\ a.key < Smallest(imm).key
<1>1. imm \in SUBSET history
  BY DEF TypeInv
<1>2. /\ Smallest(imm) \in imm
      /\ Smallest(imm).key \in Nat /\ Largest(imm).key \in Nat
      /\ \A b \in imm : Smallest(imm).key <= b.key /\ b.key <= Largest(imm).key
  BY <1>1, EndKeys
<1>3. \A a \in imm : a.key \in Nat
  BY <1>1, EntryTypes
<1>4. l \in 0..MaxMemLevel /\ (l > 0 => \A j \in 0..l :
        ~(j < NumLevels /\ OverlapInLevel(j, Smallest(imm).key, Largest(imm).key)))
  BY DEF MemTableOutputLevels
<1>5. NumLevels \in Nat /\ MaxMemLevel \in 0..(NumLevels - 1)
  BY LevelCount
<1>6. l \in Levels /\ (l # 0 => l > 0) /\ \A j \in 0..l : j < NumLevels /\ j \in Levels
  BY <1>4, <1>5, SMT DEF Levels
<1>7. ASSUME l # 0, NEW j \in 0..l, NEW f \in Files(j)
      PROVE  \/ \A a \in f : a.key \in Nat /\ a.key > Largest(imm).key
             \/ \A a \in f : a.key \in Nat /\ a.key < Smallest(imm).key
  <2>1. ~Overlaps(f, Smallest(imm).key, Largest(imm).key)
    BY <1>4, <1>6, <1>7 DEF OverlapInLevel
  <2>2. f \in SUBSET history /\ f # {}
    BY <1>6, FileTypes
  <2>3. \A a \in f : a.key \in Nat
    BY <2>2, EntryTypes
  <2>4. (\A a \in f : ~(a.key <= Largest(imm).key)) \/ (\A a \in f : ~(Smallest(imm).key <= a.key))
    BY <1>2, <2>1, <2>2, OverlapsMeans
  <2> QED  BY <1>2, <2>3, <2>4, SMT
<1> QED  BY <1>2, <1>3, <1>6, <1>7

\* CompactMemTable: where the new table goes, and what the levels hold afterwards.
LEMMA Flushed ==
  ASSUME TypeInv, CompactMemTable
  PROVE  \E l \in MemTableOutputLevels(imm), n \in Nat :
           /\ \A m \in DOMAIN level0 : m < n
           /\ \A m \in DOMAIN level0' : \/ m \in DOMAIN level0 /\ level0'[m] = level0[m]
                                        \/ m = n /\ level0'[m] = imm /\ l = 0
           /\ \A m \in DOMAIN level0 : m \in DOMAIN level0' /\ level0'[m] = level0[m]
           /\ l = 0 => n \in DOMAIN level0' /\ level0'[n] = imm
           /\ DOMAIN levels' = DOMAIN levels
           /\ \A j \in DOMAIN levels :
                \A f : f \in levels'[j] <=> f \in levels[j] \/ (j = l /\ f = imm)
<1>1. PICK l \in MemTableOutputLevels(imm) :
        IF l = 0
        THEN /\ level0' = [n \in DOMAIN level0 \cup {NewFileNumber} |->
                             IF n = NewFileNumber THEN imm ELSE level0[n]]
             /\ UNCHANGED levels
        ELSE levels' = [levels EXCEPT ![l] = @ \cup {imm}] /\ UNCHANGED level0
  BY DEF CompactMemTable
<1> DEFINE n == NewFileNumber
<1>2. n \in Nat /\ \A m \in DOMAIN level0 : m < n /\ m # n
  <2>1. NewFileNumber \in Nat /\ \A m \in DOMAIN level0 : m \in Nat /\ m < NewFileNumber
    BY NewNumber
  <2> QED  BY <2>1, SMT
<1> HIDE DEF n
<1>3. CASE l = 0
  <2>1. /\ level0' = [m \in DOMAIN level0 \cup {n} |-> IF m = n THEN imm ELSE level0[m]]
        /\ levels' = levels
    BY <1>1, <1>3 DEF n
  <2>2. DOMAIN level0' = DOMAIN level0 \cup {n}
        /\ \A m \in DOMAIN level0' : level0'[m] = IF m = n THEN imm ELSE level0[m]
    BY <2>1
  <2>3. \A j \in DOMAIN levels : j # 0
    BY LevelCount
  <2> QED  BY <1>2, <1>3, <2>1, <2>2, <2>3
<1>4. CASE l # 0
  <2>1. levels' = [levels EXCEPT ![l] = @ \cup {imm}] /\ level0' = level0
    BY <1>1, <1>4
  <2>2. DOMAIN levels' = DOMAIN levels /\ \A j \in DOMAIN levels :
          levels'[j] = IF j = l THEN levels[j] \cup {imm} ELSE levels[j]
    BY <2>1
  <2> QED  BY <1>2, <1>4, <2>1, <2>2
<1> QED  BY <1>3, <1>4

\* CompactMemTable, also inside a compaction, keeps the order and its inputs apart from the rest.
LEMMA FlushStep ==
  ASSUME LsmInv, CompactMemTable
  PROVE  LsmInv'
<1>1. /\ TypeInv /\ SortedInv /\ MemInv /\ OrderInv /\ WorkInv /\ ReadInv
  BY DEF LsmInv
<1>2. /\ imm # {} /\ imm' = {} /\ (compaction = NoCompaction \/ mode.nested)
      /\ UNCHANGED <<mem, lastSequence, snapshots, compaction, history, mode>>
  BY DEF CompactMemTable
<1>3. PICK l \in MemTableOutputLevels(imm), n \in Nat :
        /\ \A m \in DOMAIN level0 : m < n
        /\ \A m \in DOMAIN level0' : \/ m \in DOMAIN level0 /\ level0'[m] = level0[m]
                                     \/ m = n /\ level0'[m] = imm /\ l = 0
        /\ \A m \in DOMAIN level0 : m \in DOMAIN level0' /\ level0'[m] = level0[m]
        /\ l = 0 => n \in DOMAIN level0' /\ level0'[n] = imm
        /\ DOMAIN levels' = DOMAIN levels
        /\ \A j \in DOMAIN levels :
             \A f : f \in levels'[j] <=> f \in levels[j] \/ (j = l /\ f = imm)
  BY <1>1, Flushed
<1> DEFINE lo == Smallest(imm).key
           hi == Largest(imm).key
<1>4. /\ l \in Levels /\ lo \in Nat /\ hi \in Nat /\ lo <= hi
      /\ \A a \in imm : a.key \in Nat /\ lo <= a.key /\ a.key <= hi
      /\ l # 0 => \A j \in 0..l : \A f \in Files(j) :
           \/ \A a \in f : a.key \in Nat /\ a.key > hi
           \/ \A a \in f : a.key \in Nat /\ a.key < lo
  BY <1>1, <1>2, FlushClear
<1> HIDE DEF lo, hi
<1>5. /\ \A j \in DOMAIN levels : j \in Nat /\ j # 0 /\ j \in Levels /\ Files(j) = levels[j]
      /\ l \in Nat /\ (l = 0 \/ l \in DOMAIN levels)
      /\ \A m \in DOMAIN level0 : m \in Nat /\ level0[m] \in Files(0)
  BY <1>1, <1>4, LevelCount DEF Files, TypeInv
<1>6. TypeInv'
  <2>1. DOMAIN level0' \subseteq Nat /\ \E top \in Nat : \A m \in DOMAIN level0' : m <= top
    <3>1. \A m \in DOMAIN level0' : m \in Nat /\ m <= n
      BY <1>3, <1>5, SMT
    <3> QED  BY <3>1
  <2>2. NumLevels' = NumLevels
    BY <1>2 DEF NumLevels
  <2>3. /\ \A m \in DOMAIN level0' : level0'[m] \subseteq history /\ level0'[m] # {}
        /\ \A j \in DOMAIN levels' : \A f \in levels'[j] : f \subseteq history /\ f # {}
    BY <1>1, <1>2, <1>3 DEF TypeInv
  <2>4. imm' \subseteq history' /\ DOMAIN levels' = 1..(NumLevels' - 1)
    BY <1>1, <1>2, <1>3, <2>2 DEF TypeInv
  <2> QED  BY <1>1, <1>2, <2>1, <2>3, <2>4 DEF TypeInv
<1>7. \A e : e \in Stored' <=> e \in Stored \/ e \in imm
  <2>1. ASSUME NEW e \in Stored' PROVE e \in Stored \/ e \in imm
    <3>1. e \in history
      BY <1>2 DEF Stored
    <3>2. ASSUME NEW m \in DOMAIN level0', e \in level0'[m] PROVE e \in Stored \/ e \in imm
      BY <1>3, <3>1, <3>2 DEF Stored
    <3>3. ASSUME NEW j \in DOMAIN levels, NEW f \in levels'[j], e \in f
          PROVE  e \in Stored \/ e \in imm
      BY <1>3, <3>1, <3>3 DEF Stored, Deep
    <3>4. (\E m \in DOMAIN level0' : e \in level0'[m])
          \/ (\E j \in DOMAIN levels : \E f \in levels'[j] : e \in f)
      BY <1>3 DEF Stored, Deep
    <3> QED  BY <3>2, <3>3, <3>4
  <2>2. ASSUME NEW e \in Stored PROVE e \in Stored'
    <3>1. e \in history'
      BY <1>2 DEF Stored
    <3>2. ASSUME NEW m \in DOMAIN level0, e \in level0[m] PROVE e \in Stored'
      BY <1>3, <3>1, <3>2 DEF Stored
    <3>3. ASSUME NEW j \in DOMAIN levels, NEW f \in levels[j], e \in f PROVE e \in Stored'
      BY <1>3, <3>1, <3>3 DEF Stored, Deep
    <3>4. (\E m \in DOMAIN level0 : e \in level0[m])
          \/ (\E j \in DOMAIN levels : \E f \in levels[j] : e \in f)
      BY DEF Stored, Deep
    <3> QED  BY <3>2, <3>3, <3>4
  <2>3. ASSUME NEW e \in imm PROVE e \in Stored'
    <3>1. e \in history'
      BY <1>1, <1>2 DEF TypeInv
    <3>2. CASE l = 0
      BY <1>3, <3>1, <3>2 DEF Stored
    <3>3. CASE l \in DOMAIN levels
      <4>1. l \in DOMAIN levels' /\ imm \in levels'[l]
        BY <1>3, <3>3
      <4> QED  BY <3>1, <4>1 DEF Stored, Deep
    <3> QED  BY <1>5, <3>2, <3>3
  <2> QED  BY <2>1, <2>2, <2>3
<1>8. All' = All
  BY <1>2, <1>7 DEF All
<1>9. ReadInv'
  BY <1>1, <1>2, <1>8 DEF ReadInv, IsNewest
<1>10. MemInv'
  BY <1>1, <1>2, <1>7 DEF MemInv
<1>11. \A a \in imm : \A b \in Stored : a.seq > b.seq
  BY <1>1 DEF MemInv
<1>12. /\ \A m \in DOMAIN level0 : \A b \in level0[m] : b \in Stored
       /\ \A j \in DOMAIN levels : \A f \in levels[j] : \A b \in f : b \in Stored
  BY <1>1 DEF Stored, Deep, TypeInv
<1>13. ASSUME l # 0, NEW j \in 0..l, NEW f \in Files(j)
       PROVE  Below(f, imm) \/ Below(imm, f)
  <2>1. CASE \A a \in f : a.key \in Nat /\ a.key > hi
    <3>1. \A a \in f, b \in imm : b.key < a.key
      BY <1>4, <2>1, SMT
    <3> QED  BY <3>1 DEF Below
  <2>2. CASE \A a \in f : a.key \in Nat /\ a.key < lo
    <3>1. \A a \in f, b \in imm : a.key < b.key
      BY <1>4, <2>2, SMT
    <3> QED  BY <3>1 DEF Below
  <2> QED  BY <1>4, <1>13, <2>1, <2>2
<1>14. ASSUME l # 0, NEW j \in 0..l, NEW f \in Files(j), NEW a \in f, NEW b \in imm
       PROVE  a.key # b.key
  <2>1. a.key < b.key \/ b.key < a.key
    BY <1>13, <1>14 DEF Below
  <2>2. b.key \in Nat /\ a.key \in Nat
    BY <1>4, <1>14
  <2> QED  BY <2>1, <2>2, SMT
<1>15. \A j \in DOMAIN levels : j <= l => j \in 0..l /\ l \in 0..l /\ 0 \in 0..l
  BY <1>5, SMT
<1>16. SortedInv'
  <2> SUFFICES ASSUME NEW j \in DOMAIN levels, NEW f \in levels'[j], NEW g \in levels'[j], f # g
               PROVE  Apart(f, g)
    BY <1>3 DEF SortedInv, Apart, Below
  <2>1. CASE f \in levels[j] /\ g \in levels[j]
    BY <1>1, <2>1 DEF SortedInv
  <2>2. ASSUME NEW h \in levels[j], j = l
        PROVE  Apart(h, imm) /\ Apart(imm, h)
    <3>1. l # 0 /\ j \in 0..l /\ h \in Files(j)
      BY <1>5, <2>2, SMT
    <3> QED  BY <1>13, <3>1 DEF Apart
  <2> QED  BY <1>3, <2>1, <2>2
<1>17. OrderInv'
  <2>1. ASSUME NEW m \in DOMAIN level0', NEW k \in DOMAIN level0', k < m
        PROVE  Newer(level0'[m], level0'[k])
    <3>1. CASE m \in DOMAIN level0 /\ k \in DOMAIN level0
      BY <1>1, <1>3, <2>1, <3>1 DEF OrderInv
    <3>2. CASE m = n /\ level0'[m] = imm /\ k \in DOMAIN level0
      BY <1>3, <1>11, <1>12, <3>2 DEF Newer
    <3>3. CASE m \in DOMAIN level0 /\ k = n
      BY <1>3, <1>5, <2>1, <3>3, SMT
    <3>4. CASE m = n /\ k = n
      BY <2>1, <3>4, SMT
    <3> QED  BY <1>3, <3>1, <3>2, <3>3, <3>4
  <2>2. ASSUME NEW m \in DOMAIN level0', NEW j \in DOMAIN levels, NEW f \in levels'[j],
               NEW a \in level0'[m], NEW b \in f, a.key = b.key
        PROVE  a.seq > b.seq
    <3>1. CASE m \in DOMAIN level0 /\ f \in levels[j]
      <4>1. b \in Deep(j) /\ a \in level0[m]
        BY <1>3, <3>1 DEF Deep
      <4> QED  BY <1>1, <2>2, <3>1, <4>1 DEF OrderInv, Newer
    <3>2. CASE level0'[m] = imm /\ f \in levels[j]
      BY <1>11, <1>12, <2>2, <3>2
    <3>3. CASE m \in DOMAIN level0 /\ j = l /\ f = imm
      <4>1. l # 0 /\ 0 \in 0..l /\ level0[m] \in Files(0) /\ a \in level0[m]
        BY <1>3, <1>5, <3>3, SMT
      <4> QED  BY <1>14, <2>2, <3>3, <4>1
    <3>4. CASE l = 0 /\ j = l
      BY <1>5, <3>4
    <3> QED  BY <1>3, <3>1, <3>2, <3>3, <3>4
  <2>3. ASSUME NEW i \in DOMAIN levels, NEW j \in DOMAIN levels, i < j,
               NEW f \in levels'[i], NEW a \in f, NEW g \in levels'[j], NEW b \in g, a.key = b.key
        PROVE  a.seq > b.seq
    <3>1. CASE f \in levels[i] /\ g \in levels[j]
      <4>1. a \in Deep(i) /\ b \in Deep(j)
        BY <3>1 DEF Deep
      <4> QED  BY <1>1, <2>3, <4>1 DEF OrderInv, Newer
    <3>2. CASE i = l /\ f = imm /\ g \in levels[j]
      BY <1>11, <1>12, <2>3, <3>2
    <3>3. CASE f \in levels[i] /\ j = l /\ g = imm
      <4>1. l # 0 /\ i \in 0..l /\ f \in Files(i)
        BY <1>5, <2>3, <3>3, SMT
      <4> QED  BY <1>14, <2>3, <3>3, <4>1
    <3>4. CASE i = l /\ j = l
      BY <1>5, <2>3, <3>4, SMT
    <3> QED  BY <1>3, <3>1, <3>2, <3>3, <3>4
  <2>4. \A m \in DOMAIN level0', j \in DOMAIN levels : Newer(level0'[m], UNION levels'[j])
    BY <2>2 DEF Newer
  <2>5. \A i, j \in DOMAIN levels : i < j => Newer(UNION levels'[i], UNION levels'[j])
    BY <2>3 DEF Newer
  <2> QED  BY <1>3, <2>1, <2>4, <2>5 DEF OrderInv, Newer, Deep
<1>18. WorkInv'
  <2> SUFFICES ASSUME compaction # NoCompaction
               PROVE  WorkInv'
    BY <1>2 DEF WorkInv
  <2>1. PICK L, in0, in1 :
          L = compaction.level /\ in0 = compaction.in0 /\ in1 = compaction.in1
    OBVIOUS
  <2> DEFINE inputs == in0 \cup in1
  <2>2. /\ InputsOK(L, in0, in1) /\ mode.nested
        /\ \A j \in DOMAIN levels : j >= L + 2 =>
             \A f \in levels[j] : f \in compaction.deeper \/ NoCommonKey(f, UNION inputs)
    BY <1>1, <1>2, <2>1 DEF WorkInv
  <2>3. /\ L \in Nat /\ L + 1 \in DOMAIN levels /\ in1 \subseteq levels[L + 1]
        /\ L # 0 => L \in DOMAIN levels /\ in0 \subseteq levels[L]
        /\ L = 0 => \A f \in in0 : \E m \in DOMAIN level0 : f = level0[m]
    BY <1>1, <2>2, InputPlaces
  <2>4. in0 \subseteq Files(L) /\ in1 \subseteq Files(L + 1)
    BY <1>5, <2>2, <2>3 DEF InputsOK
  <2>5. ASSUME l >= L + 1, NEW f \in inputs
        PROVE  /\ l # 0 /\ \E j \in 0..l : f \in Files(j)
               /\ \/ \A a \in f : a.key \in Nat /\ a.key > hi
                  \/ \A a \in f : a.key \in Nat /\ a.key < lo
    <3>1. l # 0 /\ L \in 0..l /\ L + 1 \in 0..l
      BY <1>5, <2>3, <2>5, SMT
    <3>2. PICK j \in 0..l : f \in Files(j)
      BY <2>4, <3>1
    <3> QED  BY <1>4, <3>1, <3>2
  <2>6. ASSUME l = L + 1
        PROVE  Apart(imm, UNION inputs)
    <3>1. l >= L + 1
      BY <1>5, <2>3, <2>6, SMTT(20)
    <3> SUFFICES ASSUME NEW a \in imm, NEW b \in UNION inputs, ~(a.key < b.key),
                        NEW c \in imm, NEW d \in UNION inputs, ~(d.key < c.key)
                 PROVE  FALSE
      BY DEF Apart, Below
    <3>2. PICK f \in inputs, g \in inputs : b \in f /\ d \in g
      OBVIOUS
    <3>3. /\ (b.key \in Nat /\ b.key > hi) \/ (b.key \in Nat /\ b.key < lo)
          /\ (d.key \in Nat /\ d.key > hi) \/ (d.key \in Nat /\ d.key < lo)
      BY <2>5, <3>1, <3>2
    <3>4. a.key \in Nat /\ a.key <= hi /\ c.key \in Nat /\ lo <= c.key
      BY <1>4
    <3>5. b.key <= lo /\ lo <= d.key
      BY <1>4, <3>3, <3>4, SMTT(20)
    <3>6. NoHole(inputs, inputs)
      BY <2>2 DEF InputsOK
    <3>7. PICK h \in inputs : Covers(h, lo)
      BY <1>4, <3>5, <3>6 DEF NoHole
    <3>8. PICK x \in h, y \in h : x.key <= lo /\ lo <= y.key
      BY <3>7 DEF Covers
    <3>9. \/ x.key \in Nat /\ x.key > hi
          \/ y.key \in Nat /\ y.key < lo
      BY <2>5, <3>1
    <3> QED  BY <1>4, <3>8, <3>9, SMT
  <2>7. imm \notin in0 \/ L # 0
    <3> SUFFICES ASSUME imm \in in0, L = 0 PROVE FALSE
      OBVIOUS
    <3>1. PICK m \in DOMAIN level0 : imm = level0[m]
      BY <2>3
    <3>2. PICK a \in imm : TRUE
      BY <1>2
    <3>3. a.seq > a.seq /\ a \in history
      BY <1>1, <1>11, <1>12, <3>1 DEF TypeInv
    <3>4. a.seq \in Nat
      BY <1>1, <3>3, EntryTypes
    <3> QED  BY <3>3, <3>4, SMT
  <2>8. InputsOK(L, in0, in1)'
    <3>1. L \in 0..(NumLevels' - 2)
      BY <1>2, <2>2 DEF InputsOK, NumLevels
    <3>2. in0 \subseteq Files(L)'
      <4>1. CASE L = 0
        <5>1. \A f \in in0 : \E m \in DOMAIN level0' : f = level0'[m]
          BY <1>3, <2>3, <4>1
        <5> QED  BY <4>1, <5>1 DEF Files
      <4>2. CASE L # 0
        <5>1. in0 \subseteq levels'[L]
          BY <1>3, <2>3, <4>2
        <5> QED  BY <4>2, <5>1 DEF Files
      <4> QED  BY <4>1, <4>2
    <3>3. in1 \subseteq levels'[L + 1]
      BY <1>3, <2>3
    <3>4. ASSUME L = 0, NEW k \in DOMAIN level0', NEW m \in DOMAIN level0',
                 k < m, level0'[m] \in in0, level0'[k] \notin in0
          PROVE  NoCommonKey(level0'[k], level0'[m])
      <4>1. m \in DOMAIN level0 /\ level0'[m] = level0[m]
        BY <1>3, <2>7, <3>4
      <4>2. k # n
        <5>1. m < n /\ m \in Nat
          BY <1>3, <1>5, <4>1
        <5> QED  BY <3>4, <5>1, SMT
      <4>3. k \in DOMAIN level0 /\ level0'[k] = level0[k]
        BY <1>3, <4>2
      <4> QED  BY <2>2, <3>4, <4>1, <4>3 DEF InputsOK
    <3>5. ASSUME NEW g \in levels'[L + 1] \ in1
          PROVE  Apart(g, UNION (in0 \cup in1))
      <4>1. CASE g \in levels[L + 1]
        BY <2>2, <3>5, <4>1 DEF InputsOK
      <4>2. CASE L + 1 = l /\ g = imm
        BY <2>6, <4>2
      <4> QED  BY <1>3, <2>3, <4>1, <4>2
    <3>6. NoHole(in0 \cup in1, in0 \cup in1)
      BY <2>2 DEF InputsOK
    <3> QED  BY <3>1, <3>2, <3>3, <3>4, <3>5, <3>6 DEF InputsOK
  <2>9. ASSUME NEW j \in DOMAIN levels, j >= L + 2, NEW f \in levels'[j]
        PROVE  f \in compaction.deeper \/ NoCommonKey(f, UNION inputs)
    <3>1. CASE f \in levels[j]
      BY <2>2, <2>9, <3>1
    <3>2. CASE j = l /\ f = imm
      <4>1. l >= L + 1
        BY <1>5, <2>3, <2>9, <3>2, SMT
      <4>2. ASSUME NEW a \in imm, NEW b \in UNION inputs
            PROVE  a.key # b.key
        <5>1. PICK g \in inputs : b \in g
          OBVIOUS
        <5>2. l # 0 /\ \E i \in 0..l : g \in Files(i)
          BY <2>5, <4>1
        <5> QED  BY <1>14, <5>1, <5>2
      <4> QED  BY <3>2, <4>2 DEF NoCommonKey
    <3> QED  BY <1>3, <3>1, <3>2
  <2> QED  BY <1>1, <1>2, <1>3, <2>8, <2>9, <2>1 DEF WorkInv
<1> QED  BY <1>6, <1>9, <1>10, <1>16, <1>17, <1>18 DEF LsmInv

\* A step that replaces inputs keeps the types.
LEMMA ReplacedTypes ==
  ASSUME TypeInv, NEW l, NEW in0, NEW in1, InputsOK(l, in0, in1), NEW outs,
         Replaced(l, in0, in1, outs),
         UNCHANGED <<mem, imm, lastSequence, snapshots, history, mode>>
  PROVE  TypeInv'
<1>1. \A e \in UNION (in0 \cup in1) : e \in history
  BY InputPlaces DEF TypeInv
<1>2. \A f \in outs : f \subseteq history /\ f # {}
  BY <1>1 DEF Replaced
<1>3. /\ \A n \in DOMAIN level0' : n \in DOMAIN level0 /\ level0'[n] = level0[n]
      /\ DOMAIN levels' = DOMAIN levels
      /\ \A j \in DOMAIN levels : \A f \in levels'[j] : f \in levels[j] \/ f \in outs
  BY DEF Replaced
<1>4. /\ \A n \in DOMAIN level0' : level0'[n] \subseteq history /\ level0'[n] # {}
      /\ \A j \in DOMAIN levels' : \A f \in levels'[j] : f \subseteq history /\ f # {}
  BY <1>2, <1>3 DEF TypeInv
<1>5. DOMAIN level0' \subseteq Nat /\ \E top \in Nat : \A n \in DOMAIN level0' : n <= top
  BY <1>3 DEF TypeInv
<1>6. DOMAIN levels' = 1..(NumLevels' - 1)
  BY <1>3 DEF TypeInv, NumLevels
<1> QED  BY <1>4, <1>5, <1>6 DEF TypeInv

\* A trivial move passes over no older entry of its keys.
LEMMA MoveStep ==
  ASSUME LsmInv, NEW l \in 0..(NumLevels - 2), TrivialMove(l)
  PROVE  LsmInv'
<1>1. /\ TypeInv /\ SortedInv /\ MemInv /\ OrderInv /\ WorkInv /\ ReadInv
  BY DEF LsmInv
<1>2. /\ compaction = NoCompaction
      /\ UNCHANGED <<mem, imm, lastSequence, snapshots, compaction, history, mode>>
  BY DEF TrivialMove, MayCompact
<1>3. PICK in0 \in PickCompaction(l) :
        /\ Cardinality(in0) = 1 /\ <<in0, {}>> \in SetupOtherInputs(l, in0)
        /\ level0' = RemoveInputs(IF l = 0 THEN in0 ELSE {})
        /\ levels' = [j \in DOMAIN levels |->
                        (levels[j] \ (IF j = l THEN in0 ELSE {}))
                        \cup (IF j = l + 1 THEN in0 ELSE {})]
  BY DEF TrivialMove
<1>4. /\ in0 \in SUBSET Files(l) /\ in0 # {} /\ NoHole(in0, in0)
      /\ l = 0 => Shut(in0)
      /\ l # 0 => \E f : in0 = {f}
  BY <1>1, PickInputs
<1>5. \E f : in0 = {f}
  <2> SUFFICES ASSUME l = 0 PROVE \E f : in0 = {f}
    BY <1>4
  <2>1. IsFiniteSet(DOMAIN level0)
    <3>1. DOMAIN level0 \in SUBSET Nat /\ \E top \in Nat : \A n \in DOMAIN level0 : n <= top
      BY <1>1 DEF TypeInv
    <3> QED  BY <3>1, FS_BoundedSetOfNaturals
  <2> DEFINE file == [n \in DOMAIN level0 |-> level0[n]]
  <2>2. file \in Surjection(DOMAIN level0, Files(0))
    BY DEF Files, Surjection
  <2>3. IsFiniteSet(Files(0))
    BY <2>1, <2>2, FS_Surjection
  <2>4. IsFiniteSet(in0)
    BY <1>4, <2>3, FS_Subset
  <2> QED  BY <1>3, <2>4, FS_Singleton
<1>6. InputsOK(l, in0, {})
  <2> DEFINE inputs == <<in0, {}>>
  <2>1. inputs \in SetupOtherInputs(l, in0) /\ inputs[1] = in0 /\ inputs[2] = {}
    BY <1>3
  <2> HIDE DEF inputs
  <2>2. InputsOK(l, inputs[1], inputs[2])
    BY <1>1, <1>4, <2>1, SetupInputs
  <2> QED  BY <2>1, <2>2
<1>7. /\ l \in Nat /\ l + 1 \in DOMAIN levels
      /\ l # 0 => l \in DOMAIN levels /\ in0 \subseteq levels[l]
      /\ l = 0 => \A f \in in0 : \E m \in DOMAIN level0 : f = level0[m]
  BY <1>1, <1>6, InputPlaces
<1>8. /\ \A n : n \in DOMAIN level0' <=> n \in DOMAIN level0 /\ (l = 0 => level0[n] \notin in0)
      /\ \A n \in DOMAIN level0' : level0'[n] = level0[n]
  BY <1>3 DEF RemoveInputs
<1>9. /\ DOMAIN levels' = DOMAIN levels
      /\ \A j \in DOMAIN levels : \A f : f \in levels'[j] <=>
           (f \in levels[j] /\ (j = l => f \notin in0)) \/ (j = l + 1 /\ f \in in0)
  BY <1>3
<1>10. Replaced(l, in0, {}, in0)
  <2>1. \A f \in in0 : f # {} /\ f \subseteq UNION (in0 \cup {})
    BY <1>1, <1>7 DEF TypeInv
  <2>2. \A f, g \in in0 : f # g => Apart(f, g)
    BY <1>5
  <2> QED  BY <1>8, <1>9, <2>1, <2>2 DEF Replaced
<1>11. SortedInv' /\ OrderInv' /\ Stored' \subseteq Stored
  BY <1>1, <1>2, <1>6, <1>10, ReplacedKeeps
<1>12. TypeInv'
  BY <1>1, <1>2, <1>6, <1>10, ReplacedTypes
<1>13. Stored \subseteq Stored'
  <2> SUFFICES ASSUME NEW e \in Stored PROVE e \in Stored'
    OBVIOUS
  <2>1. e \in history'
    BY <1>2 DEF Stored
  <2>2. ASSUME NEW f \in in0, e \in f PROVE e \in Stored'
    <3>1. f \in levels'[l + 1] /\ l + 1 \in DOMAIN levels'
      BY <1>7, <1>9
    <3> QED  BY <2>1, <2>2, <3>1 DEF Stored, Deep
  <2>3. ASSUME NEW n \in DOMAIN level0, e \in level0[n], level0[n] \notin in0 PROVE e \in Stored'
    BY <1>8, <2>1, <2>3 DEF Stored
  <2>4. ASSUME NEW j \in DOMAIN levels, NEW f \in levels[j], e \in f, f \notin in0
        PROVE  e \in Stored'
    <3>1. f \in levels'[j] /\ j \in DOMAIN levels'
      BY <1>9, <2>4
    <3> QED  BY <2>1, <2>4, <3>1 DEF Stored, Deep
  <2>5. (\E n \in DOMAIN level0 : e \in level0[n])
        \/ (\E j \in DOMAIN levels : \E f \in levels[j] : e \in f)
    BY DEF Stored, Deep
  <2> QED  BY <2>2, <2>3, <2>4, <2>5
<1>14. All' = All
  BY <1>2, <1>11, <1>13 DEF All
<1>15. MemInv'
  BY <1>1, <1>2, <1>11 DEF MemInv
<1>16. WorkInv'
  BY <1>2 DEF WorkInv
<1>17. ReadInv'
  BY <1>1, <1>2, <1>14 DEF ReadInv, IsNewest
<1> QED  BY <1>11, <1>12, <1>15, <1>16, <1>17 DEF LsmInv

\* InstallCompactionResults: what DoCompactionWork dropped, no read needs.
LEMMA FinishStep ==
  ASSUME LsmInv, FinishCompaction
  PROVE  LsmInv'
<1>1. /\ TypeInv /\ SortedInv /\ MemInv /\ OrderInv /\ WorkInv /\ ReadInv
  BY DEF LsmInv
<1>2. /\ compaction # NoCompaction /\ compaction' = NoCompaction
      /\ UNCHANGED <<mem, imm, lastSequence, snapshots, history, mode>>
  BY DEF FinishCompaction
<1>3. PICK c : c = compaction
  OBVIOUS
<1>4. PICK kept : kept = Kept(c)
  OBVIOUS
<1>5. PICK cuts \in SUBSET CutPoints(kept) :
        /\ level0' = RemoveInputs(IF c.level = 0 THEN c.in0 ELSE {})
        /\ levels' = [j \in DOMAIN levels |->
                        (levels[j] \ ((IF j = c.level THEN c.in0 ELSE {})
                                      \cup (IF j = c.level + 1 THEN c.in1 ELSE {})))
                        \cup (IF j = c.level + 1 THEN Outputs(kept, cuts) ELSE {})]
  BY <1>3, <1>4 DEF FinishCompaction
<1> DEFINE l == c.level
           in0 == c.in0
           in1 == c.in1
           outs == Outputs(kept, cuts)
<1>6. /\ InputsOK(l, in0, in1)
      /\ \A j \in DOMAIN levels : j >= l + 2 =>
           \A f \in levels[j] : f \in c.deeper \/ NoCommonKey(f, UNION (in0 \cup in1))
      /\ c.smallestSnapshot \in Nat
      /\ \A s \in snapshots \cup {lastSequence} : c.smallestSnapshot <= s
      /\ mode.split => \A e \in UNION (in0 \cup in1) : e.seq <= c.smallestSnapshot
  BY <1>1, <1>2, <1>3 DEF WorkInv
<1>7. \A e \in UNION (in0 \cup in1) :
        e \in kept <=> ~Hidden(e, c) /\ ~ObsoleteDeletion(e, c)
  BY <1>4 DEF Kept
<1>8. kept \subseteq UNION (in0 \cup in1)
  BY <1>4 DEF Kept
<1>9. \A n \in DOMAIN level0' : n \in DOMAIN level0 /\ level0'[n] = level0[n]
                                /\ (l = 0 => level0[n] \notin in0)
  BY <1>5 DEF RemoveInputs
<1>10. \A n \in DOMAIN level0 : (l = 0 => level0[n] \notin in0) =>
         n \in DOMAIN level0' /\ level0'[n] = level0[n]
  BY <1>5 DEF RemoveInputs
<1>11. /\ DOMAIN levels' = DOMAIN levels
       /\ \A j \in DOMAIN levels : \A f : f \in levels'[j] <=>
            \/ f \in levels[j] /\ (j = l => f \notin in0) /\ (j = l + 1 => f \notin in1)
            \/ j = l + 1 /\ f \in outs
  BY <1>5
<1>12. cuts \in SUBSET kept /\ \A e \in cuts : e \in CutPoints(kept)
  BY DEF CutPoints
<1> HIDE DEF l, in0, in1, outs
<1>13. \A e \in UNION (in0 \cup in1) : e \in history /\ e \in Stored
  <2>1. /\ l \in Nat /\ l + 1 \in DOMAIN levels /\ in1 \subseteq levels[l + 1]
        /\ l # 0 => l \in DOMAIN levels /\ in0 \subseteq levels[l]
        /\ l = 0 => \A f \in in0 : \E m \in DOMAIN level0 : f = level0[m]
    BY <1>1, <1>6, InputPlaces
  <2>2. \A e \in UNION (in0 \cup in1) :
          /\ e \in history
          /\ \/ \E n \in DOMAIN level0 : e \in level0[n]
             \/ \E j \in DOMAIN levels : e \in Deep(j)
    BY <1>1, <2>1 DEF TypeInv, Deep
  <2> QED  BY <2>2 DEF Stored
<1>14. \A e \in cuts, d \in kept : Before(e, d) => d.key # e.key
  <2> SUFFICES ASSUME NEW e \in cuts, NEW d \in kept, Before(e, d), d.key = e.key
               PROVE  FALSE
    OBVIOUS
  <2>1. mode.split
    BY <1>12 DEF CutPoints
  <2>2. e \in UNION (in0 \cup in1) /\ d \in UNION (in0 \cup in1)
    BY <1>8, <1>12
  <2>3. e.seq <= c.smallestSnapshot
    BY <1>6, <2>1, <2>2
  <2>4. e.key \in Nat /\ d.key \in Nat
    BY <1>1, <1>13, <2>2, EntryTypes
  <2>5. e.seq > d.seq
    BY <2>4, SMT DEF Before
  <2>6. Hidden(d, c)
    BY <2>2, <2>3, <2>5 DEF Hidden, in0, in1
  <2> QED  BY <1>7, <2>2, <2>6
<1>15. /\ \A f \in outs : f # {} /\ f \subseteq kept
       /\ \A e \in kept : \E f \in outs : e \in f
       /\ \A f, g \in outs : f # g => Apart(f, g)
  <2>1. kept \in SUBSET history
    BY <1>8, <1>13
  <2> QED  BY <1>1, <1>12, <1>14, <2>1, OutputFiles DEF outs
<1>16. Replaced(l, in0, in1, outs)
  <2>1. \A f \in outs : f # {} /\ f \subseteq UNION (in0 \cup in1)
    BY <1>8, <1>15
  <2> QED  BY <1>9, <1>11, <1>15, <2>1 DEF Replaced
<1>17. SortedInv' /\ OrderInv' /\ Stored' \subseteq Stored
  BY <1>1, <1>2, <1>6, <1>16, ReplacedKeeps
<1>18. TypeInv'
  BY <1>1, <1>2, <1>6, <1>16, ReplacedTypes
<1>19. MemInv'
  BY <1>1, <1>2, <1>17 DEF MemInv
<1>20. WorkInv'
  BY <1>2 DEF WorkInv
<1>21. All' \subseteq All
  BY <1>2, <1>17 DEF All
<1>22. l \in Nat /\ l + 1 \in DOMAIN levels
  BY <1>1, <1>6, InputPlaces
<1>23. ASSUME NEW e \in Stored, e \notin UNION (in0 \cup in1)
       PROVE  e \in Stored'
  <2>1. e \in history' /\ ((\E n \in DOMAIN level0 : e \in level0[n])
                           \/ (\E j \in DOMAIN levels : \E f \in levels[j] : e \in f))
    BY <1>2 DEF Stored, Deep
  <2>2. ASSUME NEW n \in DOMAIN level0, e \in level0[n] PROVE e \in Stored'
    <3>1. n \in DOMAIN level0' /\ level0'[n] = level0[n]
      BY <1>10, <1>23, <2>2
    <3> QED  BY <2>1, <2>2, <3>1 DEF Stored
  <2>3. ASSUME NEW j \in DOMAIN levels, NEW f \in levels[j], e \in f PROVE e \in Stored'
    <3>1. f \notin in0 /\ f \notin in1
      BY <1>23, <2>3
    <3>2. j \in DOMAIN levels' /\ f \in levels'[j]
      BY <1>11, <3>1
    <3> QED  BY <2>1, <2>3, <3>2 DEF Stored, Deep
  <2> QED  BY <2>1, <2>2, <2>3
<1>24. ASSUME NEW e \in kept
       PROVE  e \in Stored'
  <2>1. PICK f \in outs : e \in f
    BY <1>15
  <2>2. l + 1 \in DOMAIN levels' /\ f \in levels'[l + 1] /\ e \in history'
    BY <1>2, <1>8, <1>11, <1>13, <1>22
  <2> QED  BY <2>1, <2>2 DEF Stored, Deep
\* Nothing that stays is an older version of an input's entry that is not kept as obsolete.
<1>25. ASSUME NEW e \in UNION (in0 \cup in1), ObsoleteDeletion(e, c), NEW d \in All', d.key = e.key,
              ~(d.seq > e.seq)
       PROVE  FALSE
  <2>1. d \in history /\ e \in history /\ e \in Stored
    BY <1>1, <1>13, <1>21, AllWritten
  <2>2. d.seq \in Nat /\ e.seq \in Nat /\ e.key \in Nat
    BY <1>1, <2>1, EntryTypes
  <2>3. /\ \A n \in DOMAIN level0 :
             d \in level0[n] /\ (l = 0 => level0[n] \notin in0) => d.seq > e.seq
        /\ \A j \in DOMAIN levels : \A f \in levels[j] :
             d \in f /\ j <= l /\ (j = l => f \notin in0) => d.seq > e.seq
        /\ \A f \in levels[l + 1] : d \in f => f \in in1
    BY <1>1, <1>6, <1>25, <2>1, InputOrder
  <2>4. e.del /\ e.seq <= c.smallestSnapshot /\ \A f \in c.deeper : ~Overlaps(f, e.key, e.key)
    BY <1>25 DEF ObsoleteDeletion, IsBaseLevelForKey
  <2>5. CASE d \in mem \/ d \in imm
    BY <1>1, <1>25, <2>1, <2>5 DEF MemInv
  <2>6. ASSUME NEW n \in DOMAIN level0', d \in level0'[n] PROVE FALSE
    BY <1>9, <1>25, <2>3, <2>6
  <2>7. ASSUME NEW j \in DOMAIN levels, NEW f \in levels'[j], d \in f PROVE FALSE
    <3>1. j \in Nat
      BY <1>1, LevelCount
    <3>2. CASE f \in outs
      <4>1. d \in kept
        BY <1>15, <2>7, <3>2
      <4>2. d \in UNION (in0 \cup in1) /\ ~Hidden(d, c) /\ ~ObsoleteDeletion(d, c)
        BY <1>7, <1>8, <4>1
      <4>3. d # e
        BY <1>25, <4>2
      <4>4. d.seq # e.seq
        BY <1>1, <2>1, <4>3 DEF TypeInv
      <4>5. e.seq > d.seq
        BY <1>25, <2>2, <4>4, SMT
      <4>6. Hidden(d, c)
        BY <1>25, <2>4, <4>5 DEF Hidden, in0, in1
      <4> QED  BY <4>2, <4>6
    <3>3. CASE f \in levels[j] /\ (j = l => f \notin in0) /\ (j = l + 1 => f \notin in1)
      <4>1. CASE j <= l
        BY <1>25, <2>3, <2>7, <3>3, <4>1
      <4>2. CASE j = l + 1
        BY <2>3, <2>7, <3>3, <4>2
      <4>3. CASE j >= l + 2
        <5>1. f \in c.deeper \/ NoCommonKey(f, UNION (in0 \cup in1))
          BY <1>6, <3>3, <4>3
        <5>2. f \in c.deeper
          BY <1>25, <2>7, <5>1 DEF NoCommonKey
        <5>3. f \in SUBSET history /\ f # {}
          BY <1>1, <3>3 DEF TypeInv
        <5>4. d.key <= e.key /\ e.key <= d.key
          BY <1>25, <2>2, SMT
        <5>5. Overlaps(f, e.key, e.key)
          BY <1>1, <2>2, <2>7, <5>3, <5>4, OverlapsMeans
        <5> QED  BY <2>4, <5>2, <5>5
      <4>4. j <= l \/ j = l + 1 \/ j >= l + 2
        BY <1>22, <3>1, SMT
      <4> QED  BY <4>1, <4>2, <4>3, <4>4
    <3> QED  BY <1>11, <2>7, <3>2, <3>3
  <2>8. d \in mem \/ d \in imm \/ (\E n \in DOMAIN level0' : d \in level0'[n])
        \/ (\E j \in DOMAIN levels : \E f \in levels'[j] : d \in f)
    BY <1>2, <1>11 DEF All, Stored, Deep
  <2> QED  BY <2>5, <2>6, <2>7, <2>8
<1>26. ReadInv'
  <2> SUFFICES ASSUME NEW s \in snapshots \cup {lastSequence}, NEW e \in history, IsNewest(e, s)
               PROVE  e \in All' \/ (e.del /\ \A d \in All' : d.key = e.key => d.seq > s)
    BY <1>2 DEF ReadInv, IsNewest
  <2>1. e \in All \/ (e.del /\ \A d \in All : d.key = e.key => d.seq > s)
    BY <1>1 DEF ReadInv
  <2>2. e.seq <= s /\ \A d \in history : d.key = e.key /\ d.seq <= s => d.seq <= e.seq
    BY DEF IsNewest
  <2>3. CASE e.del /\ \A d \in All : d.key = e.key => d.seq > s
    BY <1>21, <2>3
  <2>4. CASE e \in mem \/ e \in imm
    BY <1>2, <2>4 DEF All
  <2>5. CASE e \in Stored /\ e \notin UNION (in0 \cup in1)
    BY <1>23, <2>5 DEF All
  <2>6. CASE e \in kept
    BY <1>24, <2>6 DEF All
  <2>7. s \in Nat
    BY <1>1, SMT DEF TypeInv
  <2>8. CASE e \in UNION (in0 \cup in1) /\ Hidden(e, c)
    <3>1. PICK n \in UNION (in0 \cup in1) :
            n.key = e.key /\ n.seq > e.seq /\ n.seq <= c.smallestSnapshot
      BY <2>8 DEF Hidden, in0, in1
    <3>2. n \in history
      BY <1>13
    <3>3. n.seq \in Nat /\ e.seq \in Nat /\ c.smallestSnapshot \in Nat /\ c.smallestSnapshot <= s
      BY <1>1, <1>6, <3>2, EntryTypes
    <3>4. n.seq <= s /\ ~(n.seq <= e.seq)
      BY <2>7, <3>1, <3>3, SMT
    <3> QED  BY <2>2, <3>1, <3>2, <3>4
  <2>9. CASE e \in UNION (in0 \cup in1) /\ ObsoleteDeletion(e, c)
    <3>1. e.del
      BY <2>9 DEF ObsoleteDeletion
    <3>2. ASSUME NEW d \in All', d.key = e.key, ~(d.seq > s)
          PROVE  FALSE
      <4>1. d \in history
        BY <1>1, <1>21, AllWritten
      <4>2. d.seq \in Nat /\ e.seq \in Nat
        BY <1>1, <4>1, EntryTypes
      <4>3. d.seq <= s
        BY <2>7, <3>2, <4>2, SMT
      <4>4. d.seq <= e.seq
        BY <2>2, <3>2, <4>1, <4>3
      <4>5. ~(d.seq > e.seq)
        BY <4>2, <4>4, SMT
      <4> QED  BY <1>25, <2>9, <3>2, <4>5
    <3> QED  BY <3>1, <3>2
  <2>10. e \in UNION (in0 \cup in1) => e \in kept \/ Hidden(e, c) \/ ObsoleteDeletion(e, c)
    BY <1>7
  <2>11. e \in All => e \in mem \/ e \in imm \/ e \in Stored
    BY DEF All
  <2> QED  BY <2>1, <2>3, <2>4, <2>5, <2>6, <2>8, <2>9, <2>10, <2>11
<1> QED  BY <1>17, <1>18, <1>19, <1>20, <1>26 DEF LsmInv

\* The inductive step, one case for each action.
LEMMA NextInv ==
  ASSUME LsmInv, Tame, [Next]_vars
  PROVE  LsmInv'
<1>1. CASE \E k \in Keys, del \in BOOLEAN : Write(k, del)
  BY <1>1, WriteStep
<1>2. CASE SwitchMemTable
  BY <1>2, SwitchStep
<1>3. CASE GetSnapshot \/ \E s \in snapshots : ReleaseSnapshot(s)
  BY <1>3, SnapshotStep
<1>4. CASE CompactMemTable
  BY <1>4, FlushStep
<1>5. CASE \E l \in 0..(NumLevels - 2) : StartCompaction(l) \/ StartManualCompaction(l)
  BY <1>5, StartStep
<1>6. CASE \E l \in 0..(NumLevels - 2) : TrivialMove(l)
  BY <1>6, MoveStep
<1>7. CASE FinishCompaction
  BY <1>7, FinishStep
<1>8. CASE UNCHANGED vars
  <2>1. /\ TypeInv /\ SortedInv /\ MemInv /\ OrderInv /\ WorkInv /\ ReadInv
    BY DEF LsmInv
  <2>2. /\ UNCHANGED <<mem, imm, lastSequence, snapshots, compaction, history>>
        /\ UNCHANGED <<level0, levels, mode>>
    BY <1>8 DEF vars
  <2>3. TypeInv' /\ Stored' = Stored
    <3>1. /\ mem' \subseteq history /\ imm' \subseteq history
          /\ snapshots' \subseteq 0..lastSequence
          /\ mode.snapshots = 0 => snapshots' = {}
      BY <2>1, <2>2 DEF TypeInv
    <3> QED  BY <2>1, <2>2, <3>1, SameTypes
  <2>4. /\ SortedInv' /\ OrderInv'
        /\ \A l, in0, in1 : InputsOK(l, in0, in1) => InputsOK(l, in0, in1)'
    BY <2>1, <2>2, SameVersion
  <2>5. All' = All
    BY <2>2, <2>3 DEF All
  <2>6. MemInv'
    BY <2>1, <2>2, <2>3 DEF MemInv
  <2>7. WorkInv'
    BY <2>1, <2>2, <2>4 DEF WorkInv
  <2>8. ReadInv'
    BY <2>1, <2>2, <2>5 DEF ReadInv, IsNewest
  <2> QED  BY <2>3, <2>4, <2>6, <2>7, <2>8 DEF LsmInv
<1> QED  BY <1>1, <1>2, <1>3, <1>4, <1>5, <1>6, <1>7, <1>8 DEF Next

-----------------------------------------------------------------------------
(* Reading.                                                                *)

\* A nonempty set of entries has a newest one, and Newest is it.
LEMMA NewestIs ==
  ASSUME TypeInv, NEW es \in SUBSET history, es # {}
  PROVE  Newest(es) \in es /\ \A d \in es : d.seq <= Newest(es).seq
<1> DEFINE Q == {e.seq : e \in es}
<1>1. \A e \in es : e.seq \in Nat /\ e.seq <= lastSequence
  BY EntryTypes DEF TypeInv
<1>2. Q \in SUBSET Nat /\ Q # {} /\ (\A q \in Q : q <= lastSequence) /\ lastSequence \in Nat
  BY <1>1 DEF TypeInv
<1>3. Max(Q) \in Q /\ \A q \in Q : q <= Max(Q)
  BY <1>2, MaxOfNats
<1>4. PICK e \in es : e.seq = Max(Q)
  BY <1>3
<1>5. \A d \in es : d.seq \in Q
  OBVIOUS
<1> HIDE DEF Q
<1>6. \A d \in es : d.seq <= e.seq
  BY <1>3, <1>4, <1>5
<1> QED  BY <1>6 DEF Newest

\* Below level 0 the lookup reads the only file of the level that can hold the key.
LEMMA LookupLevel ==
  ASSUME TypeInv, SortedInv, NEW l \in DOMAIN levels, NEW k \in Keys, NEW s \in Nat
  PROVE  /\ LevelFile(l, k, s) = {} \/ LevelFile(l, k, s) \in levels[l]
         /\ \A f \in levels[l] : Versions(f, k, s) # {} => LevelFile(l, k, s) = f
<1> DEFINE probe == [key |-> k, seq |-> s]
           after == {f \in levels[l] : ~Before(Largest(f), probe)}
           IsFirst(f) == \A g \in after : ~Before(Largest(g), Largest(f))
           first == CHOOSE f \in after : IsFirst(f)
<1>1. LevelFile(l, k, s) = IF after = {} \/ Smallest(first).key > k THEN {} ELSE first
  BY DEF LevelFile
<1>2. \A a : Before(a, probe) <=> a.key < k \/ (a.key = k /\ a.seq > s)
  BY DEF Before
<1>3. \A f : f \in after <=> f \in levels[l] /\ ~Before(Largest(f), probe)
  OBVIOUS
<1>4. ASSUME NEW f \in levels[l]
      PROVE  /\ f \in SUBSET history /\ Largest(f) \in f /\ Smallest(f) \in f
             /\ Smallest(f).key \in Nat
             /\ \A b \in f : /\ b.key \in Nat /\ b.seq \in Nat
                             /\ Smallest(f).key <= b.key /\ ~Before(Largest(f), b)
  <2>1. f \in SUBSET history /\ f # {}
    BY DEF TypeInv
  <2> QED  BY <2>1, Ends, EndKeys, EntryTypes
<1>5. k \in Nat
  BY LsmAssumption
<1>6. after # {} => first \in after
  <2> HAVE after # {}
  <2> DEFINE Ls == {Largest(f) : f \in after}
  <2>1. Ls \in SUBSET history /\ Ls # {}
    BY <1>4
  <2>2. Smallest(Ls) \in Ls /\ \A b \in Ls : ~Before(b, Smallest(Ls))
    BY <2>1, Ends
  <2>3. PICK f \in after : Smallest(Ls) = Largest(f)
    BY <2>2
  <2>4. \A g \in after : Largest(g) \in Ls
    OBVIOUS
  <2> HIDE DEF Ls
  <2>5. IsFirst(f)
    BY <2>2, <2>3, <2>4
  <2> HIDE DEF after, IsFirst
  <2> QED  BY <2>5
<1>7. ASSUME NEW f \in levels[l], Versions(f, k, s) # {}
      PROVE  LevelFile(l, k, s) = f
  <2>1. PICK e \in f : e.key = k /\ e.seq <= s
    BY <1>7 DEF Versions
  <2>2. f \in after
    <3>1. ~Before(Largest(f), e)
      BY <1>4
    <3>2. /\ Largest(f).key \in Nat /\ Largest(f).seq \in Nat
          /\ e.key \in Nat /\ e.seq \in Nat
      BY <1>4
    <3>3. ~(Largest(f).key < k \/ (Largest(f).key = k /\ Largest(f).seq > s))
      BY <1>5, <2>1, <3>1, <3>2, SMT DEF Before
    <3> QED  BY <1>2, <1>3, <3>3
  <2>3. ASSUME NEW g \in after, g # f
        PROVE  Before(Largest(f), Largest(g))
    <3>1. g \in levels[l] /\ ~(Largest(g).key < k)
      BY <1>2, <1>3
    <3>2. Below(f, g) \/ Below(g, f)
      BY <2>3, <3>1 DEF SortedInv, Apart
    <3>3. Largest(f) \in f /\ Largest(g) \in g
      BY <1>4, <3>1
    <3>4. CASE Below(f, g)
      BY <3>3, <3>4 DEF Below, Before
    <3>5. CASE Below(g, f)
      BY <2>1, <3>1, <3>3, <3>5 DEF Below
    <3> QED  BY <3>2, <3>4, <3>5
  <2>4. IsFirst(f)
    <3> SUFFICES ASSUME NEW g \in after PROVE ~Before(Largest(g), Largest(f))
      OBVIOUS
    <3>1. g \in levels[l] /\ Largest(g) \in history /\ Largest(f) \in history
      BY <1>3, <1>4
    <3> QED  BY <2>3, <3>1, TotalOrder
  <2>5. \A g \in after : IsFirst(g) => g = f
    BY <2>2, <2>3
  <2>6. ~(Smallest(f).key > k)
    <3>1. Smallest(f).key <= k /\ Smallest(f).key \in Nat
      BY <1>4, <2>1
    <3> QED  BY <1>5, <3>1, SMT
  <2> HIDE DEF after, IsFirst
  <2>7. first = f
    BY <2>2, <2>4, <2>5
  <2> QED  BY <1>1, <2>2, <2>6, <2>7
<1>8. LevelFile(l, k, s) = {} \/ LevelFile(l, k, s) \in levels[l]
  BY <1>1, <1>3, <1>6
<1> QED  BY <1>7, <1>8

\* Reads are made at sequence numbers.
LEMMA ReadSequences ==
  ASSUME TypeInv
  PROVE  \A s \in snapshots \cup {lastSequence} : s \in Nat
<1>1. snapshots \subseteq 0..lastSequence /\ lastSequence \in Nat
  BY DEF TypeInv
<1>2. \A s \in 0..lastSequence : s \in Nat
  BY SMT
<1> QED  BY <1>1, <1>2

\* A source that holds every version of the key a read may see, or newer ones than those it does
\* not hold, gives the read its value.
LEMMA SourceAnswers ==
  ASSUME TypeInv, ReadInv, NEW k \in Keys, NEW s \in snapshots \cup {lastSequence},
         NEW src \in SUBSET All, Versions(src, k, s) # {},
         \A d \in All : d.key = k /\ d.seq <= s =>
           d \in src \/ \A a \in src : a.key = k => a.seq > d.seq
  PROVE  ValueIn(src, k, s) = Expected(k, s)
<1> DEFINE vs == Versions(src, k, s)
           es == Versions(history, k, s)
<1>1. src \subseteq history
  BY AllWritten
<1>2. \A d : d \in vs <=> d \in src /\ d.key = k /\ d.seq <= s
  BY DEF Versions
<1>3. \A d : d \in es <=> d \in history /\ d.key = k /\ d.seq <= s
  BY DEF Versions
<1>4. vs \in SUBSET history /\ vs # {} /\ es \in SUBSET history /\ es # {} /\ vs \subseteq es
  BY <1>1, <1>2, <1>3
<1>5. Expected(k, s) = ValueOf(Newest(es)) /\ ValueIn(src, k, s) = ValueOf(Newest(vs))
  BY <1>4 DEF Expected, ValueIn
<1> HIDE DEF vs, es
<1>6. PICK x : x = Newest(vs)
  OBVIOUS
<1>7. PICK e : e = Newest(es)
  OBVIOUS
<1>8. x \in vs /\ \A d \in vs : d.seq <= x.seq
  BY <1>4, <1>6, NewestIs
<1>9. e \in es /\ \A d \in es : d.seq <= e.seq
  BY <1>4, <1>7, NewestIs
<1>10. x \in src /\ x \in All /\ x.key = k /\ x.seq <= s /\ x.seq <= e.seq
  BY <1>2, <1>4, <1>8, <1>9
<1>11. e \in history /\ e.key = k /\ IsNewest(e, s)
  BY <1>3, <1>9 DEF IsNewest
<1>12. x.seq \in Nat /\ e.seq \in Nat /\ s \in Nat
  <2>1. x \in history
    BY <1>1, <1>10
  <2> QED  BY <1>11, <2>1, EntryTypes, ReadSequences
<1>13. e \in All
  <2>1. e \in All \/ (e.del /\ \A d \in All : d.key = k => d.seq > s)
    BY <1>11 DEF ReadInv
  <2>2. ~(x.seq > s)
    BY <1>10, <1>12, SMTT(20)
  <2> QED  BY <1>10, <2>1, <2>2
<1>14. ~(x.seq > e.seq)
  BY <1>10, <1>12, SMT
<1>15. e \in src
  <2>1. e.seq <= s
    BY <1>11 DEF IsNewest
  <2>2. e \in src \/ \A a \in src : a.key = k => a.seq > e.seq
    BY <1>11, <1>13, <2>1
  <2> QED  BY <1>10, <1>14, <2>2
<1>16. e.seq <= x.seq
  BY <1>2, <1>8, <1>11, <1>15 DEF IsNewest
<1>17. e.seq = x.seq
  BY <1>10, <1>12, <1>16, SMT
<1>18. e = x
  BY <1>1, <1>10, <1>11, <1>17 DEF TypeInv
<1> QED  BY <1>5, <1>6, <1>7, <1>18

\* When no source holds a version of the key, nothing was written, or a deletion was dropped last.
LEMMA NoSource ==
  ASSUME TypeInv, ReadInv, NEW k \in Keys, NEW s \in snapshots \cup {lastSequence},
         \A d \in All : ~(d.key = k /\ d.seq <= s)
  PROVE  Expected(k, s) = 0
<1> DEFINE es == Versions(history, k, s)
<1>1. \A d : d \in es <=> d \in history /\ d.key = k /\ d.seq <= s
  BY DEF Versions
<1>2. Expected(k, s) = IF es = {} THEN 0 ELSE ValueOf(Newest(es))
  BY DEF Expected
<1> HIDE DEF es
<1>3. CASE es # {}
  <2>1. es \in SUBSET history
    BY <1>1
  <2>2. PICK e : e = Newest(es)
    OBVIOUS
  <2>3. e \in es /\ \A d \in es : d.seq <= e.seq
    BY <1>3, <2>1, <2>2, NewestIs
  <2>4. e \in history /\ e.key = k /\ e.seq <= s /\ IsNewest(e, s)
    BY <1>1, <2>3 DEF IsNewest
  <2>5. e.del
    BY <2>4 DEF ReadInv
  <2> QED  BY <1>2, <1>3, <2>2, <2>5 DEF ValueOf
<1> QED  BY <1>2, <1>3

\* The invariant makes every read return what was written.
LEMMA ReadsFromInv ==
  ASSUME LsmInv
  PROVE  ReadsCorrect
<1>1. /\ TypeInv /\ SortedInv /\ MemInv /\ OrderInv /\ ReadInv
  BY DEF LsmInv
<1> SUFFICES ASSUME NEW k \in Keys, NEW s \in snapshots \cup {lastSequence}
             PROVE  Get(k, s) = Expected(k, s)
  BY DEF ReadsCorrect
<1>2. s \in Nat
  BY <1>1, ReadSequences
<1> DEFINE Has(f) == Versions(f, k, s) # {}
           hits0 == {n \in DOMAIN level0 : Has(level0[n])}
           hits == {l \in DOMAIN levels : Has(LevelFile(l, k, s))}
<1>3. Get(k, s) = IF Has(mem) THEN ValueIn(mem, k, s)
                  ELSE IF Has(imm) THEN ValueIn(imm, k, s)
                  ELSE IF hits0 # {} THEN ValueIn(level0[Max(hits0)], k, s)
                  ELSE IF hits # {} THEN ValueIn(LevelFile(Min(hits), k, s), k, s)
                  ELSE 0
  BY DEF Get, VersionGet
<1>4. \A f : \A d \in f : d.key = k /\ d.seq <= s => Has(f)
  BY DEF Versions
<1>5. \A n : n \in hits0 <=> n \in DOMAIN level0 /\ Has(level0[n])
  OBVIOUS
<1>6. \A l : l \in hits <=> l \in DOMAIN levels /\ Has(LevelFile(l, k, s))
  OBVIOUS
<1>7. /\ \A l \in DOMAIN levels :
           LevelFile(l, k, s) = {} \/ LevelFile(l, k, s) \in levels[l]
      /\ \A l \in DOMAIN levels : \A f \in levels[l] : Has(f) => LevelFile(l, k, s) = f
  BY <1>1, <1>2, LookupLevel
<1>8. ~Has({})
  BY DEF Versions
<1>9. DOMAIN level0 \subseteq Nat /\ DOMAIN levels \subseteq Nat
  BY <1>1, LevelCount DEF TypeInv
<1>10. \A d \in All : \/ d \in mem \/ d \in imm
                      \/ d \in Stored /\ \E n \in DOMAIN level0 : d \in level0[n]
                      \/ d \in Stored /\ \E l \in DOMAIN levels : \E f \in levels[l] : d \in f
  BY DEF All, Stored, Deep
<1>11. /\ \A n \in DOMAIN level0 : level0[n] \in SUBSET All
       /\ \A l \in DOMAIN levels : \A f \in levels[l] : f \in SUBSET All
  BY <1>1 DEF All, Stored, Deep, TypeInv
<1> HIDE DEF Has, hits0, hits
<1>12. ASSUME NEW src \in SUBSET All, Has(src),
              \A d \in All : d.key = k /\ d.seq <= s =>
                d \in src \/ \A a \in src : a.key = k => a.seq > d.seq
       PROVE  ValueIn(src, k, s) = Expected(k, s)
  BY <1>1, <1>12, SourceAnswers DEF Has
<1>13. CASE Has(mem)
  <2>1. \A d \in All : d \in mem \/ \A a \in mem : a.seq > d.seq
    BY <1>1, <1>10 DEF MemInv
  <2>2. mem \in SUBSET All
    BY DEF All
  <2> QED  BY <1>3, <1>12, <1>13, <2>1, <2>2
<1>14. CASE ~Has(mem) /\ Has(imm)
  <2>1. \A d \in All : d \in mem \/ d \in imm \/ \A a \in imm : a.seq > d.seq
    BY <1>1, <1>10 DEF MemInv
  <2>2. imm \in SUBSET All
    BY DEF All
  <2>3. \A d \in mem : ~(d.key = k /\ d.seq <= s)
    BY <1>4, <1>14
  <2>4. ValueIn(imm, k, s) = Expected(k, s)
    BY <1>12, <1>14, <2>1, <2>2, <2>3
  <2> QED  BY <1>3, <1>14, <2>4
<1>15. CASE ~Has(mem) /\ ~Has(imm) /\ hits0 # {}
  <2>1. PICK top \in Nat : \A n \in DOMAIN level0 : n <= top
    BY <1>1 DEF TypeInv
  <2>2. hits0 \in SUBSET Nat /\ \A n \in hits0 : n <= top
    BY <1>5, <1>9, <2>1
  <2>3. Max(hits0) \in hits0 /\ \A n \in hits0 : n <= Max(hits0)
    BY <1>15, <2>2, MaxOfNats
  <2>4. PICK n : n = Max(hits0)
    OBVIOUS
  <2>5. n \in DOMAIN level0 /\ Has(level0[n]) /\ n \in Nat
    BY <1>5, <1>9, <2>3, <2>4
  <2>6. ASSUME NEW d \in All, d.key = k, d.seq <= s
        PROVE  d \in level0[n] \/ \A a \in level0[n] : a.key = k => a.seq > d.seq
    <3>1. d \notin mem /\ d \notin imm
      BY <1>4, <1>15, <2>6
    <3>2. ASSUME NEW m \in DOMAIN level0, d \in level0[m]
          PROVE  d \in level0[n] \/ \A a \in level0[n] : a.key = k => a.seq > d.seq
      <4>1. m <= n /\ m \in Nat
        BY <1>4, <1>5, <1>9, <2>3, <2>4, <2>6, <3>2
      <4>2. m = n \/ m < n
        BY <2>5, <4>1, SMT
      <4>3. CASE m < n
        BY <1>1, <2>5, <2>6, <3>2, <4>3 DEF OrderInv, Newer
      <4> QED  BY <3>2, <4>2, <4>3
    <3>3. ASSUME NEW l \in DOMAIN levels, NEW f \in levels[l], d \in f
          PROVE  \A a \in level0[n] : a.key = k => a.seq > d.seq
      <4>1. d \in Deep(l)
        BY <3>3 DEF Deep
      <4> QED  BY <1>1, <2>5, <2>6, <4>1 DEF OrderInv, Newer
    <3> QED  BY <1>10, <3>1, <3>2, <3>3
  <2>7. ValueIn(level0[n], k, s) = Expected(k, s)
    BY <1>11, <1>12, <2>5, <2>6
  <2> QED  BY <1>3, <1>15, <2>4, <2>7
<1>16. ASSUME ~Has(mem), ~Has(imm), hits0 = {}, NEW d \in All, d.key = k, d.seq <= s
       PROVE  \E l \in hits : d \in LevelFile(l, k, s)
  <2>1. d \notin mem /\ d \notin imm /\ \A n \in DOMAIN level0 : d \notin level0[n]
    BY <1>4, <1>5, <1>16
  <2>2. PICK l \in DOMAIN levels : \E f \in levels[l] : d \in f
    BY <1>10, <2>1
  <2>3. PICK f \in levels[l] : d \in f
    BY <2>2
  <2>4. Has(f)
    BY <1>4, <1>16, <2>3
  <2>5. LevelFile(l, k, s) = f
    BY <1>7, <2>4
  <2> QED  BY <1>6, <2>3, <2>4, <2>5
<1>17. CASE ~Has(mem) /\ ~Has(imm) /\ hits0 = {} /\ hits # {}
  <2>1. hits \in SUBSET Nat
    BY <1>6, <1>9
  <2>2. Min(hits) \in hits /\ \A l \in hits : Min(hits) <= l
    BY <1>17, <2>1, MinOfNats
  <2>3. PICK l : l = Min(hits)
    OBVIOUS
  <2>4. PICK f : f = LevelFile(l, k, s)
    OBVIOUS
  <2>5. l \in DOMAIN levels /\ f \in levels[l] /\ Has(f) /\ l \in Nat
    BY <1>6, <1>7, <1>8, <2>1, <2>2, <2>3, <2>4
  <2>6. ASSUME NEW d \in All, d.key = k, d.seq <= s
        PROVE  d \in f \/ \A a \in f : a.key = k => a.seq > d.seq
    <3>1. PICK j \in hits : d \in LevelFile(j, k, s)
      BY <1>16, <1>17, <2>6
    <3>2. j \in DOMAIN levels /\ j \in Nat /\ l <= j /\ d \in Deep(j)
      BY <1>6, <1>7, <2>1, <2>2, <2>3, <3>1 DEF Deep
    <3>3. j = l \/ l < j
      BY <2>5, <3>2, SMT
    <3>4. CASE l < j
      <4>1. \A a \in f : a \in Deep(l)
        BY <2>5 DEF Deep
      <4> QED  BY <1>1, <2>5, <2>6, <3>2, <3>4, <4>1 DEF OrderInv, Newer
    <3> QED  BY <2>4, <3>1, <3>3, <3>4
  <2>7. ValueIn(f, k, s) = Expected(k, s)
    BY <1>11, <1>12, <2>5, <2>6
  <2> QED  BY <1>3, <1>17, <2>3, <2>4, <2>7
<1>18. CASE ~Has(mem) /\ ~Has(imm) /\ hits0 = {} /\ hits = {}
  <2>1. \A d \in All : ~(d.key = k /\ d.seq <= s)
    BY <1>16, <1>18
  <2>2. Expected(k, s) = 0
    BY <1>1, <2>1, NoSource
  <2> QED  BY <1>3, <1>18, <2>2
<1> QED  BY <1>13, <1>14, <1>15, <1>17, <1>18

\* The invariant orders the sources a read looks at, and keeps the files of a level disjoint.
LEMMA OrderFromInv ==
  ASSUME LsmInv
  PROVE  NewerAbove /\ LevelsDisjoint
<1>1. TypeInv /\ SortedInv /\ MemInv /\ OrderInv
  BY DEF LsmInv
<1>2. /\ \A n \in DOMAIN level0 : \A b \in level0[n] : b \in Stored
      /\ \A l \in DOMAIN levels : \A b \in Deep(l) : b \in Stored
  BY <1>1 DEF Stored, Deep, TypeInv
<1>3. NewerAbove
  BY <1>1, <1>2 DEF NewerAbove, MemInv, OrderInv, Newer
<1>4. LevelsDisjoint
  <2> SUFFICES ASSUME NEW l \in DOMAIN levels, NEW f \in levels[l], NEW g \in levels[l], f # g
               PROVE  Before(Largest(f), Smallest(g)) \/ Before(Largest(g), Smallest(f))
    BY DEF LevelsDisjoint
  <2>1. \A h \in levels[l] : Largest(h) \in h /\ Smallest(h) \in h
    BY <1>1, EndKeys DEF TypeInv
  <2>2. Below(f, g) \/ Below(g, f)
    BY <1>1 DEF SortedInv, Apart
  <2> QED  BY <2>1, <2>2 DEF Below, Before
<1> QED  BY <1>3, <1>4

-----------------------------------------------------------------------------
(* The theorems.                                                           *)

\* The invariant holds in every state: what the choice of inputs, the merge and the nested flush
\* rely on.
THEOREM LsmInvHolds ==
  ASSUME Tame
  PROVE  Spec => []LsmInv
<1>1. Init => LsmInv
  BY InitInv
<1>2. LsmInv /\ [Next]_vars => LsmInv'
  BY NextInv
<1> QED  BY <1>1, <1>2, PTL DEF Spec

\* Version::Get and DBImpl::Get return the newest value at or below the sequence number of the
\* read, for the latest state and every live snapshot, whatever was flushed, moved or dropped.
THEOREM ReadsCorrectHolds ==
  ASSUME Tame
  PROVE  Spec => []ReadsCorrect
<1>1. LsmInv => ReadsCorrect
  BY ReadsFromInv
<1> QED  BY <1>1, LsmInvHolds, PTL

\* Version::Get may stop at the first source that has the key: the rest hold older entries.
THEOREM NewerAboveHolds ==
  ASSUME Tame
  PROVE  Spec => []NewerAbove
<1>1. LsmInv => NewerAbove
  BY OrderFromInv
<1> QED  BY <1>1, LsmInvHolds, PTL

\* Builder::MaybeAddFile: "Must not overlap".
THEOREM LevelsDisjointHolds ==
  ASSUME Tame
  PROVE  Spec => []LevelsDisjoint
<1>1. LsmInv => LevelsDisjoint
  BY OrderFromInv
<1> QED  BY <1>1, LsmInvHolds, PTL

-----------------------------------------------------------------------------
(* The inputs of a compaction, in every mode.                              *)

StayInv ==
  /\ mode \in Modes
  /\ DOMAIN levels = 1..(NumLevels - 1)
  /\ DOMAIN level0 \subseteq Nat
  /\ \E top \in Nat : \A n \in DOMAIN level0 : n <= top
  /\ compaction # NoCompaction =>
       /\ compaction.level \in 0..(NumLevels - 2)
       /\ compaction.in0 \subseteq Files(compaction.level)
       /\ compaction.in1 \subseteq Files(compaction.level + 1)

\* GetOverlappingInputs, and what is made of its results, are files of their levels.
LEMMA InputsAreFiles ==
  ASSUME NEW l \in 0..(NumLevels - 2)
  PROVE  /\ \A in0 \in PickCompaction(l) : in0 \subseteq Files(l)
         /\ \A begin, end : \A in0 \in CompactRange(l, begin, end) : in0 \subseteq Files(l)
         /\ \A in0 \in SUBSET Files(l) : \A inputs \in SetupOtherInputs(l, in0) :
              inputs[1] \subseteq Files(l) /\ inputs[2] \subseteq Files(l + 1)
<1>1. \A j, begin, end : GetOverlappingInputs(j, begin, end) \subseteq Files(j)
  BY DEF GetOverlappingInputs
<1>2. \A in0 \in PickCompaction(l) : in0 \subseteq Files(l)
  BY <1>1 DEF PickCompaction
<1>3. \A begin, end : \A in0 \in CompactRange(l, begin, end) : in0 \subseteq Files(l)
  BY <1>1 DEF CompactRange
<1>4. ASSUME NEW in0 \in SUBSET Files(l), NEW inputs \in SetupOtherInputs(l, in0)
      PROVE  inputs[1] \subseteq Files(l) /\ inputs[2] \subseteq Files(l + 1)
  <2>1. \/ \E b, e : inputs = <<in0, GetOverlappingInputs(l + 1, b, e)>>
        \/ \E b, e, c, d :
             inputs = <<GetOverlappingInputs(l, b, e), GetOverlappingInputs(l + 1, c, d)>>
    BY <1>4 DEF SetupOtherInputs
  <2> QED  BY <1>1, <2>1
<1> QED  BY <1>2, <1>3, <1>4

\* A flush, nested or not, leaves every file where it is.
LEMMA FlushAdds ==
  ASSUME StayInv, CompactMemTable
  PROVE  /\ DOMAIN levels' = DOMAIN levels
         /\ DOMAIN level0' \subseteq Nat
         /\ \E top \in Nat : \A n \in DOMAIN level0' : n <= top
         /\ \A j \in 0..(NumLevels - 1) : Files(j) \subseteq Files(j)'
<1>1. PICK top \in Nat : \A n \in DOMAIN level0 : n <= top
  BY DEF StayInv
<1>2. DOMAIN level0 \subseteq Nat /\ DOMAIN levels = 1..(NumLevels - 1)
  BY DEF StayInv
<1>3. NewFileNumber \in Nat /\ \A n \in DOMAIN level0 : n < NewFileNumber
  <2> DEFINE N == {0} \cup DOMAIN level0
  <2>1. N \in SUBSET Nat /\ N # {} /\ \A n \in N : n <= top
    BY <1>1, <1>2, SMT
  <2>2. Max(N) \in N /\ \A n \in N : n <= Max(N)
    BY <2>1, MaxOfNats
  <2>3. NewFileNumber = Max(N) + 1
    BY DEF NewFileNumber
  <2>4. Max(N) \in Nat /\ \A n \in DOMAIN level0 : n <= Max(N)
    BY <2>1, <2>2
  <2> HIDE DEF N
  <2> QED  BY <1>2, <2>3, <2>4, SMT
<1>4. PICK l \in MemTableOutputLevels(imm) :
        IF l = 0
        THEN /\ level0' = [n \in DOMAIN level0 \cup {NewFileNumber} |->
                             IF n = NewFileNumber THEN imm ELSE level0[n]]
             /\ UNCHANGED levels
        ELSE levels' = [levels EXCEPT ![l] = @ \cup {imm}] /\ UNCHANGED level0
  BY DEF CompactMemTable
<1>5. CASE l = 0
  <2>1. /\ DOMAIN level0' = DOMAIN level0 \cup {NewFileNumber} /\ UNCHANGED levels
        /\ \A n \in DOMAIN level0 : n # NewFileNumber => level0'[n] = level0[n]
    BY <1>4, <1>5
  <2>2. \A n \in DOMAIN level0 : n # NewFileNumber
    BY <1>2, <1>3, SMT
  <2>3. \A n \in DOMAIN level0' : n \in Nat /\ n <= NewFileNumber
    BY <1>2, <1>3, <2>1, SMT
  <2>4. \A j \in 0..(NumLevels - 1) : Files(j) \subseteq Files(j)'
    BY <2>1, <2>2 DEF Files
  <2> QED  BY <1>3, <2>1, <2>3, <2>4
<1>6. CASE l # 0
  <2>1. /\ UNCHANGED level0 /\ DOMAIN levels' = DOMAIN levels
        /\ \A j \in DOMAIN levels : levels[j] \subseteq levels'[j]
    BY <1>4, <1>6
  <2>2. \A j \in 0..(NumLevels - 1) : j = 0 \/ j \in DOMAIN levels
    <3>1. NumLevels \in Nat
      BY LsmAssumption DEF StayInv, Mode, NumLevels
    <3> QED  BY <1>2, <3>1, SMT
  <2>3. \A j \in 0..(NumLevels - 1) : Files(j) \subseteq Files(j)'
    BY <2>1, <2>2 DEF Files
  <2> QED  BY <1>1, <1>2, <2>1, <2>3
<1> QED  BY <1>5, <1>6

\* Every step keeps the inputs of a running compaction, and only one runs at a time.
LEMMA StayStep ==
  ASSUME StayInv, [Next]_vars
  PROVE  StayInv'
<1>1. NumLevels \in Nat
  BY LsmAssumption DEF StayInv, Mode, NumLevels
<1>2. ASSUME UNCHANGED <<level0, levels, compaction, mode>>
      PROVE  StayInv'
  <2>1. NumLevels' = NumLevels /\ \A j : Files(j)' = Files(j)
    BY <1>2 DEF NumLevels, Files
  <2> QED  BY <1>2, <2>1 DEF StayInv
<1>3. ASSUME NEW l \in 0..(NumLevels - 2), NEW inputs, StartWork(l, inputs),
             inputs[1] \subseteq Files(l), inputs[2] \subseteq Files(l + 1)
      PROVE  StayInv'
  <2>1. /\ compaction'.level = l /\ compaction'.in0 = inputs[1] /\ compaction'.in1 = inputs[2]
        /\ UNCHANGED <<level0, levels, mode>>
    BY <1>3 DEF StartWork
  <2>2. NumLevels' = NumLevels /\ \A j : Files(j)' = Files(j)
    BY <2>1 DEF NumLevels, Files
  <2> QED  BY <1>3, <2>1, <2>2 DEF StayInv
<1>4. ASSUME compaction' = NoCompaction, UNCHANGED mode, DOMAIN levels' = DOMAIN levels,
             DOMAIN level0' \subseteq DOMAIN level0
      PROVE  StayInv'
  BY <1>4 DEF StayInv, NumLevels
<1>5. CASE \E k \in Keys, del \in BOOLEAN : Write(k, del)
  BY <1>2, <1>5 DEF Write
<1>6. CASE SwitchMemTable
  BY <1>2, <1>6 DEF SwitchMemTable
<1>7. CASE GetSnapshot \/ \E s \in snapshots : ReleaseSnapshot(s)
  BY <1>2, <1>7 DEF GetSnapshot, ReleaseSnapshot
<1>8. CASE CompactMemTable
  <2>1. UNCHANGED <<compaction, mode>> /\ NumLevels' = NumLevels
    BY <1>8 DEF CompactMemTable, NumLevels
  <2>2. /\ DOMAIN levels' = DOMAIN levels
        /\ DOMAIN level0' \subseteq Nat
        /\ \E top \in Nat : \A n \in DOMAIN level0' : n <= top
        /\ \A j \in 0..(NumLevels - 1) : Files(j) \subseteq Files(j)'
    BY <1>8, FlushAdds
  <2>3. ASSUME compaction # NoCompaction
        PROVE  /\ compaction.level \in 0..(NumLevels - 2)
               /\ compaction.in0 \subseteq Files(compaction.level)'
               /\ compaction.in1 \subseteq Files(compaction.level + 1)'
    <3>1. PICK L : L = compaction.level
      OBVIOUS
    <3>2. /\ L \in 0..(NumLevels - 2)
          /\ compaction.in0 \subseteq Files(L) /\ compaction.in1 \subseteq Files(L + 1)
      BY <2>3, <3>1 DEF StayInv
    <3>3. L \in 0..(NumLevels - 1) /\ L + 1 \in 0..(NumLevels - 1)
      BY <1>1, <3>2, SMT
    <3>4. compaction.in0 \subseteq Files(L)' /\ compaction.in1 \subseteq Files(L + 1)'
      BY <2>2, <3>2, <3>3
    <3> QED  BY <2>1, <3>1, <3>2, <3>4
  <2> QED  BY <2>1, <2>2, <2>3 DEF StayInv
<1>9. ASSUME NEW l \in 0..(NumLevels - 2), StartCompaction(l) \/ StartManualCompaction(l)
      PROVE  StayInv'
  <2>1. PICK in0 \in SUBSET Files(l) : \E inputs \in SetupOtherInputs(l, in0) : StartWork(l, inputs)
    BY <1>9, InputsAreFiles DEF StartCompaction, StartManualCompaction
  <2>2. PICK inputs \in SetupOtherInputs(l, in0) : StartWork(l, inputs)
    BY <2>1
  <2> QED  BY <1>3, <2>2, InputsAreFiles
<1>10. ASSUME NEW l \in 0..(NumLevels - 2), TrivialMove(l)
       PROVE  StayInv'
  BY <1>4, <1>10 DEF TrivialMove, MayCompact, RemoveInputs
<1>11. CASE FinishCompaction
  BY <1>4, <1>11 DEF FinishCompaction, RemoveInputs
<1>12. CASE UNCHANGED vars
  BY <1>2, <1>12 DEF vars
<1> QED  BY <1>5, <1>6, <1>7, <1>8, <1>9, <1>10, <1>11, <1>12 DEF Next

\* DoCompactionWork deletes its inputs from a version that still has them, whatever the flushes
\* inside it added: VersionEdit::DeleteFile names files of the current version.  In every mode.
THEOREM InputsStayHolds ==
  Spec => []InputsStay
<1>1. Init => StayInv
  <2> SUFFICES ASSUME Init PROVE StayInv
    OBVIOUS
  <2>1. DOMAIN level0 = {}
    BY SMT DEF Init
  <2> QED  BY <2>1 DEF Init, StayInv
<1>2. StayInv /\ [Next]_vars => StayInv'
  BY StayStep
<1>3. StayInv => InputsStay
  BY DEF StayInv, InputsStay
<1> QED  BY <1>1, <1>2, <1>3, PTL DEF Spec
=============================================================================
