------------------------- MODULE WritePathTheorems --------------------------
(***************************************************************************)
(* What is proved about WritePath.  First the arithmetic of                *)
(* BuildBatchGroup, which needs cardinalities of finite sets; then the     *)
(* theorems, each from the inductive invariant it takes.                   *)
(***************************************************************************)
EXTENDS WritePathDataProofs, WritePathSyncProofs, WritePathBatchesProofs,
        FiniteSetTheorems, FunctionTheorems

\* Most leaves are first-order reasoning about sets and functions: Zenon tries them
\* first. The leaves that need arithmetic name the SMT solver.
USE Zenon, SMTT(20)

-----------------------------------------------------------------------------
(* BuildBatchGroup.                                                        *)

\* A group has finitely many entries.
LEMMA CellsFinite ==
  ASSUME WriterTypes, NEW k \in 1..Len(writers)
  PROVE  IsFiniteSet(Cells(k))
<1> DEFINE Row(i) == {<<i, j>> : j \in 1..call[writers[i]].count}
           Rows == {Row(i) : i \in 1..k}
           f == [i \in 1..k |-> Row(i)]
<1>1. \A i \in 1..k : IsFiniteSet(Row(i))
  <2> SUFFICES ASSUME NEW i \in 1..k PROVE IsFiniteSet(Row(i))
    OBVIOUS
  <2>1. call[writers[i]].count \in Nat
    BY SMT DEF WriterTypes, CallRecords
  <2>2. IsFiniteSet({i} \X (1..call[writers[i]].count))
    <3>1. IsFiniteSet({i})
      BY FS_Singleton
    <3>2. \A n \in Nat : IsFiniteSet(1..n)
      BY FS_Interval, SMTT(20)
    <3> QED
      BY <2>1, <3>1, <3>2, FS_Product
  <2>3. Row(i) \in SUBSET ({i} \X (1..call[writers[i]].count))
    BY SMT
  <2> QED
    BY <2>2, <2>3, FS_Subset
<1>2. IsFiniteSet(1..k)
  BY FS_Interval, SMTT(20)
<1>3. f \in Surjection(1..k, Rows)
  BY DEF Surjection
<1>4. IsFiniteSet(Rows)
  BY <1>2, <1>3, FS_Surjection, SMTT(20)
<1>5. \A T \in Rows : IsFiniteSet(T)
  BY <1>1
<1>6. IsFiniteSet(UNION Rows)
  BY <1>4, <1>5, FS_UNION
<1> QED
  BY <1>6 DEF Cells

\* BuildBatchGroup numbers the entries of a group with naturals.
LEMMA GroupTypes ==
  ASSUME WriterTypes, DataTypes, NEW k \in 1..Len(writers)
  PROVE  /\ GroupEntries(k) \in SUBSET Entries
         /\ lastSequence + Cardinality(Cells(k)) \in Nat
<1>1. Cardinality(Cells(k)) \in Nat
  BY CellsFinite, FS_CardinalityType
<1>2. ASSUME NEW c \in Cells(k) PROVE Rank(k, c) \in Nat
  <2> DEFINE upTo == {d \in Cells(k) : d[1] < c[1] \/ (d[1] = c[1] /\ d[2] <= c[2])}
  <2>1. upTo \in SUBSET Cells(k)
    OBVIOUS
  <2>2. IsFiniteSet(upTo)
    BY <2>1, CellsFinite, FS_Subset
  <2> QED
    BY <2>2, FS_CardinalityType DEF Rank
<1>3. ASSUME NEW c \in Cells(k)
      PROVE  call[writers[c[1]]].id \in Nat
  <2>1. c[1] \in 1..k
    BY SMTT(20) DEF Cells
  <2> QED
    BY <2>1, SMTT(20) DEF WriterTypes, CallRecords
<1>4. ASSUME NEW c \in Cells(k) PROVE lastSequence + Rank(k, c) \in Nat
  BY <1>2, <1>4, SMTT(20) DEF DataTypes
<1>5. lastSequence + Cardinality(Cells(k)) \in Nat
  BY <1>1, SMTT(20) DEF DataTypes
<1> HIDE DEF Cells, Rank
<1> QED
  BY <1>3, <1>4, <1>5, SMTT(20) DEF GroupEntries, Entries

\* The entries of a group get sequence numbers above LastSequence.
LEMMA GroupAbove ==
  ASSUME WriterTypes, DataTypes, NEW k \in 1..Len(writers)
  PROVE  /\ \A e \in GroupEntries(k) : e.seq > lastSequence
         /\ lastSequence + Cardinality(Cells(k)) >= lastSequence
<1>1. Cardinality(Cells(k)) \in Nat /\ lastSequence \in Nat
  BY CellsFinite, FS_CardinalityType DEF DataTypes
<1>2. ASSUME NEW c \in Cells(k) PROVE lastSequence + Rank(k, c) > lastSequence
  <2> DEFINE upTo == {d \in Cells(k) : d[1] < c[1] \/ (d[1] = c[1] /\ d[2] <= c[2])}
  <2>1. c[2] <= c[2]
    BY SMTT(20) DEF Cells
  <2>2. c \in upTo /\ upTo \in SUBSET Cells(k)
    BY <2>1
  <2>3. IsFiniteSet(upTo)
    BY <2>2, CellsFinite, FS_Subset
  <2>4. Cardinality(upTo) \in Nat /\ Cardinality(upTo) # 0
    BY <2>2, <2>3, FS_CardinalityType, FS_EmptySet
  <2>5. Rank(k, c) = Cardinality(upTo)
    BY DEF Rank
  <2> QED
    BY <1>1, <2>4, <2>5, SMTT(20)
<1> HIDE DEF Cells, Rank
<1>3. \A e \in GroupEntries(k) : \E c \in Cells(k) : e.seq = lastSequence + Rank(k, c)
  BY SMT DEF GroupEntries
<1> QED
  BY <1>1, <1>2, <1>3, SMTT(20)

\* Two batch entries of a group that get the same rank are the same entry, and
\* no rank exceeds the size of the group.
LEMMA RankInjective ==
  ASSUME WriterTypes, NEW k \in 1..Len(writers), NEW c \in Cells(k), NEW d \in Cells(k)
  PROVE  /\ Rank(k, c) \in Nat /\ Rank(k, c) <= Cardinality(Cells(k))
         /\ Rank(k, c) = Rank(k, d) => c = d
<1> DEFINE UpTo(x) == {y \in Cells(k) : y[1] < x[1] \/ (y[1] = x[1] /\ y[2] <= x[2])}
<1>1. \A x \in Cells(k) : x \in Int \X Int /\ x = <<x[1], x[2]>>
  BY SMTT(20) DEF Cells
<1>2. \A x : Rank(k, x) = Cardinality(UpTo(x))
  BY DEF Rank
<1>3. IsFiniteSet(Cells(k))
  BY CellsFinite
<1> HIDE DEF Cells
<1>4. \A x : UpTo(x) \in SUBSET Cells(k)
  OBVIOUS
<1>5. \A x : IsFiniteSet(UpTo(x)) /\ Cardinality(UpTo(x)) <= Cardinality(Cells(k))
  BY <1>3, <1>4, FS_Subset
<1>6. \A x : Cardinality(UpTo(x)) \in Nat
  BY <1>5, FS_CardinalityType
<1>7. ASSUME NEW x \in Cells(k), NEW y \in Cells(k), UpTo(x) \in SUBSET UpTo(y),
             Cardinality(UpTo(x)) = Cardinality(UpTo(y))
      PROVE  x = y
  <2>1. UpTo(x) = UpTo(y)
    BY <1>5, <1>7, FS_Subset
  <2>2. x \in UpTo(y) /\ y \in UpTo(x)
    BY <1>1, <2>1, SMTT(20)
  <2>3. x[1] = y[1] /\ x[2] = y[2]
    BY <1>1, <2>2, SMTT(20)
  <2> QED
    BY <1>1, <2>3
<1>8. UpTo(c) \in SUBSET UpTo(d) \/ UpTo(d) \in SUBSET UpTo(c)
  <2>1. CASE c[1] < d[1] \/ (c[1] = d[1] /\ c[2] <= d[2])
    BY <1>1, <2>1, SMTT(20)
  <2>2. CASE d[1] < c[1] \/ (c[1] = d[1] /\ d[2] <= c[2])
    BY <1>1, <2>2, SMTT(20)
  <2> QED
    BY <1>1, <2>1, <2>2, SMTT(20)
<1>9. Cardinality(UpTo(c)) = Cardinality(UpTo(d)) => c = d
  BY <1>7, <1>8
<1> HIDE DEF UpTo
<1> QED
  BY <1>2, <1>5, <1>6, <1>9

\* BuildBatchGroup gives every entry of a group a number of its own, up to the
\* LastSequence it will publish.
LEMMA GroupNumbered ==
  ASSUME WriterTypes, DataTypes, NEW k \in 1..Len(writers)
  PROVE  /\ \A e \in GroupEntries(k) : e.seq <= lastSequence + Cardinality(Cells(k))
         /\ \A e, f \in GroupEntries(k) : e.seq = f.seq => e = f
<1>1. lastSequence \in Nat /\ Cardinality(Cells(k)) \in Nat
  BY CellsFinite, FS_CardinalityType DEF DataTypes
<1>2. \A c, d \in Cells(k) : /\ Rank(k, c) \in Nat /\ Rank(k, c) <= Cardinality(Cells(k))
                             /\ Rank(k, c) = Rank(k, d) => c = d
  BY RankInjective
<1> HIDE DEF Cells, Rank
<1>3. \A e \in GroupEntries(k) : \E c \in Cells(k) :
        e = [seq |-> lastSequence + Rank(k, c), op |-> call[writers[c[1]]].id]
  BY DEF GroupEntries
<1>4. ASSUME NEW e \in GroupEntries(k), NEW f \in GroupEntries(k), e.seq = f.seq
      PROVE  e = f
  <2>1. PICK c \in Cells(k) :
          e = [seq |-> lastSequence + Rank(k, c), op |-> call[writers[c[1]]].id]
    BY <1>3
  <2>2. PICK d \in Cells(k) :
          f = [seq |-> lastSequence + Rank(k, d), op |-> call[writers[d[1]]].id]
    BY <1>3
  <2>3. lastSequence + Rank(k, c) = lastSequence + Rank(k, d)
    BY <1>4, <2>1, <2>2
  <2>4. c = d
    BY <1>1, <1>2, <2>3, SMTT(20)
  <2> QED
    BY <2>1, <2>2, <2>4
<1>5. ASSUME NEW e \in GroupEntries(k) PROVE e.seq <= lastSequence + Cardinality(Cells(k))
  <2>1. PICK c \in Cells(k) : e.seq = lastSequence + Rank(k, c)
    BY <1>3, SMTT(20)
  <2> QED
    BY <1>1, <1>2, <2>1, SMTT(20)
<1> QED
  BY <1>4, <1>5

\* An entry of an earlier batch of the group has a smaller rank.
LEMMA RankOrdered ==
  ASSUME WriterTypes, NEW k \in 1..Len(writers), NEW c \in Cells(k), NEW d \in Cells(k),
         c[1] < d[1]
  PROVE  Rank(k, c) < Rank(k, d)
<1> DEFINE UpTo(x) == {y \in Cells(k) : y[1] < x[1] \/ (y[1] = x[1] /\ y[2] <= x[2])}
<1>1. \A x \in Cells(k) : x \in Int \X Int /\ x = <<x[1], x[2]>>
  BY SMT DEF Cells
<1>2. \A x : Rank(k, x) = Cardinality(UpTo(x))
  BY DEF Rank
<1>3. IsFiniteSet(Cells(k))
  BY CellsFinite
<1> HIDE DEF Cells
<1>4. UpTo(c) \in SUBSET UpTo(d) /\ UpTo(d) \in SUBSET Cells(k)
  BY <1>1, SMTT(20)
<1>5. Cardinality(UpTo(c)) <= Cardinality(UpTo(d))
  BY <1>3, <1>4, FS_Subset
<1>6. Rank(k, c) \in Nat /\ Rank(k, d) \in Nat /\ Rank(k, c) # Rank(k, d)
  BY <1>1, RankInjective, SMTT(20)
<1> HIDE DEF UpTo
<1> QED
  BY <1>2, <1>5, <1>6, SMTT(20)

\* A group has as many entries of each of its calls as the batch of the call,
\* numbered in the order of the calls.
LEMMA GroupCounts ==
  ASSUME WriterTypes, DataTypes, NEW k \in 1..Len(writers),
         \A i, j \in Places : i < j => call[writers[i]].id < call[writers[j]].id
  PROVE  /\ \A i \in 1..k :
              Cardinality(Of(call[writers[i]], GroupEntries(k))) = call[writers[i]].count
         /\ \A e, f \in GroupEntries(k) : e.op < f.op => e.seq < f.seq
<1> DEFINE Id(i) == call[writers[i]].id
           Count(i) == call[writers[i]].count
           Entry(c) == [seq |-> lastSequence + Rank(k, c), op |-> Id(c[1])]
<1>1. \A i \in 1..k : i \in Places /\ i \in Nat /\ Id(i) \in Nat /\ Count(i) \in Nat
  BY SMTT(20) DEF WriterTypes, CallRecords, Places
<1>2. \A i, j \in 1..k : i < j => Id(i) < Id(j)
  BY <1>1
<1>3. \A i, j \in 1..k : Id(i) = Id(j) => i = j
  BY <1>1, <1>2, SMTT(20)
<1>4. /\ \A c \in Cells(k) : c[1] \in 1..k /\ c[2] \in 1..Count(c[1]) /\ c = <<c[1], c[2]>>
      /\ \A i \in 1..k : \A j \in 1..Count(i) : <<i, j>> \in Cells(k)
  BY SMT DEF Cells
<1>5. \A e : e \in GroupEntries(k) <=> \E c \in Cells(k) : e = Entry(c)
  BY DEF GroupEntries
<1>6. lastSequence \in Nat
  BY DEF DataTypes
<1>7. \A c, d \in Cells(k) : /\ Rank(k, c) \in Nat
                             /\ Rank(k, c) = Rank(k, d) => c = d
                             /\ c[1] < d[1] => Rank(k, c) < Rank(k, d)
  BY RankInjective, RankOrdered
<1> HIDE DEF Id, Count
<1>8. ASSUME NEW i \in 1..k
      PROVE  Cardinality(Of(call[writers[i]], GroupEntries(k))) = Count(i)
  <2> DEFINE S == Of(call[writers[i]], GroupEntries(k))
             f == [j \in 1..Count(i) |-> Entry(<<i, j>>)]
  <2>1. \A e : e \in S <=> \E c \in Cells(k) : e = Entry(c) /\ c[1] = i
    <3>1. \A e : e \in S <=> e \in GroupEntries(k) /\ e.op = Id(i)
      BY DEF Of, Id
    <3>2. \A c \in Cells(k) : Entry(c).op = Id(i) <=> c[1] = i
      BY <1>3, <1>4
    <3> QED
      BY <1>5, <3>1, <3>2
  <2>2. \A j \in 1..Count(i) : <<i, j>> \in Cells(k) /\ <<i, j>>[1] = i /\ f[j] = Entry(<<i, j>>)
    BY <1>4
  <2>3. f \in [1..Count(i) -> S]
    BY <2>1, <2>2
  <2>4. \A a, b \in 1..Count(i) : f[a] = f[b] => a = b
    <3> SUFFICES ASSUME NEW a \in 1..Count(i), NEW b \in 1..Count(i), f[a] = f[b]
                 PROVE  a = b
      OBVIOUS
    <3>1. lastSequence + Rank(k, <<i, a>>) = lastSequence + Rank(k, <<i, b>>)
      BY <2>2
    <3>2. <<i, a>> = <<i, b>>
      BY <1>6, <1>7, <2>2, <3>1, SMTT(20)
    <3> QED
      BY <3>2
  <2>5. \A e \in S : \E j \in 1..Count(i) : f[j] = e
    <3> SUFFICES ASSUME NEW e \in S PROVE \E j \in 1..Count(i) : f[j] = e
      OBVIOUS
    <3>1. PICK c \in Cells(k) : e = Entry(c) /\ c[1] = i
      BY <2>1
    <3>2. c[2] \in 1..Count(i) /\ c = <<i, c[2]>>
      BY <1>4, <3>1
    <3>3. f[c[2]] = e
      BY <2>2, <3>1, <3>2
    <3> QED
      BY <3>2, <3>3
  <2> HIDE DEF S, f
  <2>6. ExistsBijection(1..Count(i), S)
    BY <2>3, <2>4, <2>5, Fun_IsBij DEF ExistsBijection
  <2>7. IsFiniteSet(1..Count(i)) /\ Cardinality(1..Count(i)) = Count(i)
    <3>1. PICK n \in Nat : n = Count(i)
      BY <1>1
    <3>2. IsFiniteSet(1..n) /\ Cardinality(1..n) = IF 1 > n THEN 0 ELSE n - 1 + 1
      BY FS_Interval, SMTT(20)
    <3> QED
      BY <3>1, <3>2, SMTT(20)
  <2> QED
    BY <2>6, <2>7, FS_Bijection DEF S
<1>9. ASSUME NEW e \in GroupEntries(k), NEW f \in GroupEntries(k), e.op < f.op
      PROVE  e.seq < f.seq
  <2>1. PICK c \in Cells(k) : e = Entry(c)
    BY <1>5
  <2>2. PICK d \in Cells(k) : f = Entry(d)
    BY <1>5
  <2>3. Id(c[1]) < Id(d[1]) /\ c[1] \in 1..k /\ d[1] \in 1..k
    BY <1>4, <1>9, <2>1, <2>2
  <2>4. c[1] < d[1]
    <3>1. Id(c[1]) \in Nat /\ Id(d[1]) \in Nat /\ c[1] \in Int /\ d[1] \in Int
      BY <1>1, <2>3, SMTT(20)
    <3>2. d[1] < c[1] => Id(d[1]) < Id(c[1])
      BY <1>2, <2>3
    <3>3. ~(Id(d[1]) < Id(c[1])) /\ Id(c[1]) # Id(d[1])
      BY <2>3, <3>1, SMTT(20)
    <3>4. c[1] # d[1]
      BY <3>3
    <3> QED
      BY <3>1, <3>2, <3>3, <3>4, SMTT(20)
  <2> QED
    BY <1>6, <1>7, <2>1, <2>2, <2>4, SMTT(20)
<1> QED
  BY <1>8, <1>9 DEF Count

\* So BuildBatchGroup computes what the step lemmas rely on.
LEMMA GroupFactsHold ==
  ASSUME TypeInv
  PROVE  GroupFacts
<1>1. WriterTypes /\ DataTypes
  BY DEF TypeInv, DataInv
<1>2. Cardinality({}) = 0
  BY FS_EmptySet
<1> SUFFICES ASSUME NEW k \in 1..Len(writers)
             PROVE  /\ GroupEntries(k) \in SUBSET Entries
                    /\ lastSequence + Cardinality(Cells(k)) \in Nat
                    /\ lastSequence + Cardinality(Cells(k)) >= lastSequence
                    /\ \A e \in GroupEntries(k) :
                         e.seq > lastSequence /\ e.seq <= lastSequence + Cardinality(Cells(k))
                    /\ \A e, f \in GroupEntries(k) : e.seq = f.seq => e = f
                    /\ (\A i, j \in Places : i < j => call[writers[i]].id < call[writers[j]].id) =>
                         /\ \A i \in 1..k :
                              Cardinality(Of(call[writers[i]], GroupEntries(k)))
                                = call[writers[i]].count
                         /\ \A e, f \in GroupEntries(k) : e.op < f.op => e.seq < f.seq
  BY <1>2 DEF GroupFacts, Places
<1>3. /\ GroupEntries(k) \in SUBSET Entries
      /\ lastSequence + Cardinality(Cells(k)) \in Nat
  BY <1>1, GroupTypes
<1>4. /\ \A e \in GroupEntries(k) : e.seq > lastSequence
      /\ lastSequence + Cardinality(Cells(k)) >= lastSequence
  BY <1>1, GroupAbove
<1>5. /\ \A e \in GroupEntries(k) : e.seq <= lastSequence + Cardinality(Cells(k))
      /\ \A e, f \in GroupEntries(k) : e.seq = f.seq => e = f
  BY <1>1, GroupNumbered
<1>6. ASSUME \A i, j \in Places : i < j => call[writers[i]].id < call[writers[j]].id
      PROVE  /\ \A i \in 1..k :
                  Cardinality(Of(call[writers[i]], GroupEntries(k))) = call[writers[i]].count
             /\ \A e, f \in GroupEntries(k) : e.op < f.op => e.seq < f.seq
  BY <1>1, <1>6, GroupCounts
<1> QED
  BY <1>3, <1>4, <1>5, <1>6

-----------------------------------------------------------------------------
(* Theorems.                                                               *)

\* The types hold in every reachable state.
THEOREM TypeCorrect == Spec => []TypeOK
<1>1. Init => TypeInv
  BY TypeInvInit
<1>2. TypeInv /\ [Next]_vars => TypeInv'
  BY TypeInvNext, GroupFactsHold
<1>3. TypeInv => TypeOK
  BY DEF TypeInv, TypeOK, DataInv, BgInv
<1> QED
  BY <1>1, <1>2, <1>3, PTL DEF Spec

\* The queue of DBImpl::Write is always in order.
LEMMA QueueAlways == Spec => [](TypeInv /\ QueueInv)
<1>1. Init => TypeInv /\ QueueInv
  BY TypeInvInit, QueueInit
<1>2. TypeInv /\ QueueInv /\ [Next]_vars => (TypeInv /\ QueueInv)'
  BY TypeInvNext, GroupFactsHold, QueueNext
<1> QED
  BY <1>1, <1>2, PTL DEF Spec

\* At most one thread is past the wait for its turn in Write, and it is the
\* front of the queue.
THEOREM OneLeaderHolds == Spec => []OneLeader
BY QueueAlways, QueueFacts, PTL

\* A writer asleep on its condition variable will still be signalled.
THEOREM NoLostWakeupHolds == Spec => []NoLostWakeup
BY QueueAlways, QueueFacts, PTL

\* The pop loop of Write meets last_writer before the queue runs empty.
THEOREM PopStopsHolds == Spec => []PopStops
BY QueueAlways, QueueFacts, PTL

\* Whoever waits on bg_cv_ waits for a background call that is scheduled or
\* runs.
THEOREM BgWaitersServedHolds == Spec => []BgWaitersServed
<1>1. Init => TypeInv /\ ScheduleInv
  BY TypeInvInit, ScheduleInit
<1>2. TypeInv /\ ScheduleInv /\ [Next]_vars => (TypeInv /\ ScheduleInv)'
  BY TypeInvNext, GroupFactsHold, ScheduleNext
<1>3. ScheduleInv => BgWaitersServed
  BY DEF ScheduleInv, BgWaitersServed
<1> QED
  BY <1>1, <1>2, <1>3, PTL DEF Spec

\* A manual compaction is freed under the background thread only after an error.
THEOREM FreedOnlyAfterErrorHolds == Spec => FreedOnlyAfterError
<1>1. Init => TypeInv /\ CloseInv
  BY TypeInvInit, CloseInit
<1>2. TypeInv /\ CloseInv /\ [Next]_vars => (TypeInv /\ CloseInv)'
  BY TypeInvNext, GroupFactsHold, CloseNext
<1>3. TypeInv /\ CloseInv /\ [Next]_vars => [~crashed /\ crashed' => bgError]_vars
  BY FreedStep
<1> QED
  BY <1>1, <1>2, <1>3, PTL DEF Spec, FreedOnlyAfterError

\* If none of ErrorFaults happens, a manual compaction is never freed under the
\* background thread.
THEOREM ManualNotFreedHolds ==
  ASSUME Faults \cap ErrorFaults = {}
  PROVE  Spec => []ManualNotFreed
<1> DEFINE Inv == TypeInv /\ CloseInv /\ QuietInv
<1>1. Init => Inv
  <2>1. Init => QuietInv
    BY SMTT(20) DEF Init, QuietInv, ManualNotFreed, NoLoc
  <2> QED
    BY <2>1, TypeInvInit, CloseInit
<1>2. Inv /\ [Next]_vars => Inv'
  <2>1. Inv /\ UNCHANGED vars => QuietInv'
    BY SMT DEF vars, writerVars, bgVars, QuietInv, ManualNotFreed
  <2>2. Inv /\ Next => QuietInv'
    BY NextCases, QuietCallStep, QuietOtherStep
  <2> QED
    BY <2>1, <2>2, TypeInvNext, GroupFactsHold, CloseNext
<1>3. Inv => ManualNotFreed
  BY DEF QuietInv
<1> QED
  BY <1>1, <1>2, <1>3, PTL DEF Spec

\* Every entry a reader can see is in a table or in a log that recovery reads.
THEOREM RecoverableHolds == Spec => []Recoverable
<1> DEFINE Inv == TypeInv /\ QueueInv /\ LogInv
<1>1. Init => Inv
  BY TypeInvInit, QueueInit, LogInit
<1>2. Inv /\ [Next]_vars => Inv'
  BY TypeInvNext, GroupFactsHold, QueueNext, LogNext
<1>3. Inv => Recoverable
  <2> SUFFICES ASSUME Inv, NEW e \in Visible
               PROVE  e \in tables \cup UNION {logs[n] : n \in {m \in DOMAIN logs : m >= logNumber}}
    BY DEF Recoverable
  <2>1. mem \in DOMAIN logs /\ mem >= logNumber
    BY DEF TypeInv, DataInv, LogInv
  <2>2. e \in tables \/ e \in memtable[mem] \/ (imm # 0 /\ e \in memtable[imm])
    BY DEF Visible, Store
  <2>3. \/ e \in tables \/ e \in logs[mem]
        \/ imm \in DOMAIN logs /\ imm >= logNumber /\ e \in logs[imm]
    BY <2>2 DEF LogInv
  <2> QED
    BY <2>1, <2>3
<1> QED
  BY <1>1, <1>2, <1>3, PTL DEF Spec

\* Sequence numbers are never reused, whatever append or fsync fails.
THEOREM SequencesUniqueHolds == Spec => []SequencesUnique
<1> DEFINE Inv == TypeInv /\ QueueInv /\ GroupInv /\ SeqInv
<1>1. Init => Inv
  BY TypeInvInit, QueueInit, GroupInit, SeqInit
<1>2. Inv /\ [Next]_vars => Inv'
  BY TypeInvNext, GroupFactsHold, QueueNext, GroupNext, SeqNext
<1>3. Inv => SequencesUnique
  BY DEF SeqInv
<1> QED
  BY <1>1, <1>2, <1>3, PTL DEF Spec

\* A Write with options.sync that returned OK has its entries on stable storage,
\* whoever led its group and whatever else fails.
THEOREM SyncedAckedHolds == Spec => []SyncedAcked
<1> DEFINE Inv == TypeInv /\ QueueInv /\ LogInv /\ SyncInv
<1>1. Init => Inv
  BY TypeInvInit, QueueInit, LogInit, SyncInit
<1>2. Inv /\ [Next]_vars => Inv'
  BY TypeInvNext, GroupFactsHold, QueueNext, LogNext, SyncNext
<1>3. Inv => SyncedAcked
  BY DEF SyncInv, Ready
<1> QED
  BY <1>1, <1>2, <1>3, PTL DEF Spec

\* A Get sees the database of the moment it took the mutex.
THEOREM SnapshotStableHolds == Spec => []SnapshotStable
<1> DEFINE Inv == TypeInv /\ QueueInv /\ GroupInv /\ ReadInv
<1>1. Init => Inv
  BY TypeInvInit, QueueInit, GroupInit, ReadInit
<1>2. Inv /\ [Next]_vars => Inv'
  BY TypeInvNext, GroupFactsHold, QueueNext, GroupNext, ReadNext
<1>3. Inv => SnapshotStable
  BY DEF ReadInv, SnapshotStable
<1> QED
  BY <1>1, <1>2, <1>3, PTL DEF Spec

\* After a background error the database is read-only.
THEOREM ReadOnlyAfterErrorHolds == Spec => ReadOnlyAfterError
<1> DEFINE A == bgError => bgError' /\ (~InFlight => ~InFlight' /\ Visible' = Visible)
<1>1. Init => TypeInv
  BY TypeInvInit
<1>2. TypeInv /\ [Next]_vars => TypeInv'
  BY TypeInvNext, GroupFactsHold
<1>3. TypeInv /\ [Next]_vars => [A]_vars
  BY NextCases, ErrorCallStep, ErrorOtherStep
<1> QED
  BY <1>1, <1>2, <1>3, PTL DEF Spec, ReadOnlyAfterError

\* DBImpl::Write implements AtomicBatches: readers see whole batches, in the
\* order of the calls, from the moment SetLastSequence publishes their group; a
\* call returns OK only if they see all of its batch and an error only if they
\* see none of it, whoever wrote it and whatever failed.
THEOREM AtomicOrderedBatchesHolds == Spec => AtomicOrderedBatches
<1> DEFINE Inv == TypeInv /\ QueueInv /\ LogInv /\ GroupInv /\ SeqInv /\ SyncInv /\ BatchInv
<1>1. Init => Inv
  BY TypeInvInit, QueueInit, LogInit, GroupInit, SeqInit, SyncInit, BatchInit
<1>2. Inv /\ [Next]_vars => Inv'
  BY TypeInvNext, GroupFactsHold, QueueNext, LogNext, GroupNext, SeqNext, SyncNext, BatchStep
<1>3. Init => Batches!BatchInit
  BY DEF Init, Batches!BatchInit, InWrite, Visible, Store
<1>4. Inv /\ [Next]_vars => [Batches!BatchNext]_(Batches!batchVars)
  BY GroupFactsHold, BatchStep
<1> QED
  BY <1>1, <1>2, <1>3, <1>4, PTL DEF Spec, AtomicOrderedBatches, Batches!BatchSpec
=============================================================================
