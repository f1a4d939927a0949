-------------------------- MODULE TrainingSetProof --------------------------
(* Proofs about the training set (Dataset, with the evaluation harness of    *)
(* EvalSet) and about the base weights: their directory, its receipt and the *)
(* gate (Weights).                                                           *)
EXTENDS Dataset, Weights, FiniteSetTheorems, SequenceTheorems, TLAPS

-----------------------------------------------------------------------------
(* The two lists of the harness. A uid's first row decides where it goes,    *)
(* and tiers that land later come after it.                                  *)

Tiers == 0..Len(TierRows)
Row == [uid : Uid, paper : Papers \cup {NoPaper},
        label : {"band", "solved", "collapse"}, right : 0..K]

LEMMA RowsOfTiers == TierRows \in Seq(Seq(Row))
  BY TiersAssumption DEF Row

LEMMA UidOfRow ==
  ASSUME NEW row \in Row
  PROVE  row.uid \in Uid
  BY DEF Row

LEMMA PlaceFacts ==
  ASSUME NEW n \in Tiers, NEW x \in Places(n)
  PROVE  /\ x = <<x[1], x[2]>>
         /\ x[1] \in 1..n /\ x[1] \in Nat /\ x[2] \in Nat /\ x[2] \in DOMAIN TierRows[x[1]]
         /\ RowAt(x) \in Row
<1>1. PICK t \in 1..n : x \in {t} \X DOMAIN TierRows[t]
  BY DEF Places
<1>2. n \in Nat /\ Len(TierRows) \in Nat /\ 1..n \subseteq 1..Len(TierRows)
  BY TiersAssumption DEF Tiers
<1>3. t \in DOMAIN TierRows
  BY <1>2, TiersAssumption
<1>4. TierRows[t] \in Seq(Row)
  BY <1>3, RowsOfTiers
<1>5. DOMAIN TierRows[t] = 1..Len(TierRows[t]) /\ Len(TierRows[t]) \in Nat
  BY <1>4
<1>6. x = <<x[1], x[2]>> /\ x[1] = t /\ x[2] \in DOMAIN TierRows[t]
  BY <1>1
<1>7. x[2] \in Nat /\ t \in Nat
  BY <1>2, <1>5, <1>6
<1>8. TierRows[t][x[2]] \in Row
  BY <1>4, <1>5, <1>6
<1> QED
  BY <1>6, <1>7, <1>8 DEF RowAt

\* A row read before one of the first n tiers is of these tiers.
LEMMA PlacesOrdered ==
  ASSUME NEW n \in Tiers, NEW m \in Tiers, n <= m,
         NEW x \in Places(n), NEW y \in Places(m), Before(y, x)
  PROVE  y \in Places(n)
<1>1. x[1] \in 1..n /\ y[1] \in 1..m /\ y = <<y[1], y[2]>> /\ y[2] \in DOMAIN TierRows[y[1]]
      /\ x[1] \in Nat /\ y[1] \in Nat /\ n \in Nat /\ m \in Nat
  BY PlaceFacts, TiersAssumption DEF Tiers
<1>2. y[1] <= x[1]
  BY <1>1 DEF Before
<1>3. y[1] \in 1..n
  BY <1>1, <1>2
<1> QED
  BY <1>1, <1>3 DEF Places

LEMMA PlacesGrow ==
  ASSUME NEW n \in Tiers, NEW m \in Tiers, n <= m
  PROVE  Places(n) \subseteq Places(m)
<1>1. 1..n \subseteq 1..m
  BY TiersAssumption DEF Tiers
<1> QED
  BY <1>1 DEF Places

\* What is the first row of its uid stays so.
LEMMA FirstStays ==
  ASSUME NEW n \in Tiers, NEW m \in Tiers, n <= m
  PROVE  FirstRows(n) \subseteq FirstRows(m)
<1> SUFFICES ASSUME NEW row \in FirstRows(n)
             PROVE  row \in FirstRows(m)
  OBVIOUS
<1>1. PICK y \in Places(n) : /\ row = RowAt(y)
                             /\ \A z \in Places(n) : Before(z, y) => RowAt(z).uid # RowAt(y).uid
  BY DEF FirstRows, FirstsOf, Tiers
<1>2. y \in Places(m)
  BY PlacesGrow
<1>3. \A z \in Places(m) : Before(z, y) => RowAt(z).uid # RowAt(y).uid
  BY <1>1, PlacesOrdered
<1> QED
  BY <1>1, <1>2, <1>3 DEF FirstRows, FirstsOf, Tiers

LEMMA OneFirstRow ==
  ASSUME NEW n \in Tiers, NEW a \in FirstRows(n), NEW b \in FirstRows(n), a.uid = b.uid
  PROVE  a = b
<1>1. PICK x \in Places(n) : /\ a = RowAt(x)
                             /\ \A z \in Places(n) : Before(z, x) => RowAt(z).uid # RowAt(x).uid
  BY DEF FirstRows, FirstsOf, Tiers
<1>2. PICK y \in Places(n) : /\ b = RowAt(y)
                             /\ \A z \in Places(n) : Before(z, y) => RowAt(z).uid # RowAt(y).uid
  BY DEF FirstRows, FirstsOf, Tiers
<1>3. ~Before(x, y) /\ ~Before(y, x)
  BY <1>1, <1>2
<1>4. x[1] \in Nat /\ x[2] \in Nat /\ y[1] \in Nat /\ y[2] \in Nat
      /\ x = <<x[1], x[2]>> /\ y = <<y[1], y[2]>>
  BY PlaceFacts
<1>5. x[1] = y[1] /\ x[2] = y[2]
  BY <1>3, <1>4 DEF Before
<1> QED
  BY <1>1, <1>2, <1>4, <1>5

\* The uids of the complete eval set, and those that may ever be trained on.
Held == {row.uid : row \in {r \in FirstRows(Len(TierRows)) : IsEvalPaper(r) /\ Slice(r) # "none"}}
Trainable == TrainUids(Len(TierRows)) \cup Ruled

LEMMA AllTiers == Len(TierRows) \in Tiers
  BY TiersAssumption DEF Tiers

LEMMA EvalHeld ==
  ASSUME NEW n \in Tiers
  PROVE  Uids(EvalRows(n)) \subseteq Held
<1>1. FirstRows(n) \subseteq FirstRows(Len(TierRows))
  BY AllTiers, FirstStays, TiersAssumption DEF Tiers
<1> SUFFICES ASSUME NEW e \in EvalRows(n) PROVE e.uid \in Held
  BY DEF Uids
<1>2. PICK row \in FirstRows(n) : IsEvalPaper(row) /\ Slice(row) # "none"
                                  /\ e = [uid |-> row.uid, slice |-> Slice(row)]
  BY DEF EvalRows
<1>3. e.uid = row.uid
  BY <1>2
<1> QED
  BY <1>1, <1>2, <1>3 DEF Held

LEMMA TrainTrainable ==
  ASSUME NEW n \in Tiers
  PROVE  TrainUids(n) \subseteq Trainable
<1>1. FirstRows(n) \subseteq FirstRows(Len(TierRows))
  BY AllTiers, FirstStays, TiersAssumption DEF Tiers
<1> QED
  BY <1>1 DEF TrainUids, Trainable

LEMMA FirstRowTypes ==
  ASSUME NEW row \in FirstRows(Len(TierRows))
  PROVE  /\ row.uid \in Uid
         /\ \E t \in DOMAIN TierRows : \E i \in DOMAIN TierRows[t] : row = TierRows[t][i]
<1>1. PICK x \in Places(Len(TierRows)) : row = RowAt(x)
  BY AllTiers DEF FirstRows, FirstsOf, Tiers
<1>2. x[1] \in 1..Len(TierRows) /\ x[2] \in DOMAIN TierRows[x[1]] /\ row.uid \in Uid
  BY <1>1, AllTiers, PlaceFacts, UidOfRow
<1> QED
  BY <1>1, <1>2, TiersAssumption DEF RowAt

LEMMA TrainableUids == Trainable \subseteq Uid
  BY FirstRowTypes, RuledAssumption DEF Trainable, TrainUids

\* The heart of it: nothing is on both lists.
LEMMA ListsApart == Trainable \cap Held = {}
<1> SUFFICES ASSUME NEW u \in Held, u \in Trainable PROVE FALSE
  OBVIOUS
<1>1. PICK a \in FirstRows(Len(TierRows)) : a.uid = u /\ IsEvalPaper(a)
  BY DEF Held
<1>2. ASSUME u \in TrainUids(Len(TierRows)) PROVE FALSE
  <2>1. PICK b \in FirstRows(Len(TierRows)) : b.uid = u /\ ~IsEvalPaper(b)
    BY <1>2 DEF TrainUids
  <2> QED
    BY <1>1, <2>1, AllTiers, OneFirstRow
<1>3. ASSUME u \in Ruled PROVE FALSE
  <2>1. a.paper \in {PaperOf[u], NoPaper}
    BY <1>1, <1>3, FirstRowTypes, RuledAssumption
  <2>2. a.paper \in HeldPapers
    BY <1>1 DEF IsEvalPaper
  <2> QED
    BY <1>3, <2>1, <2>2, RuledAssumption, PapersAssumption
<1> QED
  BY <1>2, <1>3 DEF Trainable
-----------------------------------------------------------------------------
(* Nothing held out is trained on. The invariant follows both lists to every *)
(* place a uid can get to: on one side the eval set and the report, on the   *)
(* other the list on disk, what the build holds, and what was published. A   *)
(* cut of the set build only ever leaves a part of either list.              *)

HeldInv ==
  /\ landed \in Tiers /\ making \in 0..landed
  /\ Uids(evalset) \subseteq Held /\ Uids(report) \subseteq Held
  /\ trainuids \subseteq Trainable /\ trains \subseteq Trainable
  /\ Uids(examples) \subseteq Trainable /\ everTrained \subseteq Trainable
  /\ \A e \in examples \cup dataset : PaperOf[e.uid] \notin EvalPapers

LEMMA MakingTiers ==
  ASSUME HeldInv
  PROVE  making \in Tiers /\ landed \in Nat
  BY TiersAssumption DEF HeldInv, Tiers

LEMMA HeldBegins == Init => HeldInv
<1> SUFFICES ASSUME Init PROVE HeldInv
  OBVIOUS
<1>1. landed \in Tiers /\ making \in 0..landed
  BY TiersAssumption DEF Init, EvalInit, Tiers
<1> QED
  BY <1>1 DEF Init, EvalInit, HeldInv, Uids

LEMMA PairsHeld == Uids(PairedTable) \subseteq Uids(evalset)
<1> SUFFICES ASSUME NEW r \in PairedTable PROVE r.uid \in Uids(evalset)
  BY DEF Uids
<1>1. PICK e \in evalset : r.uid = e.uid
  BY DEF PairedTable
<1> QED
  BY <1>1 DEF Uids

\* The harness, whose steps leave the build and what it published alone.
LEMMA HarnessHeld ==
  ASSUME HeldInv, EvalNext, UNCHANGED <<build, output, rollouts, written, appends>>
  PROVE  HeldInv'
<1>1. trains' = trains /\ examples' = examples /\ dataset' = dataset /\ everTrained' = everTrained
  BY DEF build, output
<1> DEFINE Lists == /\ landed \in Tiers /\ making \in 0..landed
                    /\ Uids(evalset) \subseteq Held /\ Uids(report) \subseteq Held
                    /\ trainuids \subseteq Trainable
<1> SUFFICES Lists'
  BY <1>1 DEF HeldInv, Uids
<1>2. Lists
  BY DEF HeldInv
<1>3. CASE UNCHANGED <<landed, making, evalset, report, trainuids>>
  BY <1>2, <1>3 DEF Uids
<1>4. CASE Land
  <2>1. landed' \in Tiers /\ making' \in 0..landed'
    BY <1>2, <1>4, TiersAssumption DEF Land, Tiers
  <2> QED
    BY <1>2, <1>4, <2>1 DEF Land, Uids
<1>5. CASE WriteEvalSet
  <2>1. Uids(EvalRows(landed)) \subseteq Held
    BY <1>2, EvalHeld
  <2>2. making' \in 0..landed'
    BY <1>2, <1>5, TiersAssumption DEF WriteEvalSet, Tiers
  <2> QED
    BY <1>2, <1>5, <2>1, <2>2 DEF WriteEvalSet, Uids
<1>6. CASE WriteTrainUids
  <2>1. TrainUids(making) \subseteq Trainable
    BY MakingTiers, TrainTrainable
  <2>2. making' \in 0..landed'
    BY <1>2, <1>6, TiersAssumption DEF WriteTrainUids, Tiers
  <2> QED
    BY <1>2, <1>6, <2>1, <2>2 DEF WriteTrainUids, Uids
<1>7. CASE CutSetBuild
  <2>1. TrainUids(making) \subseteq Trainable
    BY MakingTiers, TrainTrainable
  <2>2. making' \in 0..landed' /\ landed' = landed /\ report' = report
    BY <1>2, <1>7, TiersAssumption DEF CutSetBuild, Tiers
  <2>3. evalset' \subseteq evalset /\ (trainuids' = trainuids \/ trainuids' \subseteq TrainUids(making))
    BY <1>7 DEF CutSetBuild
  <2> QED
    BY <1>2, <2>1, <2>2, <2>3 DEF Uids
<1>8. CASE Report
  <2>1. Uids(report') \subseteq Held
    BY <1>2, <1>8, PairsHeld DEF Report
  <2> QED
    BY <1>2, <1>8, <2>1 DEF Report, Uids
<1>9. CASE CopyGreedy \/ StopEval \/ (\E u \in Uid : ScoreOne(u))
           \/ (\E specs \in Invocations : StartEval(specs))
  <2>1. UNCHANGED <<landed, making, evalset, report, trainuids>>
    BY <1>9 DEF CopyGreedy, StopEval, ScoreOne, StartEval
  <2> QED
    BY <2>1, <1>3
<1> QED
  BY <1>4, <1>5, <1>6, <1>7, <1>8, <1>9 DEF EvalNext

\* The build, which takes its uids from the list on disk and ends by publishing
\* examples that it has checked against the papers it pins.
LEMMA BuildHeld ==
  ASSUME HeldInv, Next, ~(EvalNext /\ UNCHANGED <<build, output, rollouts, written, appends>>)
  PROVE  HeldInv'
<1> DEFINE Books == /\ trainuids \subseteq Trainable /\ trains \subseteq Trainable
                    /\ Uids(examples) \subseteq Trainable /\ everTrained \subseteq Trainable
                    /\ \A e \in examples \cup dataset : PaperOf[e.uid] \notin EvalPapers
<1>1. UNCHANGED <<landed, making, evalset, report>>
  BY DEF Next, UseRuled, Append1, ReadTrainUids, ReadEvalSet, Refused, HarvestTraces, Unreconciled,
         PublishDataset, WriteManifest, Kill, evalvars
<1> SUFFICES Books'
  BY <1>1 DEF HeldInv, Uids
<1>2. Books
  BY DEF HeldInv
<1>3. CASE UseRuled
  BY <1>2, <1>3 DEF UseRuled, Trainable, build, output, Uids
<1>4. CASE \E f \in Files : \E u \in Uid : \E i \in 1..K : \E v \in Verdicts : Append1(f, u, i, v)
  BY <1>2, <1>4 DEF Append1, evalvars, build, output, Uids
<1>5. CASE ReadTrainUids \/ ReadEvalSet \/ Refused \/ Unreconciled
  BY <1>2, <1>5 DEF ReadTrainUids, ReadEvalSet, Refused, Unreconciled, evalvars, output, Uids
<1>6. CASE HarvestTraces
  <2>1. Uids(examples') \subseteq trains
    <3> SUFFICES ASSUME NEW u \in trains, NEW e \in Harvest(u) PROVE e.uid = u
      BY <1>6 DEF HarvestTraces, Uids
    <3> QED
      BY DEF Harvest
  <2>2. \A e \in examples' : PaperOf[e.uid] \notin EvalPapers
    BY <1>6 DEF HarvestTraces, WellMade, NoLeakage, Uids
  <2> QED
    BY <1>2, <1>6, <2>1, <2>2 DEF HarvestTraces, evalvars, output
<1>7. CASE PublishDataset
  BY <1>2, <1>7 DEF PublishDataset, evalvars, Uids
<1>8. CASE WriteManifest
  BY <1>2, <1>8 DEF WriteManifest, evalvars, Uids
<1>9. CASE Kill
  BY <1>2, <1>9 DEF Kill, output, Uids
<1> QED
  BY <1>3, <1>4, <1>5, <1>6, <1>7, <1>8, <1>9 DEF Next

LEMMA HeldGoesOn == HeldInv /\ [Next]_vars => HeldInv'
<1> SUFFICES ASSUME HeldInv, [Next]_vars PROVE HeldInv'
  OBVIOUS
<1>1. CASE UNCHANGED vars
  BY <1>1 DEF vars, evalvars, build, output, HeldInv, Uids
<1>2. CASE Next /\ EvalNext /\ UNCHANGED <<build, output, rollouts, written, appends>>
  BY <1>2, HarnessHeld
<1>3. CASE Next /\ ~(EvalNext /\ UNCHANGED <<build, output, rollouts, written, appends>>)
  BY <1>3, BuildHeld
<1> QED
  BY <1>1, <1>2, <1>3

\* Theorem. Nothing held out is trained on: no example is of an eval paper, and
\* no record that stands in the eval set or that the last report counted was ever
\* in a published data set, however the harness's two files are cut, rebuilt and
\* exchanged.
THEOREM NothingHeldOutTrained == Spec => []HeldOut
<1>1. HeldInv => HeldOut
  BY ListsApart DEF HeldInv, HeldOut
<1> QED
  BY <1>1, HeldBegins, HeldGoesOn, PTL DEF Spec
-----------------------------------------------------------------------------
(* The weight policy. Ranks differ, so the number of traces ranked before a  *)
(* trace is a bijection of the traces and 0..n-1, and those with less than   *)
(* cap before them are cap, or all.                                          *)

Most == IF Policy = "cap1" THEN 1 ELSE IF Policy = "capk" THEN Cap ELSE K
Verdict == {"correct", "wrong", "degenerate"}

LEMMA SameSize ==
  ASSUME NEW S, NEW T, IsFiniteSet(S), NEW f \in [S -> T],
         \A x, y \in S : f[x] = f[y] => x = y,
         \A t \in T : \E x \in S : f[x] = t
  PROVE  IsFiniteSet(T) /\ Cardinality(T) = Cardinality(S)
<1>1. f \in Injection(S, T)
  BY DEF Injection, IsInjective
<1>2. f \in Surjection(S, T)
  BY DEF Surjection
<1>3. ExistsBijection(S, T)
  BY <1>1, <1>2 DEF Bijection, ExistsBijection
<1> QED
  BY <1>3, FS_Bijection

\* The members of T with less than cap members of lower rank before them.
Ahead(T, r, i) == {j \in T : r[j] < r[i]}
FirstBy(T, r, cap) == {i \in T : Cardinality(Ahead(T, r, i)) < cap}

LEMMA FirstOfRank ==
  ASSUME NEW T, IsFiniteSet(T), NEW r \in [T -> Nat],
         \A i, j \in T : r[i] = r[j] => i = j,
         NEW cap \in Nat
  PROVE  Cardinality(FirstBy(T, r, cap)) = IF Cardinality(T) < cap THEN Cardinality(T) ELSE cap
<1> DEFINE ahead(i) == {j \in T : r[j] < r[i]}
           n == Cardinality(T)
           p == [i \in T |-> Cardinality(ahead(i))]
           first == {i \in T : Cardinality(ahead(i)) < cap}
           least == IF n < cap THEN n ELSE cap
<1>1. n \in Nat
  BY FS_CardinalityType
<1>2. \A i \in T : IsFiniteSet(ahead(i)) /\ Cardinality(ahead(i)) \in 0..(n - 1)
  <2> SUFFICES ASSUME NEW i \in T PROVE IsFiniteSet(ahead(i)) /\ Cardinality(ahead(i)) \in 0..(n - 1)
    OBVIOUS
  <2>1. ahead(i) \in SUBSET (T \ {i})
    OBVIOUS
  <2>2. IsFiniteSet(T \ {i}) /\ Cardinality(T \ {i}) = n - 1
    BY FS_RemoveElement
  <2>3. IsFiniteSet(ahead(i)) /\ Cardinality(ahead(i)) <= n - 1
    <3> HIDE DEF ahead
    <3> QED
      BY <2>1, <2>2, FS_Subset
  <2>4. Cardinality(ahead(i)) \in Nat
    BY <2>3, FS_CardinalityType
  <2> HIDE DEF ahead, n
  <2> QED
    BY <1>1, <2>3, <2>4
<1>3. \A i, j \in T : r[i] < r[j] => Cardinality(ahead(i)) # Cardinality(ahead(j))
  <2> SUFFICES ASSUME NEW i \in T, NEW j \in T, r[i] < r[j], Cardinality(ahead(i)) = Cardinality(ahead(j))
               PROVE  FALSE
    OBVIOUS
  <2>1. ahead(i) \in SUBSET ahead(j)
    OBVIOUS
  <2>2. i \in ahead(j) /\ i \notin ahead(i)
    OBVIOUS
  <2> HIDE DEF ahead
  <2>3. ahead(i) = ahead(j)
    BY <1>2, <2>1, FS_Subset
  <2> QED
    BY <2>2, <2>3
<1>4. \A i, j \in T : p[i] = p[j] => i = j
  BY <1>3
<1>5. p \in [T -> 0..(n - 1)]
  BY <1>2
<1>6. IsFiniteSet(0..(n - 1)) /\ Cardinality(0..(n - 1)) = n
  <2> HIDE DEF n
  <2> QED
    BY <1>1, FS_Interval
<1>7. p \in Surjection(T, 0..(n - 1))
  <2>1. p \in Injection(T, 0..(n - 1))
    BY <1>4, <1>5 DEF Injection, IsInjective
  <2> HIDE DEF p
  <2> QED
    BY <1>6, <2>1, FS_Injection
<1>8. IsFiniteSet(first)
  BY FS_Subset
<1>9. least \in Nat /\ \A k \in 0..(n - 1) : k < cap <=> k \in 0..(least - 1)
  <2> HIDE DEF n
  <2> QED
    BY <1>1
<1>10. 0..(least - 1) \subseteq 0..(n - 1)
  <2> HIDE DEF n
  <2> QED
    BY <1>1
<1>11. Cardinality(0..(least - 1)) = Cardinality(first)
  <2> DEFINE q == [i \in first |-> p[i]]
  <2>1. q \in [first -> 0..(least - 1)]
    <3> SUFFICES ASSUME NEW i \in first PROVE p[i] \in 0..(least - 1)
      OBVIOUS
    <3>1. p[i] < cap /\ p[i] \in 0..(n - 1)
      BY <1>2
    <3> HIDE DEF p, n, least
    <3> QED
      BY <1>9, <3>1
  <2>2. \A i, j \in first : q[i] = q[j] => i = j
    BY <1>4
  <2>3. \A k \in 0..(least - 1) : \E i \in first : q[i] = k
    <3> SUFFICES ASSUME NEW k \in 0..(least - 1) PROVE \E i \in first : p[i] = k
      OBVIOUS
    <3>1. k \in 0..(n - 1) /\ k < cap
      <4> HIDE DEF n, least
      <4> QED
        BY <1>9, <1>10
    <3>2. PICK i \in T : p[i] = k
      BY <1>7, <3>1 DEF Surjection
    <3> QED
      BY <3>1, <3>2
  <2> DEFINE low == 0..(least - 1)
  <2> HIDE DEF q, first, least, low
  <2>4. q \in [first -> low] /\ \A k \in low : \E i \in first : q[i] = k
    BY <2>1, <2>3 DEF low
  <2>5. Cardinality(low) = Cardinality(first)
    BY <1>8, <2>2, <2>4, SameSize
  <2> QED
    BY <2>5 DEF low
<1>12. Cardinality(0..(least - 1)) = least
  <2> HIDE DEF least
  <2> QED
    BY <1>9, FS_Interval
<1>13. FirstBy(T, r, cap) = first
  BY DEF FirstBy, Ahead
<1> QED
  BY <1>11, <1>12, <1>13

LEMMA KeptAre ==
  ASSUME NEW u \in Uid, NEW T \in SUBSET (1..K)
  PROVE  /\ Kept(u, T) \subseteq T
         /\ IsFiniteSet(T) /\ IsFiniteSet(Kept(u, T))
         /\ Cardinality(Kept(u, T)) = IF Cardinality(T) < Most THEN Cardinality(T) ELSE Most
<1>1. IsFiniteSet(1..K) /\ Cardinality(1..K) = K /\ K \in Nat
  BY PassAssumption, FS_Interval
<1>2. IsFiniteSet(T) /\ Cardinality(T) \in Nat /\ Cardinality(T) <= K
  BY <1>1, FS_Subset, FS_CardinalityType
<1>3. Kept(u, T) \subseteq T
  BY DEF Kept
<1>4. IsFiniteSet(Kept(u, T))
  BY <1>2, <1>3, FS_Subset
<1>5. CASE Policy = "inverse"
  <2>1. Kept(u, T) = T /\ Most = K
    BY <1>5 DEF Kept, Most
  <2> QED
    BY <1>1, <1>2, <1>3, <1>4, <2>1
<1>6. CASE Policy # "inverse"
  <2> DEFINE r == [i \in T |-> Rank[u][i]]
  <2>1. r \in [T -> Nat] /\ \A i, j \in T : r[i] = r[j] => i = j
    BY RankAssumption
  <2>2. Most \in Nat
    BY PolicyAssumption, <1>6 DEF Most
  <2>3. Kept(u, T) = {i \in T : Cardinality({j \in T : Rank[u][j] < Rank[u][i]}) < Most}
    BY <1>6, PolicyAssumption DEF Kept, Most
  <2>4. \A i \in T : Ahead(T, r, i) = {j \in T : Rank[u][j] < Rank[u][i]}
    BY DEF Ahead
  <2>5. Kept(u, T) = FirstBy(T, r, Most)
    BY <2>3, <2>4 DEF FirstBy
  <2> HIDE DEF r
  <2>6. \A cap \in Nat : Cardinality(FirstBy(T, r, cap))
                            = IF Cardinality(T) < cap THEN Cardinality(T) ELSE cap
    BY <1>2, <2>1, FirstOfRank
  <2>7. Cardinality(Kept(u, T)) = IF Cardinality(T) < Most THEN Cardinality(T) ELSE Most
    BY <2>2, <2>5, <2>6
  <2> QED
    BY <1>2, <1>3, <1>4, <2>7
<1> QED
  BY <1>5, <1>6
-----------------------------------------------------------------------------
(* Every example goes back to a scoring pass. The rollouts files change      *)
(* under a build, so what an example shows is kept against the history of    *)
(* what passes wrote, and the number of a record's examples against its      *)
(* score, which the file agreed with when the example was harvested.         *)

Logged(rows, log) == \A e \in rows : <<e.file, e.uid, e.sample, "correct">> \in log
WellShared(rows) ==
  \A u \in Uids(rows) :
    LET mine == {e \in rows : e.uid = u}
    IN /\ Cardinality({e.file : e \in mine}) = 1
       /\ Cardinality(mine) = IF Score[u][1] < Most THEN Score[u][1] ELSE Most

TraceInv ==
  /\ rollouts \in [Files -> [Uid -> Seq(Verdict)]]
  /\ \A f \in Files, u \in Uid : \A i \in (1..K) \cap DOMAIN rollouts[f][u] :
       <<f, u, i, rollouts[f][u][i]>> \in written
  /\ Logged(examples, written) /\ Logged(dataset, written)
  /\ WellShared(examples) /\ WellShared(dataset)

LEMMA TraceBegins == Init => TraceInv
<1> SUFFICES ASSUME Init PROVE TraceInv
  OBVIOUS
<1>1. rollouts \in [Files -> [Uid -> Seq(Verdict)]]
  BY PassAssumption DEF Init, Verdict
<1>2. ASSUME NEW f \in Files, NEW u \in Uid, NEW i \in (1..K) \cap DOMAIN rollouts[f][u]
      PROVE  <<f, u, i, rollouts[f][u][i]>> \in written
  <2> DEFINE Of(g, v) == {<<g, v, j, FirstPass[g][v][j]>> : j \in (1..K) \cap DOMAIN FirstPass[g][v]}
  <2>1. written = UNION {Of(g, v) : g \in Files, v \in Uid} /\ rollouts = FirstPass
    BY DEF Init
  <2>2. <<f, u, i, rollouts[f][u][i]>> \in Of(f, u)
    BY <1>2, <2>1
  <2> HIDE DEF Of
  <2> QED
    BY <2>1, <2>2
<1> QED
  BY <1>1, <1>2 DEF Init, TraceInv, Logged, WellShared, Uids

\* What is harvested for a record: the kept traces of one file that agrees with
\* the record's score.
LEMMA HarvestFrom ==
  ASSUME TraceInv, NEW u \in Uid, trains \subseteq Uid, Harvestable(u)
  PROVE  \E f \in Files :
           /\ Reconciles(u, f) /\ Traces(u, f) # {}
           /\ Harvest(u) = {[uid |-> u, file |-> f, sample |-> i, verdict |-> rollouts[f][u][i]] :
                              i \in Kept(u, Traces(u, f))}
<1>1. Registry \subseteq Files
  BY RoutedAssumption DEF Registry
<1>2. Alternatives(u) \subseteq Files /\ IsFiniteSet(Alternatives(u))
  BY <1>1, PassAssumption, FS_Subset DEF Alternatives
<1>3. PICK f : Authoritative(u) = {f} /\ f \in Files /\ Reconciles(u, f)
  <2>1. CASE Reconciles(u, Routed[u])
    BY <2>1, RoutedAssumption DEF Authoritative
  <2>2. CASE ~Reconciles(u, Routed[u])
    <3>1. Authoritative(u) = Alternatives(u) /\ Cardinality(Alternatives(u)) = 1
      BY <2>2 DEF Harvestable, Authoritative
    <3>2. PICK f : Alternatives(u) = {f}
      BY <1>2, <3>1, FS_Singleton
    <3> QED
      BY <1>2, <3>1, <3>2 DEF Alternatives
  <2> QED
    BY <2>1, <2>2
<1>4. Traces(u, f) # {}
  BY <1>3 DEF Harvestable
<1>5. Harvest(u) = {[uid |-> u, file |-> f, sample |-> i, verdict |-> rollouts[f][u][i]] :
                      i \in Kept(u, Traces(u, f))}
  BY <1>3 DEF Harvest
<1> QED
  BY <1>3, <1>4, <1>5

\* The examples of a record are correct rollouts that a pass wrote, of one
\* file, as many as the policy allows.
LEMMA HarvestTraced ==
  ASSUME TraceInv, NEW u \in Uid, trains \subseteq Uid, Harvestable(u)
  PROVE  /\ Logged(Harvest(u), written)
         /\ \A e \in Harvest(u) : e.uid = u
         /\ Cardinality({e.file : e \in Harvest(u)}) = 1
         /\ Cardinality(Harvest(u)) = IF Score[u][1] < Most THEN Score[u][1] ELSE Most
<1>1. PICK f \in Files :
        /\ Reconciles(u, f) /\ Traces(u, f) # {}
        /\ Harvest(u) = {[uid |-> u, file |-> f, sample |-> i, verdict |-> rollouts[f][u][i]] :
                           i \in Kept(u, Traces(u, f))}
  BY HarvestFrom
<1> DEFINE T == Traces(u, f)
           kept == Kept(u, T)
           example(i) == [uid |-> u, file |-> f, sample |-> i, verdict |-> rollouts[f][u][i]]
<1>2. rollouts[f][u] \in Seq(Verdict) /\ Len(rollouts[f][u]) = K
  BY <1>1 DEF TraceInv, Reconciles
<1>3. DOMAIN rollouts[f][u] = 1..K
  BY <1>2
<1>4. T \in SUBSET (1..K) /\ T \subseteq DOMAIN rollouts[f][u] /\ \A i \in T : rollouts[f][u][i] = "correct"
  BY <1>3 DEF Traces
<1>5. /\ kept \subseteq T /\ IsFiniteSet(kept) /\ IsFiniteSet(T)
      /\ Cardinality(kept) = IF Cardinality(T) < Most THEN Cardinality(T) ELSE Most
  BY <1>4, KeptAre
<1>6. Cardinality(T) = Score[u][1]
  BY <1>1 DEF Reconciles, Tally, Traces
<1>7. Logged(Harvest(u), written)
  <2> SUFFICES ASSUME NEW i \in kept PROVE <<f, u, i, "correct">> \in written
    BY <1>1 DEF Logged
  <2> QED
    BY <1>3, <1>4, <1>5 DEF TraceInv
<1>8. \A e \in Harvest(u) : e.uid = u /\ e.file = f
  BY <1>1
<1>9. Cardinality(Harvest(u)) = Cardinality(kept)
  <2> DEFINE g == [i \in kept |-> example(i)]
  <2>1. g \in [kept -> Harvest(u)] /\ \A e \in Harvest(u) : \E i \in kept : g[i] = e
    BY <1>1
  <2>2. \A i, j \in kept : g[i] = g[j] => i = j
    OBVIOUS
  <2> HIDE DEF g, kept
  <2> QED
    BY <1>5, <2>1, <2>2, SameSize
<1>10. kept # {}
  <2>1. Cardinality(T) \in Nat /\ Cardinality(T) # 0
    BY <1>1, <1>5, FS_EmptySet, FS_CardinalityType
  <2>2. Most # 0
    BY <1>1, <1>4, PolicyAssumption, PassAssumption DEF Most
  <2>3. Cardinality(kept) # 0
    BY <1>5, <2>1, <2>2
  <2> QED
    BY <2>3, FS_EmptySet
<1>11. {e.file : e \in Harvest(u)} = {f}
  <2>1. Harvest(u) # {}
    BY <1>1, <1>10
  <2> QED
    BY <1>8, <2>1
<1>12. Cardinality({e.file : e \in Harvest(u)}) = 1
  BY <1>11, FS_Singleton
<1> QED
  BY <1>5, <1>6, <1>7, <1>8, <1>9, <1>12

LEMMA AppendTraced ==
  ASSUME TraceInv, NEW f \in Files, NEW u \in Uid, NEW i \in 1..K, NEW v \in Verdicts, Append1(f, u, i, v)
  PROVE  TraceInv'
<1>1. /\ rollouts' = [rollouts EXCEPT ![f][u][i] = v] /\ i \in DOMAIN rollouts[f][u]
      /\ written' = written \cup {<<f, u, i, v>>}
      /\ examples' = examples /\ dataset' = dataset
  BY DEF Append1, build, output
<1>2. rollouts \in [Files -> [Uid -> Seq(Verdict)]] /\ v \in Verdict
  BY PassAssumption DEF TraceInv, Verdict
<1> DEFINE new == [rollouts[f][u] EXCEPT ![i] = v]
<1>3. new \in Seq(Verdict) /\ DOMAIN new = DOMAIN rollouts[f][u]
      /\ \A j \in DOMAIN new : new[j] = IF j = i THEN v ELSE rollouts[f][u][j]
  BY <1>1, <1>2
<1> HIDE DEF new
<1>4. /\ rollouts' \in [Files -> [Uid -> Seq(Verdict)]]
      /\ \A g \in Files, w \in Uid :
           rollouts'[g][w] = IF g = f /\ w = u THEN new ELSE rollouts[g][w]
  BY <1>1, <1>2, <1>3 DEF new
<1>5. ASSUME NEW g \in Files, NEW w \in Uid, NEW j \in (1..K) \cap DOMAIN rollouts'[g][w]
      PROVE  <<g, w, j, rollouts'[g][w][j]>> \in written'
  <2>1. CASE g = f /\ w = u /\ j = i
    BY <1>1, <1>3, <1>4, <1>5, <2>1
  <2>2. CASE g = f /\ w = u /\ j # i
    <3>1. rollouts'[g][w][j] = rollouts[f][u][j] /\ j \in (1..K) \cap DOMAIN rollouts[f][u]
      BY <1>3, <1>4, <1>5, <2>2
    <3> QED
      BY <1>1, <2>2, <3>1 DEF TraceInv
  <2>3. CASE ~(g = f /\ w = u)
    <3>1. rollouts'[g][w] = rollouts[g][w]
      BY <1>4, <2>3
    <3> QED
      BY <1>1, <1>5, <3>1 DEF TraceInv
  <2> QED
    BY <2>1, <2>2, <2>3
<1>6. Logged(examples, written') /\ Logged(dataset, written')
  BY <1>1 DEF TraceInv, Logged
<1> QED
  BY <1>1, <1>4, <1>5, <1>6 DEF TraceInv

LEMMA HarvestingTraced ==
  ASSUME TraceInv, trains \subseteq Uid, HarvestTraces
  PROVE  TraceInv'
<1>1. /\ examples' = UNION {Harvest(u) : u \in trains}
      /\ dataset' = dataset /\ rollouts' = rollouts /\ written' = written
      /\ \A u \in trains : Harvestable(u)
  BY DEF HarvestTraces, output
<1>2. \A u \in trains : /\ Logged(Harvest(u), written)
                        /\ \A e \in Harvest(u) : e.uid = u
                        /\ Cardinality({e.file : e \in Harvest(u)}) = 1
                        /\ Cardinality(Harvest(u)) = IF Score[u][1] < Most THEN Score[u][1] ELSE Most
  BY <1>1, HarvestTraced
<1>3. Logged(examples', written')
  BY <1>1, <1>2 DEF Logged
<1>4. WellShared(examples')
  <2> SUFFICES ASSUME NEW u \in Uids(examples')
               PROVE  LET mine == {e \in examples' : e.uid = u}
                      IN /\ Cardinality({e.file : e \in mine}) = 1
                         /\ Cardinality(mine) = IF Score[u][1] < Most THEN Score[u][1] ELSE Most
    BY DEF WellShared
  <2>1. u \in trains
    BY <1>1, <1>2 DEF Uids
  <2>2. {e \in examples' : e.uid = u} = Harvest(u)
    BY <1>1, <1>2, <2>1
  <2> QED
    BY <1>2, <2>1, <2>2
<1> QED
  BY <1>1, <1>3, <1>4 DEF TraceInv

LEMMA TraceGoesOn == HeldInv /\ TraceInv /\ [Next]_vars => TraceInv'
<1> SUFFICES ASSUME HeldInv, TraceInv, [Next]_vars PROVE TraceInv'
  OBVIOUS
<1>1. trains \subseteq Uid
  BY TrainableUids DEF HeldInv
<1>2. CASE /\ UNCHANGED <<rollouts, written>>
           /\ examples' = examples \/ examples' = {}
           /\ dataset' = dataset \/ dataset' = examples
  <2>1. Logged(examples', written) /\ Logged(dataset', written)
    BY <1>2 DEF TraceInv, Logged
  <2>2. WellShared({})
    BY DEF WellShared, Uids
  <2> QED
    BY <1>2, <2>1, <2>2 DEF TraceInv
<1>3. CASE EvalNext /\ UNCHANGED <<build, output, rollouts, written, appends>>
  BY <1>2, <1>3 DEF build, output
<1>4. CASE UseRuled \/ UNCHANGED vars
  BY <1>2, <1>4 DEF UseRuled, vars, build, output
<1>5. CASE \E f \in Files : \E u \in Uid : \E i \in 1..K : \E v \in Verdicts : Append1(f, u, i, v)
  BY <1>5, AppendTraced
<1>6. CASE ReadTrainUids \/ ReadEvalSet \/ Refused \/ Unreconciled
  BY <1>2, <1>6 DEF ReadTrainUids, ReadEvalSet, Refused, Unreconciled, output
<1>7. CASE HarvestTraces
  BY <1>1, <1>7, HarvestingTraced
<1>8. CASE PublishDataset
  BY <1>2, <1>8 DEF PublishDataset
<1>9. CASE WriteManifest \/ Kill
  BY <1>2, <1>9 DEF WriteManifest, Kill, output
<1> QED
  BY <1>3, <1>4, <1>5, <1>6, <1>7, <1>8, <1>9 DEF Next

\* Theorem. Every published example is a rollout that a scoring pass wrote as
\* correct, and a record has the examples of one file, as many as the policy
\* gives it, whatever later passes append while the set is built.
THEOREM ExamplesTraced == Spec => []Traced
<1>1. TraceInv => Traced
  BY DEF TraceInv, Traced, Logged, WellShared, Most
<1> QED
  BY <1>1, HeldBegins, HeldGoesOn, TraceBegins, TraceGoesOn, PTL DEF Spec
-----------------------------------------------------------------------------
(* The gate. A run that is under way has the answers to the first n calls,   *)
(* each with the text of the pinned file beside the text of the weights it   *)
(* began with, and the calls from n + 1 on before it: whichever servers came *)
(* and went, a call is only answered under the alias of the pinned file.     *)

CallCount(mode) == IF mode = "both" THEN 2 * Anchors ELSE Anchors

LEMMA CallsAre ==
  ASSUME NEW mode \in Modes
  PROVE  /\ CallCount(mode) \in Nat
         /\ DOMAIN CallsOf(mode) = 1..CallCount(mode)
         /\ mode # "chat" => \A p \in 1..Anchors : \E i \in 1..CallCount(mode) :
              CallsOf(mode)[i] = [prompt |-> p, channel |-> "raw"]
<1>1. Anchors \in Nat /\ mode \in {"raw", "chat", "both"}
  BY ModesAssumption
<1>2. CASE mode = "both"
  <2>1. Channels[mode] = <<"raw", "chat">> /\ Len(Channels[mode]) = 2
    BY <1>2 DEF Channels
  <2>2. Anchors * 2 = CallCount(mode) /\ CallCount(mode) \in Nat
    BY <1>1, <1>2 DEF CallCount
  <2>3. CallsOf(mode) = [i \in 1..CallCount(mode) |->
          [prompt |-> 1 + ((i - 1) \div 2), channel |-> <<"raw", "chat">>[1 + ((i - 1) % 2)]]]
    BY <2>1, <2>2 DEF CallsOf
  <2>4. ASSUME NEW p \in 1..Anchors
        PROVE  \E i \in 1..CallCount(mode) : CallsOf(mode)[i] = [prompt |-> p, channel |-> "raw"]
    <3>1. 2 * p - 1 \in 1..CallCount(mode) /\ (2 * p - 1 - 1) \div 2 = p - 1 /\ (2 * p - 1 - 1) % 2 = 0
      BY <1>1, <2>2
    <3>2. CallsOf(mode)[2 * p - 1] = [prompt |-> p, channel |-> "raw"]
      BY <2>3, <3>1
    <3> QED
      BY <3>1, <3>2
  <2> QED
    BY <2>2, <2>3, <2>4
<1>3. CASE mode # "both"
  <2>1. Len(Channels[mode]) = 1 /\ (mode = "raw" => Channels[mode] = <<"raw">>)
    BY <1>1, <1>3 DEF Channels
  <2>2. Anchors * 1 = CallCount(mode) /\ CallCount(mode) \in Nat
    BY <1>1, <1>3 DEF CallCount
  <2>3. CallsOf(mode) = [i \in 1..CallCount(mode) |->
          [prompt |-> 1 + ((i - 1) \div 1), channel |-> Channels[mode][1 + ((i - 1) % 1)]]]
    BY <2>1, <2>2 DEF CallsOf
  <2>4. ASSUME NEW p \in 1..Anchors, mode = "raw"
        PROVE  \E i \in 1..CallCount(mode) : CallsOf(mode)[i] = [prompt |-> p, channel |-> "raw"]
    <3>1. p \in 1..CallCount(mode) /\ (p - 1) \div 1 = p - 1 /\ (p - 1) % 1 = 0
      BY <1>1, <2>2
    <3>2. CallsOf(mode)[p] = [prompt |-> p, channel |-> "raw"]
      BY <2>1, <2>3, <2>4, <3>1
    <3> QED
      BY <3>1, <3>2
  <2> QED
    BY <1>1, <1>3, <2>2, <2>3, <2>4
<1> QED
  BY <1>2, <1>3

\* What the call c brings a run over the weights w, from the pinned file.
Answer(c, w) ==
  [channel |-> c.channel, theirs |-> Text[Pin][c.prompt], ours |-> Text[w][c.prompt]]
Answers(mode, w, n) == [i \in 1..n |-> Answer(CallsOf(mode)[i], w)]
Remaining(mode, n) == [i \in 1..(CallCount(mode) - n) |-> CallsOf(mode)[n + i]]

Running(mode, w, n) ==
  gate = [at |-> "ready", mode |-> mode, model |-> w,
          calls |-> Remaining(mode, n), results |-> Answers(mode, w, n)]

GateInv ==
  /\ GateTrue
  /\ gate = NoGate \/ \E mode \in Modes : \E w : \E n \in 0..CallCount(mode) : Running(mode, w, n)

LEMMA GateBegins == WeightsInit => GateInv
  BY DEF WeightsInit, GateInv, GateTrue

LEMMA StartGateKeeps ==
  ASSUME GateInv, NEW mode \in Modes, StartGate(mode)
  PROVE  GateInv'
<1>1. CallCount(mode) \in Nat /\ DOMAIN CallsOf(mode) = 1..CallCount(mode)
  BY CallsAre
<1>2. Remaining(mode, 0) = CallsOf(mode)
  <2>1. CallsOf(mode) = [i \in 1..CallCount(mode) |-> CallsOf(mode)[i]]
    BY <1>1 DEF CallsOf
  <2> QED
    BY <1>1, <2>1 DEF Remaining
<1>3. Answers(mode, WeightsOf(out), 0) = <<>>
  BY DEF Answers
<1>4. gate' = [at |-> "ready", mode |-> mode, model |-> WeightsOf(out),
               calls |-> Remaining(mode, 0), results |-> Answers(mode, WeightsOf(out), 0)]
  BY <1>2, <1>3 DEF StartGate, SetGate, NoGate
<1>5. gateReport' = Absent
  BY DEF StartGate
<1>6. 0 \in 0..CallCount(mode)
  BY <1>1
<1> QED
  BY <1>4, <1>5, <1>6 DEF GateInv, GateTrue, Running

LEMMA TailIs ==
  ASSUME NEW S, NEW s \in Seq(S), NEW k \in Nat, Len(s) = k + 1
  PROVE  Tail(s) = [i \in 1..k |-> s[i + 1]]
<1>1. s # <<>>
  OBVIOUS
<1>2. Tail(s) \in Seq(S) /\ Len(Tail(s)) = k /\ \A i \in 1..k : Tail(s)[i] = s[i + 1]
  BY <1>1, HeadTailProperties
<1>3. Tail(s) \in [1..k -> S]
  BY <1>2, LenProperties
<1> QED
  BY <1>2, <1>3

LEMMA AppendIs ==
  ASSUME NEW S, NEW s \in Seq(S), NEW x \in S, NEW k \in Nat, Len(s) = k
  PROVE  Append(s, x) = [i \in 1..(k + 1) |-> IF i = k + 1 THEN x ELSE s[i]]
<1>1. Append(s, x) \in Seq(S) /\ Len(Append(s, x)) = k + 1
      /\ \A i \in 1..k : Append(s, x)[i] = s[i]
      /\ Append(s, x)[k + 1] = x
  BY AppendProperties
<1>2. Append(s, x) \in [1..(k + 1) -> S]
  BY <1>1, LenProperties
<1>3. \A i \in 1..(k + 1) : Append(s, x)[i] = IF i = k + 1 THEN x ELSE s[i]
  <2> SUFFICES ASSUME NEW i \in 1..(k + 1), i # k + 1 PROVE Append(s, x)[i] = s[i]
    BY <1>1
  <2>1. i \in 1..k
    OBVIOUS
  <2> QED
    BY <1>1, <2>1
<1> QED
  BY <1>2, <1>3

LEMMA CallKeeps ==
  ASSUME GateInv, NEW m \in Model, Call(m)
  PROVE  GateInv'
<1>1. gate.at = "ready" /\ gate.calls # <<>> /\ m.weights = Pin /\ gateReport' = gateReport
  BY AliasAssumption DEF Call
<1>2. PICK mode \in Modes : \E w : \E n \in 0..CallCount(mode) : Running(mode, w, n)
  BY <1>1 DEF GateInv, NoGate
<1>3. PICK w : \E n \in 0..CallCount(mode) : Running(mode, w, n)
  BY <1>2
<1>4. PICK n \in 0..CallCount(mode) : Running(mode, w, n)
  BY <1>3
<1>5. CallCount(mode) \in Nat
  BY CallsAre
<1> DEFINE calls == Remaining(mode, n)
           results == Answers(mode, w, n)
           c == CallsOf(mode)[n + 1]
<1>6. gate = [at |-> "ready", mode |-> mode, model |-> w, calls |-> calls, results |-> results]
  BY <1>4 DEF Running
<1>7. n < CallCount(mode)
  <2>1. CASE n = CallCount(mode)
    <3>1. calls = <<>>
      BY <1>5, <2>1 DEF Remaining
    <3> QED
      BY <1>1, <1>6, <3>1
  <2> QED
    BY <1>5, <2>1
<1>8. Head(calls) = c /\ Tail(calls) = Remaining(mode, n + 1)
  <2>1. calls \in Seq({CallsOf(mode)[i] : i \in 1..CallCount(mode)}) /\ Len(calls) = CallCount(mode) - n
    BY <1>5, <1>7 DEF Remaining
  <2>2. \A i \in 1..(CallCount(mode) - n) : calls[i] = CallsOf(mode)[n + i]
    BY DEF Remaining
  <2>3. Head(calls) = c
    BY <1>5, <1>7, <2>1, <2>2
  <2>4. Tail(calls) = [i \in 1..(CallCount(mode) - n - 1) |-> calls[i + 1]]
    <3>1. CallCount(mode) - n - 1 \in Nat /\ Len(calls) = (CallCount(mode) - n - 1) + 1
      BY <1>5, <1>7, <2>1
    <3> HIDE DEF calls
    <3> QED
      BY <2>1, <3>1, TailIs
  <2>5. \A i \in 1..(CallCount(mode) - n - 1) : calls[i + 1] = CallsOf(mode)[(n + 1) + i]
    BY <1>5, <1>7, <2>2
  <2>6. CallCount(mode) - n - 1 = CallCount(mode) - (n + 1)
    BY <1>5
  <2> HIDE DEF calls
  <2> QED
    BY <2>3, <2>4, <2>5, <2>6 DEF Remaining
<1>9. Append(results, Answer(c, w)) = Answers(mode, w, n + 1)
  <2>1. results \in Seq({Answer(CallsOf(mode)[i], w) : i \in 1..CallCount(mode)}) /\ Len(results) = n
    BY <1>5, <1>7 DEF Answers
  <2>2. \A i \in 1..n : results[i] = Answer(CallsOf(mode)[i], w)
    BY DEF Answers
  <2>3. Append(results, Answer(c, w)) = [i \in 1..(n + 1) |-> IF i = n + 1 THEN Answer(c, w) ELSE results[i]]
    <3>1. Answer(c, w) \in {Answer(CallsOf(mode)[i], w) : i \in 1..CallCount(mode)} /\ n \in Nat
      BY <1>5, <1>7
    <3> HIDE DEF results, c
    <3> QED
      BY <2>1, <3>1, AppendIs
  <2>4. \A i \in 1..(n + 1) : (IF i = n + 1 THEN Answer(c, w) ELSE results[i]) = Answer(CallsOf(mode)[i], w)
    BY <1>5, <1>7, <2>2
  <2> HIDE DEF results, c
  <2> QED
    BY <2>3, <2>4 DEF Answers
<1>10. gate' = [at |-> "ready", mode |-> mode, model |-> w,
                calls |-> Remaining(mode, n + 1), results |-> Answers(mode, w, n + 1)]
  <2>1. gate' = [gate EXCEPT !.calls = Tail(calls), !.results = Append(results, Answer(c, w))]
    BY <1>1, <1>6, <1>8 DEF Call, SetGate, Answer
  <2> HIDE DEF calls, results, c
  <2> QED
    BY <1>6, <1>8, <1>9, <2>1
<1>11. n + 1 \in 0..CallCount(mode)
  BY <1>5, <1>7
<1> QED
  BY <1>1, <1>10, <1>11 DEF GateInv, GateTrue, Running

\* A pass compared every raw answer, and there is one of every prompt.
LEMMA FinishKeeps ==
  ASSUME GateInv, Finish
  PROVE  GateInv'
<1>1. gate.at = "ready" /\ gate.calls = <<>> /\ gate' = NoGate
  BY DEF Finish, SetGate
<1>2. PICK mode \in Modes : \E w : \E n \in 0..CallCount(mode) : Running(mode, w, n)
  BY <1>1 DEF GateInv, NoGate
<1>3. PICK w : \E n \in 0..CallCount(mode) : Running(mode, w, n)
  BY <1>2
<1>4. PICK n \in 0..CallCount(mode) : Running(mode, w, n)
  BY <1>3
<1>5. CallCount(mode) \in Nat
  BY CallsAre
<1>6. n = CallCount(mode)
  <2>1. Remaining(mode, n) = <<>>
    BY <1>1, <1>4 DEF Running
  <2>2. DOMAIN Remaining(mode, n) = 1..(CallCount(mode) - n)
    BY DEF Remaining
  <2>3. 1..(CallCount(mode) - n) = {}
    BY <2>1, <2>2
  <2>4. PICK k \in Nat : k = CallCount(mode) - n
    BY <1>5
  <2>5. k = 0
    <3>1. k >= 1 => 1 \in 1..k
      OBVIOUS
    <3> QED
      BY <2>3, <2>4, <3>1
  <2> QED
    BY <1>5, <2>4, <2>5
<1>7. gate.results = Answers(mode, w, CallCount(mode)) /\ gate.mode = mode /\ gate.model = w
  BY <1>4, <1>6 DEF Running
<1>8. ASSUME AllEqual(gate.results), mode # "chat"
      PROVE  \A p \in 1..Anchors : Text[w][p] = Text[Pin][p]
  <2> SUFFICES ASSUME NEW p \in 1..Anchors PROVE Text[w][p] = Text[Pin][p]
    OBVIOUS
  <2>1. PICK i \in 1..CallCount(mode) : CallsOf(mode)[i] = [prompt |-> p, channel |-> "raw"]
    BY <1>8, CallsAre
  <2>2. /\ DOMAIN gate.results = 1..CallCount(mode)
        /\ gate.results[i] = [channel |-> "raw", theirs |-> Text[Pin][p], ours |-> Text[w][p]]
    BY <1>7, <2>1 DEF Answers, Answer
  <2>3. gate.results[i] \in Raw(gate.results)
    BY <2>2 DEF Raw
  <2>4. gate.results[i].theirs = gate.results[i].ours
    BY <1>8, <2>3 DEF AllEqual, Equal
  <2> QED
    BY <2>2, <2>4
<1>9. GateTrue'
  <2>1. CASE SawText(gate.results)
    <3>1. gateReport' = [verdict |-> IF AllEqual(gate.results) THEN "PASS" ELSE "FAIL",
                         mode |-> mode, model |-> w]
      BY <1>7, <2>1 DEF Finish
    <3> QED
      BY <1>8, <3>1 DEF GateTrue
  <2>2. CASE ~SawText(gate.results)
    BY <2>2 DEF Finish, GateInv, GateTrue
  <2> QED
    BY <2>1, <2>2
<1> QED
  BY <1>1, <1>9 DEF GateInv

LEMMA GateGoesOn == GateInv /\ [WeightsNext]_weightsVars => GateInv'
<1> SUFFICES ASSUME GateInv, [WeightsNext]_weightsVars PROVE GateInv'
  OBVIOUS
<1>1. CASE gate' = gate /\ gateReport' = gateReport
  BY <1>1 DEF GateInv, GateTrue, Running
<1>2. CASE UNCHANGED weightsVars
  BY <1>1, <1>2 DEF weightsVars
<1>3. CASE \E g \in File : Fetch(g)
  BY <1>1, <1>3 DEF Fetch
<1>4. CASE \E j \in Conv : Convert(j)
  BY <1>1, <1>4 DEF Convert, Hash, Open, Refuse, WriteShard, WriteRest, WriteDequantManifest, Replace,
                    Abort, KillConversion, RestOfConv
<1>5. CASE Damage
  BY <1>1, <1>5 DEF Damage
<1>6. CASE \/ \E skip \in BOOLEAN : VerifyDequant(skip) \/ VerifyFp16(skip)
           \/ (\E s \in Sidecar : CompareFp16(s)) \/ AbandonFp16
  BY <1>1, <1>6 DEF VerifyDequant, CompareFp16, VerifyFp16, AbandonFp16, Receive
<1>7. CASE \E mode \in Modes : StartGate(mode)
  BY <1>7, StartGateKeeps
<1>8. CASE \E m \in Model : Call(m)
  BY <1>8, CallKeeps
<1>9. CASE CallFails
  BY <1>9 DEF CallFails, SetGate, GateInv, GateTrue
<1>10. CASE Finish
  BY <1>10, FinishKeeps
<1> QED
  BY <1>2, <1>3, <1>4, <1>5, <1>6, <1>7, <1>8, <1>9, <1>10 DEF WeightsNext, Gate

\* Theorem. A PASS of the raw channel is about weights that generate on every
\* prompt what the pinned file generates, whichever servers answered the calls.
THEOREM PassedGateTrue == WeightsSpec => []GateTrue
<1>1. GateInv => GateTrue
  BY DEF GateInv
<1> QED
  BY <1>1, GateBegins, GateGoesOn, PTL DEF WeightsSpec
-----------------------------------------------------------------------------
(* The directory a conversion writes. Packing names into shards keeps them   *)
(* apart, loses none and starts a new shard in time.                         *)

\* The least of a set of numbers, and counting up to a number.
Less == {ss \in Nat \X Nat : ss[1] < ss[2]}

LEMMA LessWF == IsWellFoundedOn(Less, Nat)
BY NatLessThanWellFounded, Zenon DEF OpToRel, Less

LEMMA LeastNat ==
  ASSUME NEW S, S \subseteq Nat, S # {}
  PROVE  \E n \in S : \A k \in S : n <= k
<1>1. PICK n \in S : \A k \in S : ~(<<k, n>> \in Less)
  BY LessWF, WFMin, Zenon
<1>2. ASSUME NEW k \in S, ~(n <= k) PROVE FALSE
  <2>1. k \in Nat /\ n \in Nat /\ k < n
    BY <1>2
  <2>2. <<k, n>> \in Less
    BY <2>1 DEF Less
  <2> QED
    BY <1>1, <2>2
<1> QED
  BY <1>2

\* A set with 0 that is closed under the successor, up to N.
LEMMA UpTo ==
  ASSUME NEW N \in Nat, NEW T, 0 \in T, \A n \in 1..N : n - 1 \in T => n \in T
  PROVE  0..N \subseteq T
<1>1. SUFFICES ASSUME (0..N) \ T # {} PROVE FALSE
  OBVIOUS
<1> DEFINE Left == (0..N) \ T
<1>0. Left \subseteq Nat /\ Left # {}
  BY <1>1
<1> HIDE DEF Left
<1>2. PICK n \in Left : \A k \in Left : n <= k
  BY <1>0, LeastNat
<1> USE DEF Left
<1>3. n \in 1..N /\ n - 1 \in 0..N /\ ~(n <= n - 1)
  BY <1>2
<1> QED
  BY <1>2, <1>3

Packed(g, p, n) ==
  /\ p \in Seq(SUBSET Nat) /\ p # <<>>
  /\ \A h : h \in HfNames(g) /\ h \in 1..n <=> \E i \in DOMAIN p : h \in p[i]
  /\ \A i, j \in DOMAIN p : \A h : h \in p[i] /\ h \in p[j] => i = j
  /\ \A i \in DOMAIN p : \A a, b \in p[i] : a # b => Fits(g, p[i])

LEMMA PackedBegins ==
  ASSUME NEW g
  PROVE  Packed(g, <<{}>>, 0)
<1>1. <<{}>> \in Seq(SUBSET Nat) /\ <<{}>> # <<>> /\ DOMAIN <<{}>> = {1} /\ <<{}>>[1] = {}
  OBVIOUS
<1>2. \A h : h \notin 1..0
  OBVIOUS
<1> QED
  BY <1>1, <1>2 DEF Packed

LEMMA PackedGoesOn ==
  ASSUME NEW g, NEW n \in Nat \ {0}, NEW p, Packed(g, p, n - 1)
  PROVE  Packed(g, Pack(g, p, n), n)
<1> DEFINE k == Len(p)
           last == p[k]
<1>1. p \in Seq(SUBSET Nat) /\ p # <<>> /\ k \in Nat /\ k >= 1 /\ DOMAIN p = 1..k /\ k \in DOMAIN p
      /\ p \in [1..k -> SUBSET Nat] /\ last \in SUBSET Nat
  BY DEF Packed
<1>2. 1..n = 1..(n - 1) \cup {n} /\ n \notin 1..(n - 1)
  OBVIOUS
<1>3. \A i \in 1..k : n \notin p[i]
  BY <1>1, <1>2 DEF Packed
<1>4. CASE n \notin HfNames(g)
  <2>1. Pack(g, p, n) = p
    BY <1>4 DEF Pack
  <2>2. \A h : h \in HfNames(g) /\ h \in 1..n <=> h \in HfNames(g) /\ h \in 1..(n - 1)
    BY <1>2, <1>4
  <2> QED
    BY <2>1, <2>2 DEF Packed
<1>5. CASE n \in HfNames(g) /\ last # {} /\ ~Fits(g, last \cup {n})
  <2> DEFINE q == Append(p, {n})
  <2>1. Pack(g, p, n) = q
    BY <1>5 DEF Pack
  <2>2. {n} \in SUBSET Nat
    OBVIOUS
  <2>3. q \in Seq(SUBSET Nat) /\ Len(q) = k + 1 /\ (\A i \in 1..k : q[i] = p[i]) /\ q[k + 1] = {n}
    BY <1>1, <2>2, AppendProperties
  <2> HIDE DEF q
  <2>4. DOMAIN q = 1..(k + 1) /\ q # <<>> /\ 1..(k + 1) = 1..k \cup {k + 1} /\ k + 1 \notin 1..k
    BY <1>1, <2>3
  <2>5. \A h : (\E i \in DOMAIN q : h \in q[i]) <=> h = n \/ \E i \in DOMAIN p : h \in p[i]
    BY <1>1, <2>3, <2>4
  <2>6. \A h : h \in HfNames(g) /\ h \in 1..n <=> \E i \in DOMAIN q : h \in q[i]
    BY <1>2, <1>5, <2>5 DEF Packed
  <2>7. \A i, j \in DOMAIN q : \A h : h \in q[i] /\ h \in q[j] => i = j
    BY <1>1, <1>3, <2>3, <2>4 DEF Packed
  <2>8. \A i \in DOMAIN q : \A a, b \in q[i] : a # b => Fits(g, q[i])
    BY <1>1, <2>3, <2>4 DEF Packed
  <2> QED
    BY <2>1, <2>3, <2>4, <2>6, <2>7, <2>8 DEF Packed
<1>6. CASE n \in HfNames(g) /\ ~(last # {} /\ ~Fits(g, last \cup {n}))
  <2> DEFINE q == [p EXCEPT ![k] = last \cup {n}]
  <2>1. Pack(g, p, n) = q
    BY <1>6 DEF Pack
  <2>2. last \cup {n} \in SUBSET Nat
    BY <1>1
  <2>3. q \in Seq(SUBSET Nat) /\ Len(q) = k /\ q[k] = last \cup {n} /\ \A i \in 1..k : i # k => q[i] = p[i]
    <3>1. k \in 1..Len(p)
      BY <1>1
    <3>2. \A i \in 1..k : q[i] = IF i = k THEN last \cup {n} ELSE p[i]
      BY <1>1, <2>2, <3>1, ExceptSeq
    <3>3. q \in Seq(SUBSET Nat) /\ Len(q) = k
      BY <1>1, <2>2, <3>1, ExceptSeq
    <3> QED
      BY <1>1, <3>2, <3>3
  <2> HIDE DEF q
  <2>4. DOMAIN q = 1..k /\ q # <<>>
    <3>1. DOMAIN q = 1..Len(q)
      BY <2>3, LenProperties
    <3>2. Len(<<>>) = 0
      OBVIOUS
    <3> QED
      <4>1. DOMAIN q = 1..k
        BY <2>3, <3>1
      <4>2. ASSUME q = <<>> PROVE FALSE
        <5>1. Len(q) = 0
          BY <3>2, <4>2
        <5> QED
          BY <1>1, <2>3, <5>1
      <4> QED
        BY <4>1, <4>2
  <2>5. \A h : (\E i \in DOMAIN q : h \in q[i]) <=> h = n \/ \E i \in DOMAIN p : h \in p[i]
    BY <1>1, <2>3, <2>4
  <2>6. \A h : h \in HfNames(g) /\ h \in 1..n <=> \E i \in DOMAIN q : h \in q[i]
    BY <1>2, <1>6, <2>5 DEF Packed
  <2>7. \A i, j \in DOMAIN q : \A h : h \in q[i] /\ h \in q[j] => i = j
    <3> SUFFICES ASSUME NEW i \in 1..k, NEW j \in 1..k, NEW h, h \in q[i], h \in q[j], i # j
                 PROVE  FALSE
      BY <2>4
    <3>1. h # n
      BY <1>1, <1>3, <2>3
    <3>2. \A m \in 1..k : h \in q[m] => h \in p[m]
      <4> SUFFICES ASSUME NEW m \in 1..k, h \in q[m] PROVE h \in p[m]
        OBVIOUS
      <4>1. CASE m = k
        BY <2>3, <3>1, <4>1
      <4>2. CASE m # k
        BY <2>3, <4>2
      <4> QED
        BY <4>1, <4>2
    <3> QED
      BY <1>1, <3>2 DEF Packed
  <2>8. \A i \in DOMAIN q : \A a, b \in q[i] : a # b => Fits(g, q[i])
    <3> SUFFICES ASSUME NEW i \in 1..k, NEW a \in q[i], NEW b \in q[i], a # b
                 PROVE  Fits(g, q[i])
      BY <2>4
    <3>1. CASE i # k
      BY <1>1, <2>3, <3>1 DEF Packed
    <3>2. CASE i = k
      BY <1>6, <2>3, <3>2
    <3> QED
      BY <3>1, <3>2
  <2>9. Packed(g, q, n)
    BY <2>3, <2>4, <2>6, <2>7, <2>8 DEF Packed
  <2> QED
    BY <2>1, <2>9
<1> QED
  BY <1>4, <1>5, <1>6

LEMMA ShardsArePacked ==
  ASSUME NEW g \in File
  PROVE  Packed(g, Shards[g], Names)
<1> DEFINE step(f, k) == [n \in 0..k |-> IF n = 0 THEN <<{}>> ELSE Pack(g, f[n - 1], n)]
           T == {k \in 0..Names : \E f : f = step(f, k)}
<1>0. Names \in Nat
  BY NamesAssumption
<1>1. 0 \in T
  <2> DEFINE f == [n \in 0..0 |-> <<{}>>]
  <2>1. f = step(f, 0)
    OBVIOUS
  <2>2. \E h : h = step(h, 0)
    BY <2>1
  <2>3. 0 \in 0..Names
    BY <1>0
  <2> HIDE DEF step
  <2> QED
    BY <2>2, <2>3
<1>2. ASSUME NEW n \in 1..Names, n - 1 \in T PROVE n \in T
  <2>1. PICK f : f = step(f, n - 1)
    BY <1>2
  <2> DEFINE h == [k \in 0..n |-> IF k < n THEN f[k] ELSE Pack(g, f[n - 1], n)]
  <2>2. \A k \in 0..n : h[k] = step(h, n)[k]
    <3> SUFFICES ASSUME NEW k \in 0..n PROVE h[k] = step(h, n)[k]
      OBVIOUS
    <3>1. k > 0 => k - 1 \in 0..n /\ k - 1 < n /\ h[k - 1] = f[k - 1]
      OBVIOUS
    <3>2. CASE k = n
      BY <3>1, <3>2
    <3>3. CASE k < n
      <4>1. k \in 0..(n - 1) /\ h[k] = f[k]
        BY <3>3
      <4>2. f[k] = step(f, n - 1)[k]
        BY <2>1
      <4>3. step(f, n - 1)[k] = IF k = 0 THEN <<{}>> ELSE Pack(g, f[k - 1], k)
        BY <4>1
      <4>4. step(h, n)[k] = IF k = 0 THEN <<{}>> ELSE Pack(g, h[k - 1], k)
        OBVIOUS
      <4> QED
        BY <3>1, <4>1, <4>2, <4>3, <4>4
    <3> QED
      BY <3>2, <3>3
  <2>3. h = step(h, n)
    BY <2>2
  <2> HIDE DEF h
  <2>4. \E f1 : f1 = step(f1, n)
    BY <2>3
  <2>5. n \in 0..Names
    OBVIOUS
  <2> HIDE DEF step
  <2> QED
    BY <2>4, <2>5
<1>3. Names \in T
  <2>1. 0..Names \subseteq T
    <3>1. \A n \in 1..Names : n - 1 \in T => n \in T
      BY <1>2
    <3> HIDE DEF T
    <3> QED
      BY <1>0, <1>1, <3>1, UpTo
  <2>2. Names \in 0..Names
    BY <1>0
  <2> HIDE DEF T
  <2> QED
    BY <2>1, <2>2
<1> DEFINE packed == CHOOSE f : f = step(f, Names)
<1>4. packed = step(packed, Names)
  BY <1>3
<1>5. Shards[g] = packed[Names]
  BY DEF Shards
<1> HIDE DEF packed
<1>6. packed[0] = <<{}>> /\ \A n \in 1..Names : packed[n] = Pack(g, packed[n - 1], n)
  <2>1. \A n \in 0..Names : packed[n] = step(packed, Names)[n]
    BY <1>4
  <2>2. \A n \in 0..Names : step(packed, Names)[n] = IF n = 0 THEN <<{}>> ELSE Pack(g, packed[n - 1], n)
    OBVIOUS
  <2>3. 0 \in 0..Names /\ \A n \in 1..Names : n \in 0..Names /\ n # 0
    BY <1>0
  <2> HIDE DEF step
  <2> QED
    BY <2>1, <2>2, <2>3
<1> DEFINE Done == {n \in 0..Names : Packed(g, packed[n], n)}
<1>7. 0 \in Done
  BY <1>0, <1>6, PackedBegins
<1>8. \A n \in 1..Names : n - 1 \in Done => n \in Done
  BY <1>0, <1>6, PackedGoesOn
<1>9. 0..Names \subseteq Done
  <2> HIDE DEF Done
  <2> QED
    BY <1>0, <1>7, <1>8, UpTo
<1> QED
  BY <1>0, <1>5, <1>9

LEMMA ShardFacts ==
  ASSUME NEW g \in File, Readable(g)
  PROVE  /\ Len(Shards[g]) \in Nat \ {0} /\ DOMAIN Shards[g] = 1..Len(Shards[g])
         /\ \A n \in DOMAIN Tensors(g) : \E i \in DOMAIN Shards[g] : HfName[n] \in Shards[g][i]
         /\ \A i \in DOMAIN Shards[g] : Shards[g][i] \subseteq HfNames(g)
         /\ \A i, j \in DOMAIN Shards[g] : \A h : h \in Shards[g][i] /\ h \in Shards[g][j] => i = j
         /\ \A i \in DOMAIN Shards[g] : \A a, b \in Shards[g][i] : a # b => Fits(g, Shards[g][i])
<1>1. Packed(g, Shards[g], Names)
  BY ShardsArePacked
<1>2. HfNames(g) \subseteq 1..Names
  BY NamesAssumption DEF Readable, Mapped, HfNames
<1>3. Shards[g] \in Seq(SUBSET Nat) /\ Shards[g] # <<>>
  BY <1>1 DEF Packed
<1>4. Len(Shards[g]) \in Nat \ {0} /\ DOMAIN Shards[g] = 1..Len(Shards[g])
  BY <1>3, EmptySeq, LenProperties
<1>5. \A h : h \in HfNames(g) <=> \E i \in DOMAIN Shards[g] : h \in Shards[g][i]
  BY <1>1, <1>2 DEF Packed
<1>6. \A n \in DOMAIN Tensors(g) : HfName[n] \in HfNames(g)
  BY DEF HfNames
<1> QED
  BY <1>1, <1>4, <1>5, <1>6 DEF Packed

LEMMA IndexIs ==
  ASSUME NEW g \in File, Readable(g), NEW n \in DOMAIN Tensors(g), NEW i \in DOMAIN Shards[g]
  PROVE  HfName[n] \in Shards[g][i] <=> Index(g)[HfName[n]] = i
<1> DEFINE k == CHOOSE m \in DOMAIN Shards[g] : HfName[n] \in Shards[g][m]
<1>1. k \in DOMAIN Shards[g] /\ HfName[n] \in Shards[g][k]
  BY ShardFacts
<1>2. Index(g)[HfName[n]] = k
  BY DEF Index, HfNames
<1> HIDE DEF k
<1>3. HfName[n] \in Shards[g][i] => i = k
  BY <1>1, ShardFacts
<1> QED
  BY <1>1, <1>2, <1>3

\* There is a tensor in every file that converts, and a tensor is of one file.
LEMMA OneFile ==
  ASSUME NEW g \in File, NEW h \in File, Readable(g), Data[h] = Data[g]
  PROVE  h = g
<1>1. Dequantized(g, "embed") \in Data[g]
  BY DEF Data, Readable, HasVocab
<1>2. PICK n \in DOMAIN Tensors(h) : Dequantized(g, "embed") = Dequantized(h, n)
  BY <1>1 DEF Data
<1>3. Dequantized(g, "embed").from = g /\ Dequantized(h, n).from = h
  BY DEF Dequantized
<1> QED
  BY <1>2, <1>3

LEMMA NamesOfShard ==
  ASSUME NEW g \in File, Readable(g), NEW i \in DOMAIN Shards[g]
  PROVE  {HfName[t.tensor] : t \in ShardOf(g, i)} = Shards[g][i]
<1>1. \A t \in ShardOf(g, i) : HfName[t.tensor] \in Shards[g][i]
  BY DEF ShardOf, InShard, Dequantized
<1>2. ASSUME NEW h \in Shards[g][i] PROVE \E t \in ShardOf(g, i) : HfName[t.tensor] = h
  <2>1. h \in HfNames(g)
    BY ShardFacts
  <2>2. PICK n \in DOMAIN Tensors(g) : h = HfName[n]
    BY <2>1 DEF HfNames
  <2>3. Dequantized(g, n) \in ShardOf(g, i) /\ Dequantized(g, n).tensor = n
    BY <1>2, <2>2 DEF ShardOf, InShard, Dequantized
  <2> QED
    BY <2>2, <2>3
<1> QED
  BY <1>1, <1>2

LEMMA TwoOfMany ==
  ASSUME NEW S, Cardinality(S) > 1
  PROVE  \E a, b \in S : a # b
<1>1. S # {}
  BY FS_EmptySet
<1>2. PICK a \in S : TRUE
  BY <1>1
<1>3. S # {a}
  BY FS_Singleton
<1> QED
  BY <1>2, <1>3

Fitting(config, g) ==
  \A f \in Field \ Exempt : Header[g].fields[f] \in {Absent, Effective(config, f)}

LEMMA WholeIsFaithful ==
  ASSUME NEW g \in File, Readable(g), NEW d,
         DOMAIN d.shards = DOMAIN Shards[g],
         \A i \in DOMAIN Shards[g] : d.shards[i] = ShardOf(g, i),
         d.index = Index(g), Fitting(d.config, g)
  PROVE  FaithfulTo(d, g)
<1>1. UNION {d.shards[i] : i \in DOMAIN d.shards} = Data[g]
  <2>1. ASSUME NEW t \in Data[g] PROVE \E i \in DOMAIN d.shards : t \in d.shards[i]
    <3>1. PICK n \in DOMAIN Tensors(g) : t = Dequantized(g, n)
      BY DEF Data
    <3>2. PICK i \in DOMAIN Shards[g] : HfName[n] \in Shards[g][i]
      BY ShardFacts
    <3> QED
      BY <3>1, <3>2 DEF ShardOf, InShard
  <2>2. \A i \in DOMAIN d.shards : d.shards[i] \subseteq Data[g]
    BY DEF Data, ShardOf, InShard
  <2> QED
    BY <2>1, <2>2
<1>2. WeightsOf(d) = g
  <2> DEFINE whole == {h \in File : Data[g] = Data[h]}
  <2>1. whole = {g}
    BY OneFile
  <2> QED
    BY <1>1, <2>1 DEF WeightsOf
<1>3. DOMAIN d.index = HfNames(g)
  BY DEF Index
<1>4. ASSUME NEW n \in DOMAIN Tensors(g), NEW i \in DOMAIN d.shards
      PROVE  Dequantized(g, n) \in d.shards[i] <=> d.index[HfName[n]] = i
  <2>1. Dequantized(g, n) \in ShardOf(g, i) <=> HfName[n] \in Shards[g][i]
    BY DEF ShardOf, InShard, Dequantized
  <2> QED
    BY <2>1, IndexIs
<1>5. ASSUME NEW i \in DOMAIN d.shards, Cardinality(d.shards[i]) > 1
      PROVE  Fits(g, {HfName[t.tensor] : t \in d.shards[i]})
  <2>1. i \in DOMAIN Shards[g] /\ d.shards[i] = ShardOf(g, i)
    OBVIOUS
  <2>2. PICK s \in ShardOf(g, i), t \in ShardOf(g, i) : s # t
    BY <1>5, <2>1, TwoOfMany
  <2>3. PICK m \in InShard(g, i), n \in InShard(g, i) : s = Dequantized(g, m) /\ t = Dequantized(g, n)
    BY DEF ShardOf
  <2>4. m # n /\ HfName[m] \in Shards[g][i] /\ HfName[n] \in Shards[g][i]
        /\ m \in DOMAIN Tensors(g) /\ n \in DOMAIN Tensors(g)
    BY <2>2, <2>3 DEF InShard
  <2>5. HfName[m] # HfName[n]
    BY <2>4 DEF Readable, Mapped
  <2>6. Fits(g, Shards[g][i])
    BY <2>1, <2>4, <2>5, ShardFacts
  <2> QED
    BY <2>1, <2>6, NamesOfShard
<1> QED
  BY <1>2, <1>3, <1>4, <1>5 DEF FaithfulTo, Fitting

\* What a conversion has written so far, of a file that is at its path in the
\* version now. The hash it took is that of the file it then opened, unless the
\* file was exchanged in between.
FirstShards(g, k) == [i \in 1..k |-> ShardOf(g, i)]
JobOf(at, sha, expected, read, sidecar, raced, tmp) ==
  [at |-> at, sha |-> sha, expected |-> expected, read |-> read, sidecar |-> sidecar,
   raced |-> raced, tmp |-> tmp]
JobShape(job) ==
  job = JobOf(job.at, job.sha, job.expected, job.read, job.sidecar, job.raced, job.tmp)
DirOf(shards, index, config, tokens, told, raced) ==
  [shards |-> shards, index |-> index, config |-> config, tokens |-> tokens,
   manifest |-> told, raced |-> raced]
DirShape(d) == d = DirOf(d.shards, d.index, d.config, d.tokens, d.manifest, d.raced)
Of(sha, g) == sha \in {Absent, g}
Whole(d, g) ==
  d.shards = FirstShards(g, Len(Shards[g])) /\ d.index = Index(g) /\ Fitting(d.config, g)

Sound(job, now) ==
  /\ JobShape(job)
  /\ job.at = "hashed" => job.raced \/ Of(job.sha, now)
  /\ job.at \in {"open", "rest", "written"} =>
       /\ job.read \in File /\ Readable(job.read) /\ SidecarFits(job.sidecar, job.read)
       /\ DirShape(job.tmp) /\ (job.tmp.raced \/ Of(job.sha, job.read))
  /\ job.at = "open" => \E k \in 0..Len(Shards[job.read]) : job.tmp.shards = FirstShards(job.read, k)
  /\ job.at \in {"rest", "written"} => Whole(job.tmp, job.read)
  /\ job.at = "written" =>
       /\ job.tmp.manifest.source = job.sha
       /\ Whole(job.tmp.manifest, job.read)

\* The manifest of a directory tells what was converted, whatever is damaged.
Recorded(d, g) ==
  /\ DirShape(d) /\ Readable(g) /\ Whole(d.manifest, g)
  /\ d.raced \/ Of(d.manifest.source, g)

\* What is compared, and not exchanged since, is what is there to be hashed.
CheckOf(s, raced) == [config |-> s.config, tokens |-> s.tokens, raced |-> raced]
CheckTrue ==
  \/ check = Absent
  \/ \E s \in Sidecar : check = CheckOf(s, TRUE) \/ (check = CheckOf(s, FALSE) /\ Compare(gguf, s))

WeightsInv ==
  /\ DOMAIN conv = Conv /\ gguf \in File
  /\ \A j \in Conv : Sound(conv[j], gguf)
  /\ out = Absent \/ \E g \in File : Recorded(out, g)
  /\ CheckTrue /\ ReceiptTrue

LEMMA SetAt ==
  ASSUME NEW at, NEW sha, NEW expected, NEW read, NEW sidecar, NEW raced, NEW tmp, NEW x
  PROVE  [JobOf(at, sha, expected, read, sidecar, raced, tmp) EXCEPT !.at = x]
           = JobOf(x, sha, expected, read, sidecar, raced, tmp)
  BY DEF JobOf

LEMMA SetSha ==
  ASSUME NEW at, NEW sha, NEW expected, NEW read, NEW sidecar, NEW raced, NEW tmp, NEW x
  PROVE  [JobOf(at, sha, expected, read, sidecar, raced, tmp) EXCEPT !.sha = x]
           = JobOf(at, x, expected, read, sidecar, raced, tmp)
  BY DEF JobOf

LEMMA SetExpected ==
  ASSUME NEW at, NEW sha, NEW expected, NEW read, NEW sidecar, NEW raced, NEW tmp, NEW x
  PROVE  [JobOf(at, sha, expected, read, sidecar, raced, tmp) EXCEPT !.expected = x]
           = JobOf(at, sha, x, read, sidecar, raced, tmp)
  BY DEF JobOf

LEMMA NoJobSound == \A now : Sound(NoJob, now)
  BY DEF Sound, JobShape, JobOf, NoJob

LEMMA FirstShardsAre ==
  ASSUME NEW g, NEW k \in Nat
  PROVE  /\ FirstShards(g, k) \in Seq({ShardOf(g, i) : i \in 1..k}) /\ Len(FirstShards(g, k)) = k
         /\ DOMAIN FirstShards(g, k) = 1..k /\ \A i \in 1..k : FirstShards(g, k)[i] = ShardOf(g, i)
  BY DEF FirstShards

LEMMA NextShard ==
  ASSUME NEW g, NEW k \in Nat
  PROVE  Append(FirstShards(g, k), ShardOf(g, k + 1)) = FirstShards(g, k + 1)
<1> DEFINE S == {ShardOf(g, i) : i \in 1..(k + 1)}
           s == FirstShards(g, k)
<1>1. s \in Seq({ShardOf(g, i) : i \in 1..k}) /\ Len(s) = k
  BY FirstShardsAre
<1>2. {ShardOf(g, i) : i \in 1..k} \subseteq S /\ ShardOf(g, k + 1) \in S
  OBVIOUS
<1>3. s \in Seq(S)
  <2> HIDE DEF S, s
  <2> QED
    BY <1>1, <1>2, SeqMonotonic
<1>4. Append(s, ShardOf(g, k + 1)) = [i \in 1..(k + 1) |-> IF i = k + 1 THEN ShardOf(g, k + 1) ELSE s[i]]
  <2> HIDE DEF S, s
  <2> QED
    BY <1>1, <1>2, <1>3, AppendIs
<1>5. \A i \in 1..(k + 1) : (IF i = k + 1 THEN ShardOf(g, k + 1) ELSE s[i]) = ShardOf(g, i)
  BY DEF FirstShards
<1> QED
  BY <1>4, <1>5 DEF FirstShards

LEMMA WholeShards ==
  ASSUME NEW g \in File, Readable(g), NEW m, Whole(m, g)
  PROVE  /\ DOMAIN m.shards = DOMAIN Shards[g] /\ 1 \in DOMAIN m.shards
         /\ \A i \in DOMAIN Shards[g] : m.shards[i] = ShardOf(g, i)
<1> DEFINE k == Len(Shards[g])
<1>1. k \in Nat /\ k >= 1 /\ DOMAIN Shards[g] = 1..k
  BY ShardFacts
<1>2. m.shards = FirstShards(g, k)
  BY DEF Whole
<1> HIDE DEF k
<1>3. DOMAIN FirstShards(g, k) = 1..k /\ \A i \in 1..k : FirstShards(g, k)[i] = ShardOf(g, i)
  BY <1>1, FirstShardsAre
<1> QED
  BY <1>1, <1>2, <1>3

LEMMA WholeFaithful ==
  ASSUME NEW g \in File, Readable(g), NEW m, Whole(m, g), NEW d, DOMAIN d.shards = DOMAIN m.shards,
         \A i \in DOMAIN m.shards : d.shards[i] = m.shards[i],
         d.index = m.index, d.config = m.config
  PROVE  FaithfulTo(d, g)
  BY WholeShards, WholeIsFaithful DEF Whole

LEMMA WholeHasManifest ==
  ASSUME NEW g \in File, Readable(g), NEW m, Whole(m, g)
  PROVE  m # NoManifest
<1>1. 1 \in DOMAIN m.shards
  BY WholeShards
<1>2. DOMAIN NoManifest.shards = {}
  BY DEF NoManifest
<1> QED
  BY <1>1, <1>2

\* One job is set and the rest is left alone.
LEMMA JobKeeps ==
  ASSUME WeightsInv, NEW j \in Conv, NEW job, Sound(job, gguf), SetConv(j, job), RestOfConv
  PROVE  WeightsInv'
<1>1. gguf' = gguf /\ out' = out /\ receipt' = receipt /\ check' = check
  BY DEF RestOfConv
<1>2. DOMAIN conv' = Conv /\ \A k \in Conv : conv'[k] = IF k = j THEN job ELSE conv[k]
  BY DEF SetConv, WeightsInv
<1> QED
  BY <1>1, <1>2 DEF WeightsInv, CheckTrue, ReceiptTrue

LEMMA HashKeeps ==
  ASSUME WeightsInv, NEW j \in Conv, NEW expected, NEW skip \in BOOLEAN, Hash(j, expected, skip)
  PROVE  WeightsInv'
<1> DEFINE job == [NoJob EXCEPT !.at = "hashed", !.sha = IF skip THEN Absent ELSE gguf,
                                !.expected = expected]
<1>1. SetConv(j, job) /\ RestOfConv
  BY DEF Hash
<1> DEFINE sha == IF skip THEN Absent ELSE gguf
<1>2. job = JobOf("hashed", sha, expected, Absent, Absent, FALSE, Absent)
  <2>no. PICK no \in BOOLEAN : no = FALSE
    OBVIOUS
  <2> DEFINE with(at, h, e) == JobOf(at, h, e, Absent, Absent, no, Absent)
  <2>0. NoJob = with("idle", Absent, Absent)
    BY <2>no DEF NoJob, JobOf
  <2>1. [with("idle", Absent, Absent) EXCEPT !.at = "hashed"] = with("hashed", Absent, Absent)
    BY SetAt
  <2> HIDE DEF sha
  <2>2. [with("hashed", Absent, Absent) EXCEPT !.sha = sha] = with("hashed", sha, Absent)
    BY SetSha
  <2>3. [with("hashed", sha, Absent) EXCEPT !.expected = expected] = with("hashed", sha, expected)
    BY SetExpected
  <2>4. job = [[[NoJob EXCEPT !.at = "hashed"] EXCEPT !.sha = sha] EXCEPT !.expected = expected]
    BY DEF sha
  <2> HIDE DEF with
  <2>5. job = with("hashed", sha, expected)
    BY <2>0, <2>1, <2>2, <2>3, <2>4
  <2> QED
    BY <2>no, <2>5 DEF with
<1>3. Sound(job, gguf)
  BY <1>2 DEF Sound, JobShape, JobOf, Of
<1> QED
  BY <1>1, <1>3, JobKeeps

LEMMA OpenKeeps ==
  ASSUME WeightsInv, NEW j \in Conv, NEW s, Open(j, s)
  PROVE  WeightsInv'
<1> DEFINE old == conv[j]
           tmp == [NewDir EXCEPT !.raced = old.raced]
           job == [old EXCEPT !.at = "open", !.read = gguf, !.sidecar = s, !.tmp = tmp]
<1>1. SetConv(j, job) /\ RestOfConv /\ old.at = "hashed" /\ Readable(gguf) /\ SidecarFits(s, gguf)
  BY DEF Open, At
<1>2. Sound(old, gguf) /\ gguf \in File
  BY DEF WeightsInv
<1>3. tmp = [shards |-> <<>>, index |-> Absent, config |-> Absent, tokens |-> Absent,
             manifest |-> NoManifest, raced |-> old.raced]
  BY DEF NewDir
<1> HIDE DEF tmp
<1>4. job = JobOf("open", old.sha, old.expected, gguf, s, old.raced, tmp)
  <2> DEFINE at(a, read, t) == JobOf(a, old.sha, old.expected, read, t, old.raced, old.tmp)
  <2>1. old = at(old.at, old.read, old.sidecar)
    BY <1>2 DEF Sound, JobShape
  <2>2. job = [[[[old EXCEPT !.at = "open"] EXCEPT !.read = gguf] EXCEPT !.sidecar = s] EXCEPT !.tmp = tmp]
    OBVIOUS
  <2> HIDE DEF old, job
  <2>3. [old EXCEPT !.at = "open"] = at("open", old.read, old.sidecar)
    BY <2>1 DEF JobOf
  <2>4. [at("open", old.read, old.sidecar) EXCEPT !.read = gguf] = at("open", gguf, old.sidecar)
    BY DEF JobOf
  <2>5. [at("open", gguf, old.sidecar) EXCEPT !.sidecar = s] = at("open", gguf, s)
    BY DEF JobOf
  <2>6. [at("open", gguf, s) EXCEPT !.tmp = tmp] = JobOf("open", old.sha, old.expected, gguf, s, old.raced, tmp)
    BY DEF JobOf
  <2> HIDE DEF at
  <2> QED
    BY <2>2, <2>3, <2>4, <2>5, <2>6
<1>5. old.raced \/ Of(old.sha, gguf)
  BY <1>1, <1>2 DEF Sound
<1>6. \E k \in 0..Len(Shards[gguf]) : tmp.shards = FirstShards(gguf, k)
  <2>1. FirstShards(gguf, 0) = <<>>
    BY DEF FirstShards
  <2>2. 0 \in 0..Len(Shards[gguf])
    BY <1>1, <1>2, ShardFacts
  <2> QED
    BY <1>3, <2>1, <2>2
<1> HIDE DEF old
<1>7. JobShape(job) /\ DirShape(tmp)
  BY <1>3, <1>4 DEF JobShape, JobOf, DirShape, DirOf
<1>8. Sound(job, gguf)
  <2> HIDE DEF job
  <2> QED
    BY <1>1, <1>2, <1>3, <1>4, <1>5, <1>6, <1>7 DEF Sound, JobOf
<1> QED
  BY <1>1, <1>8, JobKeeps

LEMMA WriteShardKeeps ==
  ASSUME WeightsInv, NEW j \in Conv, WriteShard(j)
  PROVE  WeightsInv'
<1> DEFINE old == conv[j]
           g == old.read
           i == Len(old.tmp.shards) + 1
           tmp == [old.tmp EXCEPT !.shards = Append(old.tmp.shards, ShardOf(g, i))]
           job == [old EXCEPT !.tmp = tmp]
<1>1. SetConv(j, job) /\ RestOfConv /\ old.at = "open" /\ i \in DOMAIN Shards[g]
  BY DEF WriteShard, At
<1>2. Sound(old, gguf)
  BY DEF WeightsInv
<1>3. g \in File /\ Readable(g) /\ JobShape(old) /\ DirShape(old.tmp)
  BY <1>1, <1>2 DEF Sound
<1>4. PICK k \in 0..Len(Shards[g]) : old.tmp.shards = FirstShards(g, k)
  BY <1>1, <1>2 DEF Sound
<1>5. k \in Nat /\ Len(old.tmp.shards) = k /\ k + 1 \in 0..Len(Shards[g]) /\ i = k + 1
  <2>1. k \in Nat /\ DOMAIN Shards[g] = 1..Len(Shards[g]) /\ Len(Shards[g]) \in Nat
    BY <1>3, <1>4, ShardFacts
  <2>2. Len(old.tmp.shards) = k
    BY <1>4, <2>1, FirstShardsAre
  <2> QED
    BY <1>1, <2>1, <2>2
<1>6. Append(old.tmp.shards, ShardOf(g, i)) = FirstShards(g, k + 1)
  BY <1>4, <1>5, NextShard
<1>7. tmp = [shards |-> FirstShards(g, k + 1), index |-> old.tmp.index, config |-> old.tmp.config,
             tokens |-> old.tmp.tokens, manifest |-> old.tmp.manifest, raced |-> old.tmp.raced]
  <2> DEFINE d == old.tmp
  <2>1. DirShape(d) /\ tmp = [d EXCEPT !.shards = FirstShards(g, k + 1)]
    BY <1>3, <1>6
  <2> HIDE DEF d, tmp
  <2>2. tmp = [shards |-> FirstShards(g, k + 1), index |-> d.index, config |-> d.config,
               tokens |-> d.tokens, manifest |-> d.manifest, raced |-> d.raced]
    BY <2>1 DEF DirShape, DirOf
  <2> QED
    BY <2>2 DEF d
<1> HIDE DEF tmp
<1>8. job = JobOf("open", old.sha, old.expected, g, old.sidecar, old.raced, tmp)
  <2> HIDE DEF old
  <2> QED
    BY <1>1, <1>3 DEF JobShape, JobOf
<1> HIDE DEF old
<1>9. JobShape(job) /\ DirShape(tmp)
  BY <1>7, <1>8 DEF JobShape, JobOf, DirShape, DirOf
<1>10. Sound(job, gguf)
  <2> HIDE DEF job
  <2> QED
    BY <1>1, <1>2, <1>5, <1>7, <1>8, <1>9 DEF Sound, JobOf
<1> QED
  BY <1>1, <1>10, JobKeeps

\* What setting one part of a job leaves as it was.
RestKept(new, job) ==
  /\ JobShape(new) /\ DirShape(new.tmp)
  /\ new.sha = job.sha /\ new.expected = job.expected /\ new.read = job.read
  /\ new.sidecar = job.sidecar /\ new.raced = job.raced
  /\ new.tmp.shards = job.tmp.shards /\ new.tmp.raced = job.tmp.raced

PutAt(job, x) == [job EXCEPT !.at = x]

LEMMA AtSet ==
  ASSUME NEW job, JobShape(job), DirShape(job.tmp), NEW x, NEW new, new = PutAt(job, x)
  PROVE  RestKept(new, job) /\ new.at = x /\ new.tmp = job.tmp
  BY DEF PutAt, RestKept, JobShape, JobOf

PutIndex(job, x) == [job EXCEPT !.tmp.index = x]

LEMMA IndexSet ==
  ASSUME NEW job, JobShape(job), DirShape(job.tmp), NEW x, NEW new, new = PutIndex(job, x)
  PROVE  RestKept(new, job) /\ new.at = job.at
         /\ new.tmp.index = x /\ new.tmp.config = job.tmp.config /\ new.tmp.tokens = job.tmp.tokens
         /\ new.tmp.manifest = job.tmp.manifest
<1> DEFINE dir == [job.tmp EXCEPT !.index = x]
<1>1. /\ DirShape(dir) /\ dir.shards = job.tmp.shards /\ dir.raced = job.tmp.raced
      /\ dir.index = x /\ dir.config = job.tmp.config /\ dir.tokens = job.tmp.tokens /\ dir.manifest = job.tmp.manifest
  BY DEF DirShape, DirOf
<1>2. new = [job EXCEPT !.tmp = dir]
  BY DEF PutIndex
<1> HIDE DEF dir
<1>3. /\ JobShape(new) /\ new.at = job.at /\ new.sha = job.sha /\ new.expected = job.expected
      /\ new.read = job.read /\ new.sidecar = job.sidecar /\ new.raced = job.raced /\ new.tmp = dir
  BY <1>2 DEF JobShape, JobOf
<1> QED
  BY <1>1, <1>3 DEF RestKept

PutConfig(job, x) == [job EXCEPT !.tmp.config = x]

LEMMA ConfigSet ==
  ASSUME NEW job, JobShape(job), DirShape(job.tmp), NEW x, NEW new, new = PutConfig(job, x)
  PROVE  RestKept(new, job) /\ new.at = job.at
         /\ new.tmp.index = job.tmp.index /\ new.tmp.config = x /\ new.tmp.tokens = job.tmp.tokens
         /\ new.tmp.manifest = job.tmp.manifest
<1> DEFINE dir == [job.tmp EXCEPT !.config = x]
<1>1. /\ DirShape(dir) /\ dir.shards = job.tmp.shards /\ dir.raced = job.tmp.raced
      /\ dir.index = job.tmp.index /\ dir.config = x /\ dir.tokens = job.tmp.tokens /\ dir.manifest = job.tmp.manifest
  BY DEF DirShape, DirOf
<1>2. new = [job EXCEPT !.tmp = dir]
  BY DEF PutConfig
<1> HIDE DEF dir
<1>3. /\ JobShape(new) /\ new.at = job.at /\ new.sha = job.sha /\ new.expected = job.expected
      /\ new.read = job.read /\ new.sidecar = job.sidecar /\ new.raced = job.raced /\ new.tmp = dir
  BY <1>2 DEF JobShape, JobOf
<1> QED
  BY <1>1, <1>3 DEF RestKept

PutTokens(job, x) == [job EXCEPT !.tmp.tokens = x]

LEMMA TokensSet ==
  ASSUME NEW job, JobShape(job), DirShape(job.tmp), NEW x, NEW new, new = PutTokens(job, x)
  PROVE  RestKept(new, job) /\ new.at = job.at
         /\ new.tmp.index = job.tmp.index /\ new.tmp.config = job.tmp.config /\ new.tmp.tokens = x
         /\ new.tmp.manifest = job.tmp.manifest
<1> DEFINE dir == [job.tmp EXCEPT !.tokens = x]
<1>1. /\ DirShape(dir) /\ dir.shards = job.tmp.shards /\ dir.raced = job.tmp.raced
      /\ dir.index = job.tmp.index /\ dir.config = job.tmp.config /\ dir.tokens = x /\ dir.manifest = job.tmp.manifest
  BY DEF DirShape, DirOf
<1>2. new = [job EXCEPT !.tmp = dir]
  BY DEF PutTokens
<1> HIDE DEF dir
<1>3. /\ JobShape(new) /\ new.at = job.at /\ new.sha = job.sha /\ new.expected = job.expected
      /\ new.read = job.read /\ new.sidecar = job.sidecar /\ new.raced = job.raced /\ new.tmp = dir
  BY <1>2 DEF JobShape, JobOf
<1> QED
  BY <1>1, <1>3 DEF RestKept

PutManifest(job, x) == [job EXCEPT !.tmp.manifest = x]

LEMMA ManifestSet ==
  ASSUME NEW job, JobShape(job), DirShape(job.tmp), NEW x, NEW new, new = PutManifest(job, x)
  PROVE  RestKept(new, job) /\ new.at = job.at
         /\ new.tmp.index = job.tmp.index /\ new.tmp.config = job.tmp.config /\ new.tmp.tokens = job.tmp.tokens
         /\ new.tmp.manifest = x
<1> DEFINE dir == [job.tmp EXCEPT !.manifest = x]
<1>1. /\ DirShape(dir) /\ dir.shards = job.tmp.shards /\ dir.raced = job.tmp.raced
      /\ dir.index = job.tmp.index /\ dir.config = job.tmp.config /\ dir.tokens = job.tmp.tokens /\ dir.manifest = x
  BY DEF DirShape, DirOf
<1>2. new = [job EXCEPT !.tmp = dir]
  BY DEF PutManifest
<1> HIDE DEF dir
<1>3. /\ JobShape(new) /\ new.at = job.at /\ new.sha = job.sha /\ new.expected = job.expected
      /\ new.read = job.read /\ new.sidecar = job.sidecar /\ new.raced = job.raced /\ new.tmp = dir
  BY <1>2 DEF JobShape, JobOf
<1> QED
  BY <1>1, <1>3 DEF RestKept

LEMMA ConfigFits ==
  ASSUME NEW g \in File, NEW s, SidecarFits(s, g)
  PROVE  Fitting(IF s = Absent THEN Reconstructed(g) ELSE s.config, g)
<1>1. CASE s = Absent
  BY <1>1 DEF Fitting, Reconstructed, Effective
<1>2. CASE s # Absent
  BY <1>2 DEF Fitting, Reconstructed, SidecarFits, CrossValid, Matches
<1> QED
  BY <1>1, <1>2

LEMMA WriteRestKeeps ==
  ASSUME WeightsInv, NEW j \in Conv, WriteRest(j)
  PROVE  WeightsInv'
<1> DEFINE old == conv[j]
           g == old.read
           d == old.tmp
           s == old.sidecar
           config == IF s = Absent THEN Reconstructed(g) ELSE s.config
           tokens == IF s = Absent THEN Absent ELSE s.tokens
           job == [old EXCEPT !.at = "rest", !.tmp.index = Index(g), !.tmp.config = config,
                              !.tmp.tokens = tokens]
<1>1. SetConv(j, job) /\ RestOfConv /\ old.at = "open" /\ Len(d.shards) = Len(Shards[g])
  BY DEF WriteRest, At
<1>2. Sound(old, gguf)
  BY DEF WeightsInv
<1>3. g \in File /\ Readable(g) /\ SidecarFits(s, g) /\ JobShape(old) /\ DirShape(d)
      /\ (d.raced \/ Of(old.sha, g))
  BY <1>1, <1>2 DEF Sound
<1>4. PICK k \in 0..Len(Shards[g]) : d.shards = FirstShards(g, k)
  BY <1>1, <1>2 DEF Sound
<1>5. d.shards = FirstShards(g, Len(Shards[g]))
  <2>1. k \in Nat
    BY <1>3, <1>4, ShardFacts
  <2>2. Len(d.shards) = k
    BY <1>4, <2>1, FirstShardsAre
  <2> QED
    BY <1>1, <1>4, <2>2
<1>6. Fitting(config, g)
  BY <1>3, ConfigFits
<1>7. PICK job1 : job1 = PutAt(old, "rest")
  OBVIOUS
<1>8. PICK job2 : job2 = PutIndex(job1, Index(g))
  OBVIOUS
<1>9. PICK job3 : job3 = PutConfig(job2, config)
  OBVIOUS
<1> HIDE DEF config, tokens
<1>10. job = PutTokens(job3, tokens)
  BY <1>7, <1>8, <1>9 DEF PutAt, PutIndex, PutConfig, PutTokens
<1> HIDE DEF job
<1>11. RestKept(job1, old) /\ job1.at = "rest"
  BY <1>3, <1>7, AtSet
<1>12. RestKept(job2, job1) /\ job2.at = "rest" /\ job2.tmp.index = Index(g)
  <2>1. JobShape(job1) /\ DirShape(job1.tmp)
    BY <1>11 DEF RestKept
  <2> QED
    BY <1>8, <1>11, <2>1, IndexSet
<1>13. RestKept(job3, job2) /\ job3.at = "rest" /\ job3.tmp.index = Index(g) /\ job3.tmp.config = config
  <2>1. JobShape(job2) /\ DirShape(job2.tmp)
    BY <1>12 DEF RestKept
  <2> QED
    BY <1>9, <1>12, <2>1, ConfigSet
<1>14. RestKept(job, job3) /\ job.at = "rest" /\ job.tmp.index = Index(g) /\ job.tmp.config = config
  <2>1. JobShape(job3) /\ DirShape(job3.tmp)
    BY <1>13 DEF RestKept
  <2> QED
    BY <1>10, <1>13, <2>1, TokensSet
<1>15. /\ JobShape(job) /\ DirShape(job.tmp)
       /\ job.read = g /\ job.sidecar = s /\ job.sha = old.sha
       /\ job.tmp.shards = d.shards /\ job.tmp.raced = d.raced
  BY <1>11, <1>12, <1>13, <1>14 DEF RestKept
<1>16. Sound(job, gguf)
  <2>1. Whole(job.tmp, g)
    BY <1>5, <1>6, <1>14, <1>15 DEF Whole
  <2> HIDE DEF d, g, s, old
  <2> QED
    BY <1>3, <1>14, <1>15, <2>1 DEF Sound
<1> QED
  BY <1>1, <1>16, JobKeeps DEF job, config, tokens

LEMMA WriteManifestKeeps ==
  ASSUME WeightsInv, NEW j \in Conv, WriteDequantManifest(j)
  PROVE  WeightsInv'
<1> DEFINE old == conv[j]
           g == old.read
           d == old.tmp
           m == Manifest(old)
           job == [old EXCEPT !.at = "written", !.tmp.manifest = m]
<1>1. SetConv(j, job) /\ RestOfConv /\ old.at = "rest"
  BY DEF WriteDequantManifest, At
<1>2. Sound(old, gguf)
  BY DEF WeightsInv
<1>3. g \in File /\ Readable(g) /\ SidecarFits(old.sidecar, g) /\ JobShape(old) /\ DirShape(d)
      /\ (d.raced \/ Of(old.sha, g)) /\ Whole(d, g)
  BY <1>1, <1>2 DEF Sound
<1>4. m.source = old.sha /\ m.shards = d.shards /\ m.index = d.index /\ m.config = d.config
  BY DEF Manifest
<1> HIDE DEF m
<1>5. PICK job1 : job1 = PutAt(old, "written")
  OBVIOUS
<1>6. job = PutManifest(job1, m)
  BY <1>5 DEF PutAt, PutManifest
<1> HIDE DEF job
<1>7. RestKept(job1, old) /\ job1.at = "written" /\ job1.tmp = d
  BY <1>3, <1>5, AtSet
<1>8. RestKept(job, job1) /\ job.at = "written" /\ job.tmp.manifest = m
      /\ job.tmp.index = d.index /\ job.tmp.config = d.config
  BY <1>6, <1>7, ManifestSet DEF RestKept
<1>9. /\ JobShape(job) /\ DirShape(job.tmp)
      /\ job.read = g /\ job.sidecar = old.sidecar /\ job.sha = old.sha
      /\ job.tmp.shards = d.shards /\ job.tmp.raced = d.raced
  BY <1>7, <1>8 DEF RestKept
<1>10. Sound(job, gguf)
  <2>1. Whole(job.tmp, g) /\ Whole(m, g)
    BY <1>3, <1>4, <1>8, <1>9 DEF Whole
  <2> HIDE DEF d, g, old
  <2> QED
    BY <1>3, <1>4, <1>8, <1>9, <2>1 DEF Sound
<1> QED
  BY <1>1, <1>10, JobKeeps DEF job, m

LEMMA ReplaceKeeps ==
  ASSUME WeightsInv, NEW j \in Conv, Replace(j)
  PROVE  WeightsInv'
<1> DEFINE job == conv[j]
           d == job.tmp
<1>1. job.at = "written" /\ out' = d /\ SetConv(j, NoJob) /\ gguf' = gguf /\ receipt' = receipt
      /\ check' = check
  BY DEF Replace, Finished, At
<1>2. Sound(job, gguf)
  BY DEF WeightsInv
<1>3. job.read \in File /\ Recorded(d, job.read)
  <2> HIDE DEF job
  <2> QED
    BY <1>1, <1>2 DEF Sound, Recorded
<1>4. DOMAIN conv' = Conv /\ \A k \in Conv : conv'[k] = IF k = j THEN NoJob ELSE conv[k]
  BY <1>1 DEF SetConv, WeightsInv
<1>5. \A k \in Conv : Sound(conv'[k], gguf')
  BY <1>1, <1>4, NoJobSound DEF WeightsInv
<1>6. \E g \in File : Recorded(out', g)
  BY <1>1, <1>3
<1>7. CheckTrue' /\ ReceiptTrue'
  BY <1>1 DEF WeightsInv, CheckTrue, ReceiptTrue
<1> QED
  BY <1>1, <1>4, <1>5, <1>6, <1>7 DEF WeightsInv

LEMMA FetchKeeps ==
  ASSUME WeightsInv, NEW now \in File, Fetch(now)
  PROVE  WeightsInv'
<1>1. gguf' = now /\ out' = out /\ receipt' = receipt
  BY DEF Fetch
<1>2. DOMAIN conv' = Conv
      /\ \A k \in Conv : conv'[k] = IF conv[k].at = "hashed" THEN [conv[k] EXCEPT !.raced = TRUE] ELSE conv[k]
  BY DEF Fetch
<1>3. ASSUME NEW k \in Conv PROVE Sound(conv'[k], now)
  <2> DEFINE old == conv[k]
  <2>1. Sound(old, gguf)
    BY DEF WeightsInv
  <2>2. CASE old.at = "hashed"
    <3>1. PICK yes \in BOOLEAN : yes = TRUE
      OBVIOUS
    <3>2. PICK job : job = [old EXCEPT !.raced = yes]
      OBVIOUS
    <3>3. conv'[k] = job
      BY <1>2, <2>2, <3>1, <3>2
    <3> HIDE DEF old
    <3>4. JobShape(job) /\ job.raced = yes /\ job.at = old.at
      BY <2>1, <3>2 DEF Sound, JobShape, JobOf
    <3>5. Sound(job, now)
      BY <2>2, <3>1, <3>4 DEF Sound
    <3> QED
      BY <3>3, <3>5
  <2>3. CASE old.at # "hashed"
    <3>1. conv'[k] = old
      BY <1>2, <2>3
    <3> HIDE DEF old
    <3> QED
      BY <2>1, <2>3, <3>1 DEF Sound
  <2> QED
    BY <2>2, <2>3
<1>4. ReceiptTrue'
  BY <1>1 DEF WeightsInv, ReceiptTrue
<1>5. CheckTrue'
  <2>1. CASE check = Absent
    BY <2>1 DEF Fetch, CheckTrue
  <2>2. CASE check # Absent
    <3>1. PICK s \in Sidecar, raced \in BOOLEAN : check = CheckOf(s, raced)
      BY <2>2 DEF WeightsInv, CheckTrue
    <3>2. PICK yes \in BOOLEAN : yes = TRUE
      OBVIOUS
    <3>3. check' = [check EXCEPT !.raced = yes]
      BY <2>2, <3>2 DEF Fetch
    <3>4. check' = CheckOf(s, yes)
      BY <3>1, <3>3 DEF CheckOf
    <3> QED
      BY <3>2, <3>4 DEF CheckTrue
  <2> QED
    BY <2>1, <2>2
<1> QED
  BY <1>1, <1>2, <1>3, <1>4, <1>5 DEF WeightsInv

LEMMA DamageKeeps ==
  ASSUME WeightsInv, Damage
  PROVE  WeightsInv'
<1>1. out # Absent /\ out' \in Damages(out) /\ gguf' = gguf /\ conv' = conv /\ receipt' = receipt
      /\ check' = check
  BY DEF Damage
<1>2. PICK g \in File : Recorded(out, g)
  BY <1>1 DEF WeightsInv
<1>3. DirShape(out)
  BY <1>2 DEF Recorded
<1>4. (\E x : out' = [out EXCEPT !.shards = x]) \/ (\E x : out' = [out EXCEPT !.config = x])
  BY <1>1 DEF Damages
<1>5. DirShape(out') /\ out'.manifest = out.manifest /\ out'.raced = out.raced
  <2>1. PICK d : d = out
    OBVIOUS
  <2>2. ASSUME NEW x, out' = [d EXCEPT !.shards = x] PROVE <1>5
    <3>1. PICK e : e = [d EXCEPT !.shards = x]
      OBVIOUS
    <3>2. DirShape(e) /\ e.manifest = d.manifest /\ e.raced = d.raced
      BY <1>3, <2>1, <3>1 DEF DirShape, DirOf
    <3> QED
      BY <2>1, <2>2, <3>1, <3>2
  <2>3. ASSUME NEW x, out' = [d EXCEPT !.config = x] PROVE <1>5
    <3>1. PICK e : e = [d EXCEPT !.config = x]
      OBVIOUS
    <3>2. DirShape(e) /\ e.manifest = d.manifest /\ e.raced = d.raced
      BY <1>3, <2>1, <3>1 DEF DirShape, DirOf
    <3> QED
      BY <2>1, <2>3, <3>1, <3>2
  <2> QED
    BY <1>4, <2>1, <2>2, <2>3
<1>6. Recorded(out', g)
  BY <1>2, <1>5 DEF Recorded
<1>7. CheckTrue' /\ ReceiptTrue'
  BY <1>1 DEF WeightsInv, CheckTrue, ReceiptTrue
<1> QED
  BY <1>1, <1>6, <1>7 DEF WeightsInv

\* What passes the check is what its manifest tells, and that is the pin.
LEMMA VerifyDequantKeeps ==
  ASSUME WeightsInv, NEW skip \in BOOLEAN, VerifyDequant(skip)
  PROVE  WeightsInv'
<1>1. out # Absent /\ CheckDequantManifest(out, skip) /\ gguf' = gguf /\ out' = out /\ conv' = conv
      /\ check' = check
  BY DEF VerifyDequant, Receive
<1>2. receipt' = [scheme |-> "dequant", verified |-> ~skip, of |-> out]
  BY DEF VerifyDequant, Receive
<1>3. PICK g \in File : Recorded(out, g)
  BY <1>1 DEF WeightsInv
<1>4. ASSUME ~out.raced PROVE FaithfulTo(out, Pin)
  <2> DEFINE m == out.manifest
  <2>1. m.source = Pin /\ Of(m.source, g) /\ Readable(g) /\ Whole(m, g)
    BY <1>1, <1>3, <1>4 DEF Recorded, CheckDequantManifest, SourcePinned
  <2>2. g = Pin
    BY <2>1, PinnedFile DEF Of
  <2>3. /\ DOMAIN m.shards = DOMAIN out.shards /\ \A i \in DOMAIN m.shards : out.shards[i] = m.shards[i]
        /\ out.index = m.index /\ out.config = m.config
    BY <1>1 DEF CheckDequantManifest, Rehash, NoOrphan
  <2> HIDE DEF m
  <2>4. FaithfulTo(out, g)
    BY <2>1, <2>3, WholeFaithful
  <2> QED
    BY <2>2, <2>4
<1>5. ReceiptTrue'
  <2>1. receipt'.scheme = "dequant" /\ receipt'.of = out
    BY <1>2
  <2>2. FaithfulTo(receipt'.of, Pin) \/ receipt'.of.raced
    BY <1>4, <2>1
  <2> QED
    BY <2>1, <2>2 DEF ReceiptTrue
<1> QED
  BY <1>1, <1>5 DEF WeightsInv, CheckTrue

LEMMA CompareFp16Keeps ==
  ASSUME WeightsInv, NEW s \in Sidecar, CompareFp16(s)
  PROVE  WeightsInv'
<1>1. /\ Compare(gguf, s) /\ check' = CheckOf(s, FALSE)
      /\ UNCHANGED <<gguf, out, conv, receipt>>
  BY DEF CompareFp16, CheckOf
<1>2. CheckTrue' /\ ReceiptTrue'
  BY <1>1 DEF WeightsInv, CheckTrue, ReceiptTrue
<1> QED
  BY <1>1, <1>2 DEF WeightsInv

LEMMA VerifyFp16Keeps ==
  ASSUME WeightsInv, NEW skip \in BOOLEAN, VerifyFp16(skip)
  PROVE  WeightsInv'
<1>1. /\ check # Absent /\ HashPinned(skip) /\ UNCHANGED <<gguf, out, conv>> /\ check' = Absent
      /\ receipt' = [scheme |-> "fp16", verified |-> ~skip, of |-> check]
  BY DEF VerifyFp16, Receive
<1>2. PICK s \in Sidecar :
        check = CheckOf(s, TRUE) \/ (check = CheckOf(s, FALSE) /\ Compare(gguf, s))
  BY <1>1 DEF WeightsInv, CheckTrue
<1>3. check.config = s.config /\ (check.raced \/ Compare(gguf, s))
  BY <1>2 DEF CheckOf
<1>4. ASSUME ~skip, ~check.raced
      PROVE  \A f \in Compared \cup Optional :
               Absent \in {Header[Pin].fields[f], s.config[f]} \/ Header[Pin].fields[f] = s.config[f]
  <2>1. gguf = Pin /\ Compare(gguf, s)
    BY <1>1, <1>3, <1>4 DEF HashPinned
  <2> QED
    BY <2>1 DEF Compare
<1>5. receipt'.scheme = "fp16" /\ receipt'.of = check /\ (receipt'.verified => ~skip)
  BY <1>1
<1>6. ReceiptTrue'
  BY <1>3, <1>4, <1>5 DEF ReceiptTrue
<1> QED
  BY <1>1, <1>6 DEF WeightsInv, CheckTrue

LEMMA AbandonFp16Keeps == ASSUME WeightsInv, AbandonFp16 PROVE WeightsInv'
  BY DEF AbandonFp16, WeightsInv, CheckTrue, ReceiptTrue

LEMMA WeightsBegin == WeightsInit => WeightsInv
  BY NoJobSound DEF WeightsInit, WeightsInv, CheckTrue, ReceiptTrue

LEMMA WeightsGoOn == WeightsInv /\ [WeightsNext]_weightsVars => WeightsInv'
<1> SUFFICES ASSUME WeightsInv, [WeightsNext]_weightsVars PROVE WeightsInv'
  OBVIOUS
<1>1. CASE UNCHANGED <<gguf, out, conv, receipt, check>>
  BY <1>1 DEF WeightsInv, CheckTrue, ReceiptTrue
<1>2. CASE UNCHANGED weightsVars
  BY <1>1, <1>2 DEF weightsVars
<1>3. CASE \E g \in File : Fetch(g)
  BY <1>3, FetchKeeps
<1>4. ASSUME NEW j \in Conv, Convert(j) PROVE WeightsInv'
  <2>1. CASE \E expected \in {Pin, Absent}, skip \in BOOLEAN : Hash(j, expected, skip)
    BY <2>1, HashKeeps
  <2>2. CASE \E s \in Sidecar \cup {Absent} : Open(j, s)
    BY <2>2, OpenKeeps
  <2>3. CASE Refuse(j) \/ Abort(j) \/ KillConversion(j)
    <3>1. SetConv(j, NoJob) /\ RestOfConv
      BY <2>3 DEF Refuse, Abort, KillConversion
    <3> QED
      BY <3>1, NoJobSound, JobKeeps
  <2>4. CASE WriteShard(j)
    BY <2>4, WriteShardKeeps
  <2>5. CASE WriteRest(j)
    BY <2>5, WriteRestKeeps
  <2>6. CASE WriteDequantManifest(j)
    BY <2>6, WriteManifestKeeps
  <2>7. CASE Replace(j)
    BY <2>7, ReplaceKeeps
  <2> QED
    BY <1>4, <2>1, <2>2, <2>3, <2>4, <2>5, <2>6, <2>7 DEF Convert
<1>5. CASE Damage
  BY <1>5, DamageKeeps
<1>6. CASE \E skip \in BOOLEAN : VerifyDequant(skip) \/ VerifyFp16(skip)
  BY <1>6, VerifyDequantKeeps, VerifyFp16Keeps
<1>8. CASE (\E s \in Sidecar : CompareFp16(s)) \/ AbandonFp16
  BY <1>8, CompareFp16Keeps, AbandonFp16Keeps
<1>7. CASE Gate
  BY <1>1, <1>7 DEF Gate, StartGate, Call, CallFails, Finish, RestOfGate
<1> QED
  BY <1>2, <1>3, <1>4, <1>5, <1>6, <1>7, <1>8 DEF WeightsNext

\* Theorem. A receipt that says the source was verified is about the weights of
\* the pinned file, or a configuration with its fields, whatever was fetched,
\* converted or damaged before, unless the file was exchanged between a
\* conversion's hash and its opening it, or between the comparison of its header
\* and its hash.
THEOREM ReceiptsTrue == WeightsSpec => []ReceiptTrue
<1>1. WeightsInv => ReceiptTrue
  BY DEF WeightsInv
<1> QED
  BY <1>1, WeightsBegin, WeightsGoOn, PTL DEF WeightsSpec

LEMMA ReplaceWhole ==
  ASSUME WeightsInv, NEW j \in Conv, Replace(j)
  PROVE  out = Absent /\ out'.manifest # NoManifest /\ \E g \in File : FaithfulTo(out', g)
<1> DEFINE job == conv[j]
           g == job.read
           d == job.tmp
<1>1. job.at = "written" /\ out = Absent /\ out' = d
  BY DEF Replace, Finished, At
<1>2. Sound(job, gguf)
  BY DEF WeightsInv
<1> HIDE DEF job
<1>3. g \in File /\ Readable(g) /\ Whole(d, g) /\ Whole(d.manifest, g)
  BY <1>1, <1>2 DEF Sound
<1>4. FaithfulTo(d, g)
  BY <1>3, WholeFaithful
<1>5. d.manifest # NoManifest
  BY <1>3, WholeHasManifest
<1> QED
  BY <1>1, <1>3, <1>4, <1>5

LEMMA OnlyReplace ==
  WeightsInv /\ [WeightsNext]_weightsVars =>
    [\/ out' = out \/ Damage
     \/ out = Absent /\ out'.manifest # NoManifest /\ \E g \in File : FaithfulTo(out', g)]_weightsVars
<1> SUFFICES ASSUME WeightsInv, [WeightsNext]_weightsVars, out' # out, ~Damage
             PROVE  out = Absent /\ out'.manifest # NoManifest /\ \E g \in File : FaithfulTo(out', g)
  OBVIOUS
<1>1. PICK j \in Conv : Replace(j)
  <2>1. WeightsNext
    BY DEF weightsVars
  <2>2. ~(\E g \in File : Fetch(g))
    BY DEF Fetch
  <2>3. ~(\E skip \in BOOLEAN : VerifyDequant(skip) \/ VerifyFp16(skip))
        /\ ~((\E s \in Sidecar : CompareFp16(s)) \/ AbandonFp16)
    BY DEF VerifyDequant, CompareFp16, VerifyFp16, AbandonFp16, Receive
  <2>4. ~Gate
    BY DEF Gate, StartGate, Call, CallFails, Finish, RestOfGate
  <2>5. PICK j \in Conv : Convert(j)
    BY <2>1, <2>2, <2>3, <2>4 DEF WeightsNext
  <2>6. Replace(j)
    BY <2>5 DEF Convert, Hash, Open, Refuse, WriteShard, WriteRest, WriteDequantManifest, Abort,
                KillConversion, RestOfConv
  <2> QED
    BY <2>6
<1> QED
  BY <1>1, ReplaceWhole

\* Theorem. The directory appears once and complete, however conversions race,
\* fail and are killed, and then only damage changes it.
THEOREM DirectoryAppearsWhole == WeightsSpec => OutStands
  BY WeightsBegin, WeightsGoOn, OnlyReplace, PTL DEF WeightsSpec, OutStands
=============================================================================
