------------------------------ MODULE V3Proof ------------------------------
(* Proofs about V3: its directories implement Publish. A command chooses a   *)
(* directory without a whole manifest and is alone in it until it has        *)
(* written one that fits the file. What it writes is right for the samples   *)
(* that were hashed, and stays so while more of them arrive.                 *)
EXTENDS V3, WellFoundedInduction, TLAPS

AtWork == {"resolved", "made", "placed", "opened"}

\* A step of a command that is not yet, or no longer, writing.
LEMMA OffDisk ==
  ASSUME IndInv, NEW s \in Stages, NEW new, IsJob(new), new.slot \in Slots,
         new.at \notin AtWork, job' = [job EXCEPT ![s] = new], dirs' = dirs
  PROVE  IndInv'
<1>1. \A t \in Stages : job'[t] = IF t = s THEN new ELSE job[t]
  BY DEF IndInv, Shapes
<1>2. Shapes'
  BY <1>1 DEF IndInv, Shapes
<1>3. Writing(job'[s], dirs'[s][job'[s].slot])
  BY <1>1 DEF Writing, AtWork
<1>4. \A t \in Stages : Writing(job'[t], dirs'[t][job'[t].slot])
  BY <1>1, <1>3 DEF IndInv
<1> QED
  BY <1>2, <1>4 DEF IndInv

LEMMA IdleIsOff ==
  /\ IsJob(Idle) /\ Idle.slot \in Slots /\ Idle.at \notin AtWork
  /\ \A c : Writing(Idle, c)
BY SlotAssumption DEF IsJob, Idle, Slots, AtWork, Writing

\* A step of a command that changes the directory it works in.
LEMMA OnDisk ==
  ASSUME IndInv, NEW s \in Stages, NEW new, IsJob(new), new.slot \in Slots,
         NEW cell, IsCell(cell), WholeIsComplete(cell), Writing(new, cell),
         new.slot = job[s].slot \/ new.at \notin AtWork,
         job' = [job EXCEPT ![s] = new],
         dirs' = [dirs EXCEPT ![s] = [dirs[s] EXCEPT ![job[s].slot] = cell]]
  PROVE  IndInv'
<1> DEFINE k == job[s].slot
<1>1. \A t \in Stages : job'[t] = IF t = s THEN new ELSE job[t]
  BY DEF IndInv, Shapes
<1>2. \A t \in Stages : \A d \in Slots : dirs'[t][d] = IF t = s /\ d = k THEN cell ELSE dirs[t][d]
  BY DEF IndInv, Shapes
<1>3. k \in Slots
  BY DEF IndInv, Shapes
<1>4. Shapes'
  <2>1. \A t \in Stages : dirs'[t] = [d \in Slots |-> dirs'[t][d]]
    BY DEF IndInv, Shapes
  <2>2. dirs' = [t \in Stages |-> [d \in Slots |-> dirs'[t][d]]]
    BY <2>1 DEF IndInv, Shapes
  <2>3. job' = [t \in Stages |-> job'[t]]
    BY DEF IndInv, Shapes
  <2>4. \A t \in Stages : IsJob(job'[t]) /\ job'[t].slot \in Slots
    BY <1>1, <1>3 DEF IndInv, Shapes
  <2>5. \A t \in Stages : \A d \in Slots : IsCell(dirs'[t][d])
    BY <1>2 DEF IndInv, Shapes
  <2> QED
    BY <2>2, <2>3, <2>4, <2>5 DEF Shapes
<1>5. \A t \in Stages : \A d \in Slots : WholeIsComplete(dirs'[t][d])
  BY <1>2 DEF IndInv
<1>6. \A t \in Stages : Writing(job'[t], dirs'[t][job'[t].slot])
  <2> SUFFICES ASSUME NEW t \in Stages PROVE Writing(job'[t], dirs'[t][job'[t].slot])
    OBVIOUS
  <2>1. CASE t = s
    BY <1>1, <1>2, <1>3, <2>1 DEF Writing, AtWork
  <2>2. CASE t # s
    <3>1. job[t].slot \in Slots /\ Writing(job[t], dirs[t][job[t].slot])
      BY DEF IndInv, Shapes
    <3> QED
      BY <1>1, <1>2, <2>2, <3>1
  <2> QED
    BY <2>1, <2>2
<1> QED
  BY <1>4, <1>5, <1>6 DEF IndInv

\* Resolve finds a directory that shows nothing.
LEMMA ResolveStep ==
  ASSUME IndInv, NEW s \in Stages, Resolve(s)
  PROVE  IndInv'
<1>1. PICK d \in Slots :
        /\ job' = [job EXCEPT ![s] = [job[s] EXCEPT !.at = "resolved", !.slot = d]]
        /\ dirs[s][d].manifest # "whole"
  <2>1. PICK force \in BOOLEAN : \E e \in ResolveDir(s, force) :
          job' = [job EXCEPT ![s] = [job[s] EXCEPT !.at = "resolved", !.slot = e]]
    BY DEF Resolve, Set
  <2>2. PICK d \in ResolveDir(s, force) :
          job' = [job EXCEPT ![s] = [job[s] EXCEPT !.at = "resolved", !.slot = d]]
    BY <2>1
  <2>3. d \in Slots
    BY <2>2, SlotAssumption DEF ResolveDir, FirstFree, Slots
  <2>4. ~IsComplete(s, d) \/ dirs[s][d].made = "no"
    BY <2>2 DEF ResolveDir, FirstFree
  <2> QED
    BY <2>2, <2>3, <2>4 DEF IsComplete, IndInv, WholeIsComplete
<1> DEFINE new == [job[s] EXCEPT !.at = "resolved", !.slot = d]
<1>2. IsJob(new) /\ new.at = "resolved" /\ new.slot = d
  <2>1. IsJob(job[s])
    BY DEF IndInv, Shapes
  <2> QED
    BY <2>1 DEF IsJob
<1>3. \A t \in Stages : job'[t] = IF t = s THEN new ELSE job[t]
  BY <1>1 DEF IndInv, Shapes
<1>4. job' = [t \in Stages |-> job'[t]]
  BY <1>1 DEF IndInv, Shapes
<1> HIDE DEF new
<1>5. dirs' = dirs
  BY DEF Resolve
<1>6. Shapes'
  BY <1>2, <1>3, <1>4, <1>5 DEF IndInv, Shapes
<1>7. Writing(new, dirs[s][d])
  BY <1>1, <1>2 DEF Writing
<1>8. \A t \in Stages : Writing(job'[t], dirs'[t][job'[t].slot])
  BY <1>2, <1>3, <1>5, <1>7 DEF IndInv
<1> QED
  BY <1>5, <1>6, <1>8 DEF IndInv

LEMMA WriteSteps ==
  ASSUME IndInv, NEW s \in Stages,
         MakeDir(s) \/ Replace(s) \/ OpenManifest(s) \/ WriteManifest(s)
  PROVE  IndInv'
<1> DEFINE k == job[s].slot
           c == dirs[s][k]
           j == job[s]
<1>1. k \in Slots /\ IsCell(c) /\ IsJob(j) /\ WholeIsComplete(c) /\ Writing(j, c)
  BY DEF IndInv, Shapes
<1>2. CASE MakeDir(s)
  <2> DEFINE cell == [c EXCEPT !.made = "yes"]
             new == [j EXCEPT !.at = "made"]
  <2>1. /\ IsJob(new) /\ new.slot = k /\ k \in Slots /\ IsCell(cell)
        /\ WholeIsComplete(cell) /\ Writing(new, cell)
    BY <1>1, <1>2 DEF MakeDir, Working, IsJob, IsCell, WholeIsComplete, Writing
  <2>2. job' = [job EXCEPT ![s] = new] /\ dirs' = [dirs EXCEPT ![s] = [dirs[s] EXCEPT ![k] = cell]]
    BY <1>2 DEF MakeDir, Set
  <2> HIDE DEF new, cell
  <2> QED
    BY <2>1, <2>2, OnDisk
<1>3. CASE Replace(s)
  <2> DEFINE cell == [c EXCEPT !.file = j.want.content]
             new == [j EXCEPT !.at = "placed"]
  <2>1. /\ IsJob(new) /\ new.slot = k /\ k \in Slots /\ IsCell(cell)
        /\ WholeIsComplete(cell) /\ Writing(new, cell)
    BY <1>1, <1>3 DEF Replace, Working, IsJob, IsCell, WholeIsComplete, Writing
  <2>2. job' = [job EXCEPT ![s] = new] /\ dirs' = [dirs EXCEPT ![s] = [dirs[s] EXCEPT ![k] = cell]]
    BY <1>3 DEF Replace, Set
  <2> HIDE DEF new, cell
  <2> QED
    BY <2>1, <2>2, OnDisk
<1>4. CASE OpenManifest(s)
  <2> DEFINE cell == [c EXCEPT !.manifest = "torn"]
             new == [j EXCEPT !.at = "opened"]
  <2>1. /\ IsJob(new) /\ new.slot = k /\ k \in Slots /\ IsCell(cell)
        /\ WholeIsComplete(cell) /\ Writing(new, cell)
    BY <1>1, <1>4 DEF OpenManifest, Working, IsJob, IsCell, WholeIsComplete, Writing
  <2>2. job' = [job EXCEPT ![s] = new] /\ dirs' = [dirs EXCEPT ![s] = [dirs[s] EXCEPT ![k] = cell]]
    BY <1>4 DEF OpenManifest, Set
  <2> HIDE DEF new, cell
  <2> QED
    BY <2>1, <2>2, OnDisk
<1>5. CASE WriteManifest(s)
  <2> DEFINE cell == [c EXCEPT !.manifest = "whole", !.says = j.want]
  <2>1. IsCell(cell) /\ WholeIsComplete(cell)
    BY <1>1, <1>5 DEF WriteManifest, Working, IsCell, WholeIsComplete, Writing
  <2>3. IsJob(Idle) /\ Idle.slot \in Slots /\ Idle.at \notin AtWork /\ Writing(Idle, cell)
    BY IdleIsOff
  <2>2. job' = [job EXCEPT ![s] = Idle] /\ dirs' = [dirs EXCEPT ![s] = [dirs[s] EXCEPT ![k] = cell]]
    BY <1>1, <1>5 DEF WriteManifest, Set, IndInv, Shapes
  <2> HIDE DEF cell
  <2> QED
    BY <2>1, <2>2, <2>3, OnDisk
<1> QED
  BY <1>2, <1>3, <1>4, <1>5

\* Reading and building touch no directory.
LEMMA BuildSteps ==
  ASSUME IndInv,
         \/ MakeRegenBundle \/ MakeAnchorBundle
         \/ \E d \in Slots : ReadBundle(d) \/ LoadAnchors(d)
         \/ LoadRollouts \/ HashRollouts \/ BuildHinted \/ BuildBoth \/ Refuse
  PROVE  IndInv'
<1> DEFINE j == job["dataset"]
<1>1. IsJob(j) /\ j.slot \in Slots /\ "dataset" \in Stages
  BY DEF IndInv, Shapes, Stages
<1>2. ASSUME NEW l \in Lanes, MakeBundle(l) PROVE IndInv'
  <2> DEFINE new == [Idle EXCEPT !.at = "built", !.want = Bundle(l, sol[l].file)]
  <2>1. IsJob(new) /\ new.slot \in Slots /\ new.at \notin AtWork
    BY IdleIsOff DEF IsJob, AtWork
  <2>2. job' = [job EXCEPT ![l] = new] /\ dirs' = dirs /\ l \in Stages
    BY <1>2 DEF MakeBundle, Set, Stages
  <2> HIDE DEF new
  <2> QED
    BY <2>1, <2>2, OffDisk
<1>3. ASSUME NEW d \in Slots, ReadBundle(d) PROVE IndInv'
  <2> DEFINE new == [Idle EXCEPT !.at = "bundle",
       !.draft = [hinted |-> [solutions |-> sol["hinted"].file, loaded |-> 0, hashed |-> 0],
                  bundle |-> dirs["hinted"][d].says]]
  <2>1. IsJob(new) /\ new.slot \in Slots /\ new.at \notin AtWork
    BY IdleIsOff DEF IsJob, AtWork
  <2>2. job' = [job EXCEPT !["dataset"] = new] /\ dirs' = dirs
    BY <1>3 DEF ReadBundle, Set
  <2> HIDE DEF new
  <2> QED
    BY <1>1, <2>1, <2>2, OffDisk
<1>4. ASSUME NEW at, at \notin AtWork, NEW draft, dirs' = dirs,
             job' = [job EXCEPT !["dataset"] = [j EXCEPT !.at = at, !.draft = draft]]
      PROVE  IndInv'
  <2> DEFINE new == [j EXCEPT !.at = at, !.draft = draft]
  <2>1. IsJob(new) /\ new.slot \in Slots /\ new.at \notin AtWork
    BY <1>1, <1>4 DEF IsJob
  <2> HIDE DEF new
  <2> QED
    BY <1>1, <1>4, <2>1, OffDisk DEF new
<1>5. CASE LoadRollouts \/ HashRollouts
  <2>1. PICK at \in {"loaded", "hinted"} : \E draft :
          job' = [job EXCEPT !["dataset"] = [j EXCEPT !.at = at, !.draft = draft]]
    BY <1>5 DEF LoadRollouts, HashRollouts, Set
  <2>2. dirs' = dirs /\ at \notin AtWork
    BY <1>5 DEF LoadRollouts, HashRollouts, AtWork
  <2> QED
    BY <1>4, <2>1, <2>2
<1>6. ASSUME NEW d \in Slots, LoadAnchors(d) PROVE IndInv'
  <2>1. PICK draft : job' = [job EXCEPT !["dataset"] = [j EXCEPT !.at = "anchors", !.draft = draft]]
    BY <1>6 DEF LoadAnchors, Set
  <2>2. dirs' = dirs /\ "anchors" \notin AtWork
    BY <1>6 DEF LoadAnchors, AtWork
  <2> QED
    BY <1>4, <2>1, <2>2
<1>7. CASE BuildHinted
  <2>1. PICK want : job' = [job EXCEPT !["dataset"] = [j EXCEPT !.at = "built", !.want = want]]
    BY <1>7 DEF BuildHinted, Set
  <2> DEFINE new == [j EXCEPT !.at = "built", !.want = want]
  <2>2. IsJob(new) /\ new.slot \in Slots /\ new.at \notin AtWork
    BY <1>1 DEF IsJob, AtWork
  <2>3. dirs' = dirs
    BY <1>7 DEF BuildHinted
  <2> HIDE DEF new
  <2> QED
    BY <1>1, <2>1, <2>2, <2>3, OffDisk DEF new
<1>8. CASE BuildBoth
  <2>1. PICK draft : \E want : job' =
          [job EXCEPT !["dataset"] = [j EXCEPT !.at = "built", !.draft = draft, !.want = want]]
    BY <1>8 DEF BuildBoth, Set
  <2>2. PICK want : job' =
          [job EXCEPT !["dataset"] = [j EXCEPT !.at = "built", !.draft = draft, !.want = want]]
    BY <2>1
  <2> DEFINE new == [j EXCEPT !.at = "built", !.draft = draft, !.want = want]
  <2>3. IsJob(new) /\ new.slot \in Slots /\ new.at \notin AtWork
    BY <1>1 DEF IsJob, AtWork
  <2>4. dirs' = dirs
    BY <1>8 DEF BuildBoth
  <2> HIDE DEF new
  <2> QED
    BY <1>1, <2>2, <2>3, <2>4, OffDisk DEF new
<1>9. CASE Refuse
  <2>1. job' = [job EXCEPT !["dataset"] = Idle] /\ dirs' = dirs
    BY <1>9 DEF Refuse, Set
  <2> QED
    BY <1>1, <2>1, IdleIsOff, OffDisk
<1>10. "hinted" \in Lanes /\ "anchor" \in Lanes
  BY DEF Lanes
<1> QED
  BY <1>2, <1>3, <1>5, <1>6, <1>7, <1>8, <1>9, <1>10 DEF MakeRegenBundle, MakeAnchorBundle

LEMMA NextPreserves ==
  ASSUME IndInv, [Next]_vars
  PROVE  IndInv'
<1>1. CASE UNCHANGED vars \/ \E l \in Lanes : Mine(l) \/ Record(l) \/ \E line \in Lines[l] : Sample(l, line)
  <2>1. dirs' = dirs /\ job' = job
    BY <1>1 DEF vars, Mine, Record, Sample
  <2> QED
    BY <2>1 DEF IndInv, Shapes
<1>2. CASE \/ \E d \in Slots : ReadBundle(d) \/ LoadAnchors(d)
           \/ MakeRegenBundle \/ MakeAnchorBundle
           \/ LoadRollouts \/ HashRollouts \/ BuildHinted \/ BuildBoth \/ Refuse
  BY <1>2, BuildSteps
<1>3. ASSUME NEW s \in Stages, Step(s) PROVE IndInv'
  <2>1. CASE Resolve(s)
    BY <2>1, ResolveStep
  <2>2. CASE Return(s) \/ Kill(s)
    <3>1. job' = [job EXCEPT ![s] = Idle] /\ dirs' = dirs
      BY <2>2 DEF Return, Kill, Set
    <3> QED
      BY <3>1, IdleIsOff, OffDisk
  <2>3. CASE MakeDir(s) \/ Replace(s) \/ OpenManifest(s) \/ WriteManifest(s)
    BY <2>3, WriteSteps
  <2> QED
    BY <1>3, <2>1, <2>2, <2>3 DEF Step
<1> QED
  BY <1>1, <1>2, <1>3 DEF Next

\* One command at a time works in a directory, and only in one that has no whole
\* manifest: _resolve_dir, _publish and the write of the manifest.
THEOREM InvariantHolds == Spec => []IndInv
<1>1. Init => IndInv
  BY IdleIsOff, SlotAssumption
     DEF Init, IndInv, Shapes, IsCell, Empty, WholeIsComplete, Slots
<1>2. IndInv /\ [Next]_vars => IndInv'
  BY NextPreserves
<1> QED
  BY <1>1, <1>2, PTL DEF Spec

\* What is shown changes with the end of a manifest only.
LEMMA ShownStays ==
  ASSUME IndInv, NEW s \in Stages, NEW k \in Slots, NEW cell, IsCell(cell),
         dirs' = [dirs EXCEPT ![s] = [dirs[s] EXCEPT ![k] = cell]],
         dirs[s][k].manifest # "whole", cell.manifest # "whole"
  PROVE  Shown' = Shown
<1>1. \A t \in Stages : \A d \in Slots : dirs'[t][d] = IF t = s /\ d = k THEN cell ELSE dirs[t][d]
  BY DEF IndInv, Shapes
<1>2. \A t \in Stages : \A d \in Slots :
        /\ IsComplete(t, d)' = IsComplete(t, d)
        /\ IsComplete(t, d) => dirs'[t][d].says = dirs[t][d].says
  BY <1>1 DEF IsComplete
<1> QED
  BY <1>2 DEF Shown

LEMMA WriteManifestShows ==
  ASSUME IndInv, NEW s \in Stages, WriteManifest(s)
  PROVE  [P!Next]_Shown
<1> DEFINE k == job[s].slot
           cell == [dirs[s][k] EXCEPT !.manifest = "whole", !.says = job[s].want]
<1>1. k \in Slots /\ dirs[s][k].manifest # "whole"
  BY DEF WriteManifest, Working, IndInv, Shapes, Writing
<1>2. dirs' = [dirs EXCEPT ![s] = [dirs[s] EXCEPT ![k] = cell]]
  BY <1>1 DEF WriteManifest, IndInv, Shapes
<1> HIDE DEF cell
<1>3. \A t \in Stages : \A d \in Slots : ~(t = s /\ d = k) => dirs'[t][d] = dirs[t][d]
  BY <1>2 DEF IndInv, Shapes
<1>4. \A x \in Stages \X Slots : x # <<s, k>> => Shown'[x] = Shown[x]
  BY <1>3 DEF Shown, IsComplete
<1>5. <<s, k>> \in Stages \X Slots /\ Shown[<<s, k>>] = NoRows
  BY <1>1 DEF Shown, IsComplete
<1>6. Shown' = [Shown EXCEPT ![<<s, k>>] = Shown'[<<s, k>>]]
  BY <1>4, <1>5 DEF Shown
<1>7. CASE Shown'[<<s, k>>] = NoRows
  <2>1. Shown' = Shown
    BY <1>4, <1>5, <1>7 DEF Shown
  <2> QED
    BY <2>1
<1>8. CASE Shown'[<<s, k>>] # NoRows
  BY <1>5, <1>6, <1>8 DEF P!Next, P!Complete
<1> QED
  BY <1>7, <1>8

LEMMA StepShows ==
  ASSUME IndInv, [Next]_vars
  PROVE  [P!Next]_Shown
<1>1. CASE dirs' = dirs
  <2>1. Shown' = Shown
    BY <1>1 DEF Shown, IsComplete
  <2> QED
    BY <2>1
<1>2. ASSUME NEW s \in Stages, MakeDir(s) \/ Replace(s) \/ OpenManifest(s)
      PROVE  Shown' = Shown
  <2> DEFINE k == job[s].slot
             c == dirs[s][k]
  <2>1. k \in Slots /\ IsCell(c) /\ c.manifest # "whole"
    BY <1>2 DEF MakeDir, Replace, OpenManifest, Working, IndInv, Shapes, Writing
  <2>2. CASE MakeDir(s)
    <3> DEFINE cell == [c EXCEPT !.made = "yes"]
    <3>1. IsCell(cell) /\ cell.manifest # "whole"
      BY <2>1 DEF IsCell
    <3>2. dirs' = [dirs EXCEPT ![s] = [dirs[s] EXCEPT ![k] = cell]]
      BY <2>2 DEF MakeDir
    <3> HIDE DEF cell
    <3> QED
      BY <2>1, <3>1, <3>2, ShownStays
  <2>3. CASE Replace(s)
    <3> DEFINE cell == [c EXCEPT !.file = job[s].want.content]
    <3>1. IsCell(cell) /\ cell.manifest # "whole"
      BY <2>1 DEF IsCell
    <3>2. dirs' = [dirs EXCEPT ![s] = [dirs[s] EXCEPT ![k] = cell]]
      BY <2>3 DEF Replace
    <3> HIDE DEF cell
    <3> QED
      BY <2>1, <3>1, <3>2, ShownStays
  <2>4. CASE OpenManifest(s)
    <3> DEFINE cell == [c EXCEPT !.manifest = "torn"]
    <3>1. IsCell(cell) /\ cell.manifest # "whole"
      BY <2>1 DEF IsCell
    <3>2. dirs' = [dirs EXCEPT ![s] = [dirs[s] EXCEPT ![k] = cell]]
      BY <2>4 DEF OpenManifest
    <3> HIDE DEF cell
    <3> QED
      BY <2>1, <3>1, <3>2, ShownStays
  <2> QED
    BY <1>2, <2>2, <2>3, <2>4
<1>3. \/ dirs' = dirs
      \/ \E s \in Stages : MakeDir(s) \/ Replace(s) \/ OpenManifest(s) \/ WriteManifest(s)
  BY DEF Next, vars, Mine, Record, Sample, MakeRegenBundle, MakeAnchorBundle, MakeBundle, ReadBundle,
         LoadAnchors, LoadRollouts, HashRollouts, BuildHinted, BuildBoth, Refuse, Step, Resolve,
         Return, Kill
<1> QED
  BY <1>1, <1>2, <1>3, WriteManifestShows

\* A publication that is complete once is never touched again, and nothing less
\* is ever taken for one: for any solutions, samples, kills and number of
\* directories, V3 implements Publish.
THEOREM PublicationsStay == Spec => ImplementsPublish
<1>1. Init => P!Init
  BY DEF Init, Empty, Shown, IsComplete, P!Init
<1>2. IndInv /\ [Next]_vars => [P!Next]_Shown
  BY StepShows
<1> QED
  BY <1>1, <1>2, InvariantHolds, PTL DEF Spec, ImplementsPublish, P!Spec
-----------------------------------------------------------------------------
(* A data set is what its manifest says.                                     *)

\* A set of numbers that is not empty has a least one.
Less == {ss \in Nat \X Nat : ss[1] < ss[2]}

LEMMA LessWF == IsWellFoundedOn(Less, Nat)
BY NatLessThanWellFounded, Zenon DEF OpToRel, Less

LEMMA LeastNat ==
  ASSUME NEW S, S \subseteq Nat, S # {}
  PROVE  \E n \in S : \A m \in S : n <= m
<1>1. PICK n \in S : \A m \in S : ~(<<m, n>> \in Less)
  BY LessWF, WFMin, Zenon
<1>2. ASSUME NEW m \in S, ~(n <= m) PROVE FALSE
  <2>1. m \in Nat /\ n \in Nat /\ m < n
    BY <1>2
  <2>2. <<m, n>> \in Less
    BY <2>1 DEF Less
  <2> QED
    BY <1>1, <2>2
<1> QED
  BY <1>2

LEMMA GreatestLine ==
  ASSUME NEW n \in Nat, NEW found, found \subseteq 1..n, found # {}
  PROVE  LastLine(found) \in found
<1> DEFINE back == {n - j : j \in found}
<1>1. back \subseteq Nat /\ back # {}
  <2>1. \A j \in found : n - j \in Nat /\ n - j \in back
    OBVIOUS
  <2> QED
    BY <2>1
<1>2. PICK k \in back : \A m \in back : k <= m
  BY <1>1, LeastNat
<1>3. PICK j \in found : k = n - j
  BY <1>2
<1>4. ASSUME NEW h \in found PROVE h <= j
  <2>1. n - h \in back /\ h \in 1..n /\ j \in 1..n
    BY <1>3
  <2>2. n - j <= n - h
    BY <1>2, <1>3, <2>1
  <2> QED
    BY <2>1, <2>2
<1> QED
  BY <1>4 DEF LastLine

\* Lines that are appended do not change what the earlier ones hold.
Grows(lines, longer) ==
  /\ Len(lines) \in Nat /\ Len(longer) \in Nat /\ Len(lines) <= Len(longer)
  /\ \A j \in 1..Len(lines) : longer[j] = lines[j]

LEMMA AppendGrows ==
  ASSUME NEW S, NEW lines \in Seq(S), NEW line \in S
  PROVE  Append(lines, line) \in Seq(S) /\ Grows(lines, Append(lines, line))
<1>1. /\ Append(lines, line) \in Seq(S) /\ Len(lines) \in Nat
      /\ Len(Append(lines, line)) = Len(lines) + 1
  OBVIOUS
<1>2. \A i \in 1..Len(lines) : Append(lines, line)[i] = lines[i]
  OBVIOUS
<1> QED
  BY <1>1, <1>2 DEF Grows

LEMMA SamplesStay ==
  ASSUME NEW lines, NEW longer, Grows(lines, longer), NEW n \in 0..Len(lines), NEW u
  PROVE  Samples(longer, n, u) = Samples(lines, n, u)
<1>1. \A j \in 1..n : longer[j] = lines[j]
  BY DEF Grows
<1>2. \A i : Drawn(longer, n, u, i) = Drawn(lines, n, u, i)
  BY <1>1 DEF Drawn
<1> DEFINE mine(ll) == {h \in 1..n : ll[h].uid = u}
           drawn(ll) == {ll[j].sample : j \in mine(ll)}
<1>3. mine(longer) = mine(lines)
  BY <1>1
<1>4. drawn(longer) = drawn(lines)
  BY <1>1, <1>3
<1>5. ASSUME NEW i \in drawn(lines)
      PROVE  longer[LastLine(Drawn(longer, n, u, i))] = lines[LastLine(Drawn(lines, n, u, i))]
  <2>1. Drawn(lines, n, u, i) \subseteq 1..n /\ Drawn(lines, n, u, i) # {} /\ n \in Nat
    BY <1>5 DEF Drawn, Grows
  <2>2. LastLine(Drawn(lines, n, u, i)) \in 1..n
    BY <2>1, GreatestLine
  <2> QED
    BY <1>1, <1>2, <2>2
<1> QED
  BY <1>4, <1>5 DEF Samples

LEMMA FirstVerifiedStays ==
  ASSUME NEW lines, NEW longer, Grows(lines, longer), NEW n \in 0..Len(lines),
         NEW l, NEW v, NEW rows, FirstVerified(l, v, rows, lines, n)
  PROVE  FirstVerified(l, v, rows, longer, n)
<1>1. \A r : RightIn(Samples(longer, n, r.uid), r) = RightIn(Samples(lines, n, r.uid), r)
  BY SamplesStay
<1>2. ASSUME NEW row \in rows
      PROVE  \E r \in Rows(l, v) :
               LET right == RightIn(Samples(longer, n, r.uid), r)
               IN /\ r.uid = row.uid /\ r.statement = row.statement
                  /\ row.sample \in right /\ \A i \in right : row.sample <= i
  <2>1. PICK r \in Rows(l, v) :
          LET right == RightIn(Samples(lines, n, r.uid), r)
          IN /\ r.uid = row.uid /\ r.statement = row.statement
             /\ row.sample \in right /\ \A i \in right : row.sample <= i
    BY DEF FirstVerified
  <2> QED
    BY <1>1, <2>1
<1>3. \A r \in Rows(l, v) : r.uid \notin UidsIn(rows) =>
        (l = "hinted" /\ Tier(r.uid) = "none") \/ RightIn(Samples(longer, n, r.uid), r) = {}
  BY <1>1 DEF FirstVerified
<1> QED
  BY <1>2, <1>3 DEF FirstVerified

LEMMA RightStays ==
  ASSUME NEW read, NEW more, \A l \in Lanes : Grows(read[l], more[l]),
         NEW said, NEW rows, IsRight(said, rows, read)
  PROVE  IsRight(said, rows, more)
<1>1. ASSUME NEW l \in DOMAIN said \cap Lanes
      PROVE  /\ said[l].hashed \in 0..Len(more[l])
             /\ \E n \in 1..said[l].hashed :
                  FirstVerified(l, said[l].solutions, LaneRows(l, rows), more[l], n)
  <2>1. PICK n \in 1..said[l].hashed :
          FirstVerified(l, said[l].solutions, LaneRows(l, rows), read[l], n)
    BY DEF IsRight, AsSaid
  <2>2. said[l].hashed \in 0..Len(read[l]) /\ Grows(read[l], more[l])
    BY DEF IsRight
  <2>3. n \in 0..Len(read[l]) /\ said[l].hashed \in 0..Len(more[l])
    BY <2>2 DEF Grows
  <2> QED
    BY <2>1, <2>2, <2>3, FirstVerifiedStays
<1> QED
  BY <1>1 DEF IsRight, AsSaid

LEMMA DraftStays ==
  ASSUME NEW read, NEW more, \A l \in Lanes : Grows(read[l], more[l]),
         NEW lanes, lanes \subseteq Lanes, NEW draft, IsDraft(draft, lanes, read)
  PROVE  IsDraft(draft, lanes, more)
<1>1. ASSUME NEW l \in lanes PROVE IsRead(l, draft[l], more[l])
  <2>1. IsRead(l, draft[l], read[l]) /\ Grows(read[l], more[l])
    BY DEF IsDraft
  <2> QED
    BY <2>1 DEF IsRead, Grows
<1> QED
  BY <1>1 DEF IsDraft

\* The rows kept of a lane are right for the lines they were kept of.
LEMMA KeptIsFirst ==
  ASSUME NEW l \in Lanes, NEW v \in DOMAIN Solutions[l], NEW lines, NEW n
  PROVE  /\ FirstVerified(l, v, Kept(l, v, lines, n), lines, n)
         /\ \A row \in Kept(l, v, lines, n) : row.lane = l /\ row.uid \in UidsIn(Rows(l, v))
         /\ \A row, other \in Kept(l, v, lines, n) : row.uid = other.uid => row = other
<1> DEFINE samples(r) == Samples(lines, n, r.uid)
           right(r) == RightIn(samples(r), r)
<1>1. \A r : Verified(samples(r), r.answer) = right(r) /\ right(r) \subseteq Nat
  BY KAssumption DEF Verified, Verifies, RightIn
<1>2. ASSUME NEW row \in Kept(l, v, lines, n)
      PROVE  \E r \in Rows(l, v) : \E i \in right(r) :
               row = SftRow(l, r, i, samples(r)) /\ \A h \in right(r) : i <= h
  <2>1. PICK r \in Rows(l, v) : row \in Harvest(l, r, samples(r))
    BY DEF Kept
  <2>2. PICK i \in FirstOf(right(r)) : row = SftRow(l, r, i, samples(r))
    BY <1>1, <2>1 DEF Harvest
  <2> QED
    BY <2>2 DEF FirstOf
<1>3. ASSUME NEW r \in Rows(l, v), Wanted(l, r), right(r) # {}
      PROVE  r.uid \in UidsIn(Kept(l, v, lines, n))
  <2>1. PICK i \in right(r) : \A h \in right(r) : i <= h
    BY <1>1, <1>3, LeastNat
  <2>2. SftRow(l, r, i, samples(r)) \in Harvest(l, r, samples(r))
    BY <1>1, <2>1 DEF Harvest, FirstOf
  <2>3. SftRow(l, r, i, samples(r)) \in Kept(l, v, lines, n)
    BY <1>3, <2>2 DEF Kept
  <2> QED
    BY <2>3 DEF UidsIn, SftRow
<1>4. \A r, q \in Rows(l, v) : r.uid = q.uid => r = q
  BY RecordAssumption DEF Rows
<1>5. ASSUME NEW row \in Kept(l, v, lines, n), NEW other \in Kept(l, v, lines, n), row.uid = other.uid
      PROVE  row = other
  <2>1. PICK r \in Rows(l, v) : \E i \in right(r) :
               row = SftRow(l, r, i, samples(r)) /\ \A h \in right(r) : i <= h
    BY <1>2
  <2>2. PICK i \in right(r) : row = SftRow(l, r, i, samples(r)) /\ \A h \in right(r) : i <= h
    BY <2>1
  <2>3. PICK q \in Rows(l, v) : \E h \in right(q) :
               other = SftRow(l, q, h, samples(q)) /\ \A e \in right(q) : h <= e
    BY <1>2
  <2>4. PICK h \in right(q) : other = SftRow(l, q, h, samples(q)) /\ \A e \in right(q) : h <= e
    BY <2>3
  <2>5. r = q
    BY <1>4, <1>5, <2>2, <2>4 DEF SftRow
  <2>6. i = h
    <3>1. i \in Nat /\ h \in Nat /\ i <= h /\ h <= i
      BY <1>1, <2>2, <2>4, <2>5
    <3> QED
      BY <3>1
  <2> QED
    BY <2>2, <2>4, <2>5, <2>6
<1>6. \A row \in Kept(l, v, lines, n) : row.lane = l /\ row.uid \in UidsIn(Rows(l, v))
  BY <1>2 DEF SftRow, UidsIn
<1>7. FirstVerified(l, v, Kept(l, v, lines, n), lines, n)
  <2>1. \A row \in Kept(l, v, lines, n) : \E r \in Rows(l, v) :
          /\ r.uid = row.uid /\ r.statement = row.statement
          /\ row.sample \in right(r) /\ \A i \in right(r) : row.sample <= i
    BY <1>2 DEF SftRow
  <2>2. \A r \in Rows(l, v) : r.uid \notin UidsIn(Kept(l, v, lines, n)) => ~Wanted(l, r) \/ right(r) = {}
    BY <1>3
  <2> QED
    BY <2>1, <2>2 DEF FirstVerified, Wanted, Lanes
<1> QED
  BY <1>5, <1>6, <1>7

LEMMA BuildingStays ==
  ASSUME NEW read, NEW more, \A l \in Lanes : Grows(read[l], more[l]), NEW j, Building(j, read)
  PROVE  Building(j, more)
<1>1. {"hinted"} \subseteq Lanes
  BY DEF Lanes
<1> QED
  BY <1>1, DraftStays, RightStays DEF Building

LEMMA IdleBuildsNothing == \A read : Building(Idle, read)
BY DEF Building, Idle

\* A step of build-dataset that leaves the disk alone.
LEMMA DataOffDisk ==
  ASSUME IndInv, DataInv, UNCHANGED <<sol, rollouts, dirs>>,
         NEW new, job' = [job EXCEPT !["dataset"] = new], Building(new, rollouts)
  PROVE  DataInv'
<1>1. job'["dataset"] = new
  BY DEF IndInv, Shapes, Stages
<1> QED
  BY <1>1 DEF DataInv

\* Other solutions and more samples change nothing of what was read.
LEMMA UpstreamKeepsData ==
  ASSUME DataInv, NEW l \in Lanes, Mine(l) \/ Record(l) \/ \E line \in Lines[l] : Sample(l, line)
  PROVE  DataInv'
<1>1. CASE Mine(l) \/ Record(l)
  <2>1. sol' = [t \in Lanes |-> sol'[t]]
    BY <1>1 DEF Mine, Record, DataInv
  <2>2. \A t \in Lanes : /\ sol'[t] = [f \in {"file", "recorded"} |-> sol'[t][f]]
                         /\ sol'[t].file \in DOMAIN Solutions[t]
    <3> SUFFICES ASSUME NEW t \in Lanes
                 PROVE  /\ sol'[t] = [f \in {"file", "recorded"} |-> sol'[t][f]]
                        /\ sol'[t].file \in DOMAIN Solutions[t]
      OBVIOUS
    <3>1. /\ sol[t] = [f \in {"file", "recorded"} |-> sol[t][f]]
          /\ sol[t].file \in DOMAIN Solutions[t] /\ sol = [m \in Lanes |-> sol[m]]
      BY DEF DataInv
    <3>2. CASE Mine(l)
      <4>1. sol'[t] = IF t = l THEN [sol[t] EXCEPT !.file = @ + 1] ELSE sol[t]
        BY <3>1, <3>2 DEF Mine
      <4>2. t = l => sol[t].file + 1 \in DOMAIN Solutions[t]
        BY <3>1, <3>2, VersionAssumption DEF Mine
      <4> QED
        BY <3>1, <4>1, <4>2
    <3>3. CASE Record(l)
      <4>1. sol'[t] = IF t = l THEN [sol[t] EXCEPT !.recorded = sol[t].file] ELSE sol[t]
        BY <3>1, <3>3 DEF Record
      <4> QED
        BY <3>1, <4>1
    <3> QED
      BY <1>1, <3>2, <3>3
  <2>3. UNCHANGED <<rollouts, job, dirs>>
    BY <1>1 DEF Mine, Record
  <2> QED
    BY <2>1, <2>2, <2>3 DEF DataInv
<1>2. ASSUME NEW line \in Lines[l], Sample(l, line) PROVE DataInv'
  <2>1. \A t \in Lanes : rollouts'[t] \in Seq(Lines[t]) /\ Grows(rollouts[t], rollouts'[t])
    <3> SUFFICES ASSUME NEW t \in Lanes
                 PROVE  rollouts'[t] \in Seq(Lines[t]) /\ Grows(rollouts[t], rollouts'[t])
      OBVIOUS
    <3>1. rollouts[t] \in Seq(Lines[t])
      BY DEF DataInv
    <3>2. rollouts'[t] = IF t = l THEN Append(rollouts[t], line) ELSE rollouts[t]
      BY <1>2 DEF Sample, DataInv
    <3>3. CASE t = l
      <4>1. rollouts'[t] = Append(rollouts[t], line) /\ line \in Lines[t]
        BY <3>2, <3>3
      <4> QED
        BY <3>1, <4>1, AppendGrows
    <3>4. CASE t # l
      BY <3>1, <3>2, <3>4 DEF Grows
    <3> QED
      BY <3>3, <3>4
  <2>2. rollouts' = [t \in Lanes |-> rollouts'[t]]
    BY <1>2 DEF Sample, DataInv
  <2>3. UNCHANGED <<sol, job, dirs>>
    BY <1>2 DEF Sample
  <2>4. Building(job["dataset"], rollouts')
    BY <2>1, BuildingStays DEF DataInv
  <2>5. \A d \in Slots : dirs["dataset"][d].manifest = "whole" =>
          IsRight(dirs["dataset"][d].says.sig, dirs["dataset"][d].says.content, rollouts')
    BY <2>1, RightStays DEF DataInv
  <2> QED
    BY <2>1, <2>2, <2>3, <2>4, <2>5 DEF DataInv
<1> QED
  BY <1>1, <1>2

LEMMA ReadKeepsData ==
  ASSUME IndInv, DataInv,
         \/ \E d \in Slots : ReadBundle(d)
         \/ LoadRollouts \/ HashRollouts \/ \E d \in Slots : LoadAnchors(d)
  PROVE  DataInv'
<1> DEFINE j == job["dataset"]
           lines(l) == rollouts[l]
<1>1. IsJob(j) /\ Building(j, rollouts) /\ "hinted" \in Lanes /\ "anchor" \in Lanes
  BY DEF IndInv, Shapes, Stages, DataInv, Lanes
<1>2. \A l \in Lanes : Len(rollouts[l]) \in Nat /\ (rollouts[l] # <<>> => Len(rollouts[l]) > 0)
  BY DEF DataInv
<1>3. ASSUME NEW d \in Slots, ReadBundle(d) PROVE DataInv'
  <2> DEFINE v == sol["hinted"].file
             r == [solutions |-> v, loaded |-> 0, hashed |-> 0]
             draft == [hinted |-> r, bundle |-> dirs["hinted"][d].says]
             new == [Idle EXCEPT !.at = "bundle", !.draft = draft]
  <2>1. v \in DOMAIN Solutions["hinted"]
    BY <1>1 DEF DataInv
  <2>2. IsRead("hinted", r, rollouts["hinted"])
    <3>1. Member("hinted", Rows("hinted", v)) /\ Len(rollouts["hinted"]) \in Nat
      BY <1>1, <1>2, <1>3 DEF ReadBundle, Usable
    <3>2. r = [f \in {"solutions", "loaded", "hashed"} |-> r[f]]
      OBVIOUS
    <3> QED
      BY <2>1, <3>1, <3>2 DEF IsRead
  <2>3. SameSolutions(dirs["hinted"][d].says, v)
    BY <1>3 DEF ReadBundle, BundleFits
  <2>4. IsDraft(draft, {"hinted"}, rollouts)
    <3> HIDE DEF r
    <3>1. draft = [f \in {"hinted", "bundle"} |-> draft[f]] /\ Fields({"hinted"}) = {"hinted", "bundle"}
      BY DEF Fields
    <3>2. r.solutions = v
      BY DEF r
    <3> QED
      BY <2>2, <2>3, <3>1, <3>2 DEF IsDraft
  <2>5. new.at = "bundle" /\ new.draft = draft
    BY DEF Idle
  <2>6. job' = [job EXCEPT !["dataset"] = new]
    BY <1>3 DEF ReadBundle, Set
  <2> HIDE DEF new, draft
  <2>7. Building(new, rollouts)
    BY <2>4, <2>5 DEF Building
  <2> QED
    BY <1>3, <2>6, <2>7, DataOffDisk DEF ReadBundle
<1>4. ASSUME j.at \in {"bundle", "loaded"}, NEW r,
             NEW at \in {"loaded", "hinted"},
             IsRead("hinted", r, rollouts["hinted"]), r.solutions = j.draft.hinted.solutions,
             at = "loaded" => r.loaded > 0, at = "hinted" => Hashed(r),
             UNCHANGED <<sol, rollouts, dirs>>,
             job' = [job EXCEPT !["dataset"] = [j EXCEPT !.at = at, !.draft = [j.draft EXCEPT !.hinted = r]]]
      PROVE  DataInv'
  <2> DEFINE draft == [j.draft EXCEPT !.hinted = r]
             new == [j EXCEPT !.at = at, !.draft = draft]
  <2>1. IsDraft(j.draft, {"hinted"}, rollouts)
    BY <1>1, <1>4 DEF Building
  <2>2. draft.hinted = r /\ draft.bundle = j.draft.bundle /\ draft = [f \in Fields({"hinted"}) |-> draft[f]]
    BY <2>1 DEF IsDraft
  <2>3. new.at = at /\ new.draft = draft
    BY <1>1 DEF IsJob
  <2> HIDE DEF new, draft
  <2>4. IsDraft(draft, {"hinted"}, rollouts)
    BY <1>4, <2>1, <2>2 DEF IsDraft
  <2>5. Building(new, rollouts)
    BY <1>4, <2>2, <2>3, <2>4 DEF Building
  <2> QED
    BY <1>4, <2>5, DataOffDisk DEF new, draft
<1>5. CASE LoadRollouts
  <2> DEFINE r == [j.draft.hinted EXCEPT !.loaded = Len(rollouts["hinted"])]
  <2>1. j.at = "bundle" /\ IsRead("hinted", j.draft.hinted, rollouts["hinted"])
    BY <1>1, <1>5 DEF LoadRollouts, Working, Building, IsDraft
  <2>2. IsRead("hinted", r, rollouts["hinted"]) /\ r.solutions = j.draft.hinted.solutions /\ r.loaded > 0
    BY <1>1, <1>2, <1>5, <2>1 DEF LoadRollouts, IsRead
  <2>3. job' = [job EXCEPT !["dataset"] = [j EXCEPT !.at = "loaded", !.draft = [j.draft EXCEPT !.hinted = r]]]
    BY <1>5 DEF LoadRollouts, Set
  <2> HIDE DEF r
  <2> QED
    BY <1>4, <1>5, <2>1, <2>2, <2>3 DEF LoadRollouts
<1>6. CASE HashRollouts
  <2> DEFINE r == [j.draft.hinted EXCEPT !.hashed = Len(rollouts["hinted"])]
  <2>1. /\ j.at = "loaded" /\ IsRead("hinted", j.draft.hinted, rollouts["hinted"])
        /\ j.draft.hinted.loaded > 0
    BY <1>1, <1>6 DEF HashRollouts, Working, Building, IsDraft
  <2>2. IsRead("hinted", r, rollouts["hinted"]) /\ r.solutions = j.draft.hinted.solutions /\ Hashed(r)
    BY <1>1, <1>2, <2>1 DEF IsRead, Hashed
  <2>3. job' = [job EXCEPT !["dataset"] = [j EXCEPT !.at = "hinted", !.draft = [j.draft EXCEPT !.hinted = r]]]
    BY <1>6 DEF HashRollouts, Set
  <2> HIDE DEF r
  <2> QED
    BY <1>4, <1>6, <2>1, <2>2, <2>3 DEF HashRollouts
<1>7. ASSUME NEW d \in Slots, LoadAnchors(d) PROVE DataInv'
  <2> DEFINE v == sol["anchor"].file
             r == [solutions |-> v, loaded |-> Len(rollouts["anchor"]), hashed |-> 0]
             draft == [hinted |-> j.draft.hinted, bundle |-> j.draft.bundle,
                       reference |-> dirs["dataset"][d].file, anchor |-> r]
             new == [j EXCEPT !.at = "anchors", !.draft = draft]
  <2>1. v \in DOMAIN Solutions["anchor"]
    BY <1>1 DEF DataInv
  <2>2. IsRead("anchor", r, rollouts["anchor"]) /\ r.loaded > 0
    <3>1. Usable("anchor") /\ rollouts["anchor"] # <<>>
      BY <1>7 DEF LoadAnchors
    <3>2. Member("anchor", Rows("anchor", v))
      BY <3>1 DEF Usable
    <3> QED
      BY <1>1, <1>2, <2>1, <3>1, <3>2 DEF IsRead
  <2>3. IsDraft(j.draft, {"hinted"}, rollouts) /\ Hashed(j.draft.hinted)
    BY <1>1, <1>7 DEF LoadAnchors, Working, Building
  <2>4. /\ draft.hinted = j.draft.hinted /\ draft.bundle = j.draft.bundle /\ draft.anchor = r
        /\ draft = [f \in Fields(Lanes) |-> draft[f]]
    <3> HIDE DEF r
    <3>1. Fields(Lanes) = {"hinted", "anchor", "bundle", "reference"}
      BY DEF Fields, Lanes
    <3>2. draft = [f \in {"hinted", "anchor", "bundle", "reference"} |-> draft[f]]
      OBVIOUS
    <3>3. draft.hinted = j.draft.hinted /\ draft.bundle = j.draft.bundle /\ draft.anchor = r
      OBVIOUS
    <3> HIDE DEF draft
    <3> QED
      BY <3>1, <3>2, <3>3
  <2>5. new.at = "anchors" /\ new.draft = draft
    BY <1>1 DEF IsJob
  <2>6. job' = [job EXCEPT !["dataset"] = new]
    BY <1>7 DEF LoadAnchors, Set
  <2> HIDE DEF new, draft, r
  <2>7. IsDraft(draft, Lanes, rollouts)
    BY <2>2, <2>3, <2>4 DEF IsDraft, Lanes
  <2>8. Building(new, rollouts)
    BY <2>2, <2>3, <2>4, <2>5, <2>7 DEF Building
  <2> QED
    BY <1>7, <2>6, <2>8, DataOffDisk DEF LoadAnchors
<1> QED
  BY <1>3, <1>5, <1>6, <1>7

\* What build-dataset builds is right for the lines it has read.
LEMMA KeptOfRead ==
  ASSUME NEW l \in Lanes, NEW r, IsRead(l, r, rollouts[l])
  PROVE  /\ FirstVerified(l, r.solutions, KeptOf(l, r), rollouts[l], r.loaded)
         /\ \A row \in KeptOf(l, r) : row.lane = l /\ row.uid \notin EvalUids
         /\ \A row, other \in KeptOf(l, r) : row.uid = other.uid => row = other
<1>1. r.solutions \in DOMAIN Solutions[l] /\ Member(l, Rows(l, r.solutions))
  BY DEF IsRead
<1>2. \A u \in UidsIn(Rows(l, r.solutions)) : u \notin EvalUids
  BY <1>1, SplitAssumption DEF Member, TrainSplitOnly, NotInEval, UidsIn
<1> QED
  BY <1>1, <1>2, KeptIsFirst DEF KeptOf

LEMMA BuiltIsRight ==
  ASSUME IndInv, DataInv, BuildHinted \/ BuildBoth
  PROVE  DataInv'
<1> DEFINE j == job["dataset"]
           Right(draft, rows) == IsRight(draft, rows, rollouts)
<1>1. IsJob(j) /\ Building(j, rollouts) /\ "hinted" \in Lanes /\ "anchor" \in Lanes
  BY DEF IndInv, Shapes, Stages, DataInv, Lanes
<1>2. \A l \in Lanes : Len(rollouts[l]) \in Nat
  BY DEF DataInv
<1>3. ASSUME NEW draft, NEW rows, NEW old, Right(draft, rows),
             UNCHANGED <<sol, rollouts, dirs>>,
             job' = [job EXCEPT !["dataset"] =
                       [j EXCEPT !.at = "built", !.draft = old, !.want = [content |-> rows, sig |-> draft]]]
      PROVE  DataInv'
  <2> DEFINE want == [content |-> rows, sig |-> draft]
             new == [j EXCEPT !.at = "built", !.draft = old, !.want = want]
  <2>1. new.at = "built" /\ new.want = want /\ want.sig = draft /\ want.content = rows
    BY <1>1 DEF IsJob
  <2> HIDE DEF new, want
  <2>2. Building(new, rollouts)
    BY <1>3, <2>1 DEF Building
  <2> QED
    BY <1>3, <2>2, DataOffDisk DEF new, want
<1>4. CASE BuildHinted
  <2> DEFINE draft == j.draft
             rows == Hinted(draft)
  <2>1. IsDraft(draft, {"hinted"}, rollouts) /\ Hashed(draft.hinted)
    BY <1>1, <1>4 DEF BuildHinted, Working, Building
  <2>2. IsRead("hinted", draft.hinted, rollouts["hinted"])
    BY <2>1 DEF IsDraft
  <2>3. /\ FirstVerified("hinted", draft.hinted.solutions, rows, rollouts["hinted"], draft.hinted.loaded)
        /\ \A row \in rows : row.lane = "hinted" /\ row.uid \notin EvalUids
        /\ \A row, other \in rows : row.uid = other.uid => row = other
    BY <1>1, <2>2, KeptOfRead DEF Hinted
  <2>4. \A row \in rows : row.statement \notin Leaky
    BY <1>4 DEF BuildHinted, NoHintInPrompts
  <2>5. job' = [job EXCEPT !["dataset"] =
                  [j EXCEPT !.at = "built", !.want = [content |-> rows, sig |-> draft]]]
    BY <1>4 DEF BuildHinted, Set
  <2>6. DOMAIN draft \cap Lanes = {"hinted"}
    <3>1. Fields({"hinted"}) = {"hinted", "bundle"}
      BY DEF Fields
    <3> QED
      BY <2>1, <3>1 DEF IsDraft, Lanes
  <2> HIDE DEF rows
  <2>7. LaneRows("hinted", rows) = rows
    BY <2>3 DEF LaneRows
  <2>8. Right(draft, rows)
    <3>1. draft.bundle.sig.solutions = draft.hinted.solutions
      BY <2>1 DEF IsDraft, SameSolutions
    <3>2. /\ draft.hinted.hashed \in 0..Len(rollouts["hinted"])
          /\ draft.hinted.loaded \in 1..draft.hinted.hashed
      BY <2>1, <2>2 DEF Hashed, IsRead
    <3> QED
      BY <2>3, <2>4, <2>6, <2>7, <3>1, <3>2 DEF IsRight, AsSaid
  <2>9. [j EXCEPT !.at = "built", !.want = [content |-> rows, sig |-> draft]]
          = [j EXCEPT !.at = "built", !.draft = draft, !.want = [content |-> rows, sig |-> draft]]
    BY <1>1 DEF IsJob
  <2> QED
    BY <1>3, <1>4, <2>5, <2>8, <2>9 DEF BuildHinted
<1>5. CASE BuildBoth
  <2> DEFINE r == [j.draft.anchor EXCEPT !.hashed = Len(rollouts["anchor"])]
             draft == [j.draft EXCEPT !.anchor = r]
             hinted == Hinted(draft)
             anchors == Anchors(draft)
             rows == hinted \cup anchors
  <2>1. IsDraft(j.draft, Lanes, rollouts) /\ Hashed(j.draft.hinted) /\ j.draft.anchor.loaded > 0
    BY <1>1, <1>5 DEF BuildBoth, Working, Building
  <2>2. IsRead("hinted", j.draft.hinted, rollouts["hinted"]) /\ IsRead("anchor", j.draft.anchor, rollouts["anchor"])
    BY <1>1, <2>1 DEF IsDraft
  <2>3. IsRead("anchor", r, rollouts["anchor"]) /\ Hashed(r)
    BY <1>1, <1>2, <2>1, <2>2 DEF IsRead, Hashed
  <2>4. /\ draft.hinted = j.draft.hinted /\ draft.bundle = j.draft.bundle /\ draft.anchor = r
        /\ Lanes \subseteq DOMAIN draft
    BY <2>1 DEF IsDraft, Fields, Lanes
  <2>5. /\ job' = [job EXCEPT !["dataset"] =
             [j EXCEPT !.at = "built", !.draft = draft, !.want = [content |-> rows, sig |-> draft]]]
        /\ NoCollision(hinted, anchors) /\ NoHintInPrompts(rows)
        /\ UNCHANGED <<sol, rollouts, dirs>>
    BY <1>5 DEF BuildBoth, Set
  <2> HIDE DEF r, draft
  <2>6. /\ FirstVerified("hinted", draft.hinted.solutions, hinted, rollouts["hinted"], draft.hinted.loaded)
        /\ \A row \in hinted : row.lane = "hinted" /\ row.uid \notin EvalUids
        /\ \A row, other \in hinted : row.uid = other.uid => row = other
    BY <1>1, <2>2, <2>4, KeptOfRead DEF Hinted
  <2>7. /\ FirstVerified("anchor", draft.anchor.solutions, anchors, rollouts["anchor"], draft.anchor.loaded)
        /\ \A row \in anchors : row.lane = "anchor" /\ row.uid \notin EvalUids
        /\ \A row, other \in anchors : row.uid = other.uid => row = other
    BY <1>1, <2>3, <2>4, KeptOfRead DEF Anchors
  <2> HIDE DEF hinted, anchors
  <2>8. LaneRows("hinted", rows) = hinted /\ LaneRows("anchor", rows) = anchors
    BY <2>6, <2>7 DEF LaneRows
  <2>9. \A row, other \in rows : row.uid = other.uid => row = other
    BY <2>5, <2>6, <2>7 DEF NoCollision, UidsIn
  <2>10. \A row \in rows : row.statement \notin Leaky /\ row.uid \notin EvalUids
    BY <2>5, <2>6, <2>7 DEF NoHintInPrompts
  <2>11. draft.bundle.sig.solutions = draft.hinted.solutions
    BY <2>1, <2>4 DEF IsDraft, SameSolutions
  <2>12. \A l \in DOMAIN draft \cap Lanes :
           /\ draft[l].hashed \in 0..Len(rollouts[l])
           /\ \E n \in 1..draft[l].hashed :
                FirstVerified(l, draft[l].solutions, LaneRows(l, rows), rollouts[l], n)
    <3> SUFFICES ASSUME NEW l \in Lanes
                 PROVE  /\ draft[l].hashed \in 0..Len(rollouts[l])
                        /\ \E n \in 1..draft[l].hashed :
                             FirstVerified(l, draft[l].solutions, LaneRows(l, rows), rollouts[l], n)
      OBVIOUS
    <3>1. CASE l = "hinted"
      BY <2>1, <2>2, <2>4, <2>6, <2>8, <3>1 DEF IsRead, Hashed
    <3>2. CASE l = "anchor"
      BY <2>3, <2>4, <2>7, <2>8, <3>2 DEF IsRead, Hashed
    <3> QED
      BY <3>1, <3>2 DEF Lanes
  <2> HIDE DEF rows
  <2>13. Right(draft, rows)
    BY <2>9, <2>10, <2>11, <2>12 DEF IsRight, AsSaid
  <2> QED
    BY <1>3, <2>5, <2>13
<1> QED
  BY <1>4, <1>5

LEMMA StepKeepsData ==
  ASSUME IndInv, DataInv, NEW s \in Stages, Step(s)
  PROVE  DataInv'
<1> DEFINE j == job["dataset"]
           k == job[s].slot
<1>1. /\ IsJob(j) /\ Building(j, rollouts) /\ UNCHANGED <<sol, rollouts>>
      /\ "dataset" \in Stages /\ k \in Slots
  BY DEF IndInv, Shapes, Stages, DataInv, Step, Resolve, Return, MakeDir, Replace, OpenManifest, WriteManifest, Kill
<1>2. CASE s # "dataset"
  <2>1. job'["dataset"] = job["dataset"] /\ dirs'["dataset"] = dirs["dataset"]
    BY <1>2 DEF IndInv, Shapes, Stages, Step, Resolve, Return, MakeDir, Replace, OpenManifest, WriteManifest, Kill, Set
  <2> QED
    BY <1>1, <2>1 DEF DataInv
<1>3. ASSUME s = "dataset", j.at \in {"built", "resolved", "made", "placed"},
             \E at \in {"resolved", "made", "placed", "opened"} : \E slot :
               job' = [job EXCEPT ![s] = [j EXCEPT !.at = at, !.slot = slot]]
      PROVE  Building(job'["dataset"], rollouts')
  <2>1. PICK at \in {"resolved", "made", "placed", "opened"} : \E slot :
          job' = [job EXCEPT ![s] = [j EXCEPT !.at = at, !.slot = slot]]
    BY <1>3
  <2>2. PICK slot : job' = [job EXCEPT ![s] = [j EXCEPT !.at = at, !.slot = slot]]
    BY <2>1
  <2> DEFINE new == [j EXCEPT !.at = at, !.slot = slot]
  <2>3. new.at = at /\ new.want = j.want /\ job'["dataset"] = new
    BY <1>1, <1>3, <2>2 DEF IsJob, IndInv, Shapes
  <2> HIDE DEF new
  <2>4. IsRight(j.want.sig, j.want.content, rollouts)
    BY <1>1, <1>3 DEF Building
  <2>5. Building(new, rollouts)
    BY <1>3, <2>3, <2>4 DEF Building
  <2> QED
    BY <1>1, <2>3, <2>5
<1>4. CASE s = "dataset" /\ (Return(s) \/ Kill(s))
  <2>1. job' = [job EXCEPT !["dataset"] = Idle] /\ UNCHANGED <<sol, rollouts, dirs>>
    BY <1>4 DEF Return, Kill, Set
  <2> QED
    BY <2>1, IdleBuildsNothing, DataOffDisk
<1>5. CASE s = "dataset" /\ (Resolve(s) \/ MakeDir(s) \/ Replace(s) \/ OpenManifest(s))
  <2>1. \E at \in {"resolved", "made", "placed", "opened"} : \E slot :
          job' = [job EXCEPT ![s] = [j EXCEPT !.at = at, !.slot = slot]]
    <3>1. j = [j EXCEPT !.slot = j.slot] /\ \A at : [j EXCEPT !.at = at] = [j EXCEPT !.at = at, !.slot = j.slot]
      BY <1>1 DEF IsJob
    <3>2. CASE Resolve(s)
      BY <1>5, <3>2 DEF Resolve, Set
    <3>3. CASE MakeDir(s) \/ Replace(s) \/ OpenManifest(s)
      <4>1. PICK at \in {"resolved", "made", "placed", "opened"} : job' = [job EXCEPT ![s] = [j EXCEPT !.at = at]]
        BY <1>5, <3>3 DEF MakeDir, Replace, OpenManifest, Set
      <4> QED
        BY <3>1, <4>1
    <3> QED
      BY <1>5, <3>2, <3>3
  <2>2. j.at \in {"built", "resolved", "made", "placed"}
    BY <1>5 DEF Resolve, MakeDir, Replace, OpenManifest, Working
  <2>3. Building(job'["dataset"], rollouts')
    BY <1>3, <1>5, <2>1, <2>2
  <2>4. \A d \in Slots : dirs'["dataset"][d].manifest = "whole" =>
          dirs'["dataset"][d].says = dirs["dataset"][d].says /\ dirs["dataset"][d].manifest = "whole"
    <3> SUFFICES ASSUME NEW d \in Slots, dirs'["dataset"][d].manifest = "whole"
                 PROVE  dirs'["dataset"][d].says = dirs["dataset"][d].says /\ dirs["dataset"][d].manifest = "whole"
      OBVIOUS
    <3> DEFINE c == dirs["dataset"][k]
    <3>1. /\ dirs = [t \in Stages |-> dirs[t]] /\ dirs["dataset"] = [e \in Slots |-> dirs["dataset"][e]]
          /\ c = [f \in {"made", "file", "manifest", "says"} |-> c[f]]
      BY <1>1 DEF IndInv, Shapes, IsCell
    <3>2. PICK cell : /\ cell.manifest = "whole" => cell.says = c.says /\ c.manifest = "whole"
                      /\ dirs' = [dirs EXCEPT !["dataset"] = [dirs["dataset"] EXCEPT ![k] = cell]]
                   \/ dirs' = dirs
      <4>1. CASE Resolve(s)
        BY <4>1 DEF Resolve
      <4>2. CASE MakeDir(s)
        <5> DEFINE cell == [c EXCEPT !.made = "yes"]
        <5>1. cell.manifest = c.manifest /\ cell.says = c.says
          BY <3>1
        <5> QED
          BY <1>5, <4>2, <5>1 DEF MakeDir
      <4>3. CASE Replace(s)
        <5> DEFINE cell == [c EXCEPT !.file = j.want.content]
        <5>1. cell.manifest = c.manifest /\ cell.says = c.says
          BY <3>1
        <5> QED
          BY <1>5, <4>3, <5>1 DEF Replace
      <4>4. CASE OpenManifest(s)
        <5> DEFINE cell == [c EXCEPT !.manifest = "torn"]
        <5>1. cell.manifest # "whole"
          BY <3>1
        <5> QED
          BY <1>5, <4>4, <5>1 DEF OpenManifest
      <4> QED
        BY <1>5, <4>1, <4>2, <4>3, <4>4
    <3>3. dirs' = dirs \/ dirs'["dataset"][d] = IF d = k THEN cell ELSE dirs["dataset"][d]
      BY <1>1, <3>1, <3>2
    <3> QED
      BY <3>2, <3>3
  <2> QED
    BY <1>1, <2>3, <2>4 DEF DataInv
<1>6. CASE s = "dataset" /\ WriteManifest(s)
  <2>1. job' = [job EXCEPT !["dataset"] = Idle]
    BY <1>6 DEF WriteManifest, Set
  <2>2. Building(job'["dataset"], rollouts')
    BY <1>1, <2>1, IdleBuildsNothing DEF IndInv, Shapes
  <2>3. IsRight(j.want.sig, j.want.content, rollouts)
    BY <1>1, <1>6 DEF WriteManifest, Working, Building
  <2>4. \A d \in Slots : dirs'["dataset"][d].manifest = "whole" =>
          IF d = k THEN dirs'["dataset"][d].says = j.want
          ELSE dirs'["dataset"][d] = dirs["dataset"][d]
    BY <1>1, <1>6 DEF IndInv, Shapes, IsCell, WriteManifest
  <2> QED
    BY <1>1, <2>2, <2>3, <2>4 DEF DataInv
<1> QED
  BY <1>2, <1>4, <1>5, <1>6 DEF Step

LEMMA NextKeepsData ==
  ASSUME IndInv, DataInv, [Next]_vars
  PROVE  DataInv'
<1>1. CASE UNCHANGED vars
  BY <1>1 DEF DataInv, vars
<1>2. CASE MakeRegenBundle \/ MakeAnchorBundle
  <2>1. PICK l \in Lanes : MakeBundle(l)
    BY <1>2 DEF MakeRegenBundle, MakeAnchorBundle, Lanes
  <2>2. UNCHANGED <<sol, rollouts, dirs>> /\ job'["dataset"] = job["dataset"]
    BY <2>1 DEF MakeBundle, Set, IndInv, Shapes, Stages, Lanes
  <2> QED
    BY <2>2 DEF DataInv
<1>3. CASE Refuse
  <2>1. job' = [job EXCEPT !["dataset"] = Idle] /\ UNCHANGED <<sol, rollouts, dirs>>
    BY <1>3 DEF Refuse, Set
  <2> QED
    BY <2>1, IdleBuildsNothing, DataOffDisk
<1> QED
  BY <1>1, <1>2, <1>3, UpstreamKeepsData, ReadKeepsData, BuiltIsRight, StepKeepsData DEF Next

\* For any solutions, samples, splits, kills and number of directories: a data
\* set holds for every record of the solutions its manifest names the first sample
\* that verifies, of those that were there when the rollouts were hashed, one row
\* per record, and nothing of the eval side (build_dataset_cmd), as far as the
\* solutions a command hashed are those it read.
THEOREM DataSetsAreAccountable == Spec => []Accountable
<1>1. Init => DataInv
  BY VersionAssumption, IdleBuildsNothing DEF Init, DataInv, Empty, Lanes, Stages, Slots
<1>2. IndInv /\ DataInv /\ [Next]_vars => DataInv'
  BY NextKeepsData
<1>3. IndInv /\ DataInv => Accountable
  BY DEF DataInv, IndInv, WholeIsComplete, Accountable, IsComplete, IsRight, Stages
<1> QED
  BY <1>1, <1>2, <1>3, InvariantHolds, PTL DEF Spec
=============================================================================
