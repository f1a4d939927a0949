---------------------------- MODULE TrainerProof ----------------------------
(* Proofs about Upload and Remote, around the program that trains. Upload:   *)
(* every voucher of a data set, the guard's, the receipt, its copy on the box*)
(* and the trainer's, is one of a clean data set. Remote: a seed that is     *)
(* published stays published, with one line of a whole file, whatever is     *)
(* killed, copied or provisioned; status.json calls only such seeds done; and*)
(* the manifest says of every adapter which base weights it was trained on.  *)
EXTENDS Upload, Remote, SequenceTheorems, FiniteSetTheorems, TLAPS

-----------------------------------------------------------------------------
(* Upload. *)


\* What the guard accepts, read and hashed as one version, is clean.
LEMMA ValidatedClean ==
  ASSUME NEW d, NEW m, Validates(d, d, m)
  PROVE  Clean(d)
<1>1. CASE \E row \in RowsOf(d) : IsV3(row)
  <2>1. ValidV3(d)
    BY <1>1 DEF Validates
  <2>2. SUFFICES ASSUME NEW row \in RowsOf(d)
                 PROVE  /\ row.verified /\ row.uid \notin EvalUids
                        /\ row.tier = "anchor" => row.paper \notin EvalPapers
    BY <1>1 DEF Validates, Clean, Outside
  <2>3. row.verified
    BY <2>1 DEF ValidV3, V3RowHolds
  <2>4. CASE row.tier = "anchor"
    BY <2>1, <2>3, <2>4 DEF ValidV3, Anchors, AnchorsOutside
  <2>5. CASE row.tier # "anchor"
    <3>1. row.uid \in TrainSide
      BY <2>1, <2>5 DEF ValidV3, InTrainSide, Anchors
    <3> QED
      BY <2>3, <2>5, <3>1, SplitAssumption
  <2> QED
    BY <2>4, <2>5
<1>2. CASE ~ \E row \in RowsOf(d) : IsV3(row)
  <2>1. ValidV2(d)
    BY <1>2 DEF Validates
  <2> QED
    BY <1>2, <2>1 DEF ValidV2, NoLeakage, Clean, Outside
<1> QED
  BY <1>1, <1>2

LEMMA VoucherOf ==
  ASSUME NEW d, NEW raced \in BOOLEAN, ~raced => d \in Dataset /\ Clean(d)
  PROVE  Vouched([data |-> d, raced |-> raced])
BY DEF Vouched

LEMMA CopyOf ==
  ASSUME NEW i \in 1..3, NEW begun \in BOOLEAN
  PROVE  [file |-> i, begun |-> begun] \in [file : 1..3, begun : BOOLEAN]
OBVIOUS

\* The parts a step does not touch keep what they say.
LEMMA Idle ==
  ASSUME UploadInv, UNCHANGED uploadVars
  PROVE  UploadInv'
BY DEF UploadInv, UploadTypeOK, EveryVoucher, Vouched, uploadVars

LEMMA GuardSteps ==
  ASSUME UploadInv, NEW scheme \in {Dequant, Fp16}, NEW seeds \in SeedLists,
         NEW d \in Dataset, NEW hashed \in Dataset, WriteRunConfig(scheme, seeds, d, hashed)
  PROVE  UploadInv'
<1> USE DEF WriteRunConfig
<1>1. guard' = [data |-> hashed, raced |-> d # hashed]
  OBVIOUS
<1>2. config' \in Configs
  BY DEF RunConfig, Configs
<1>3. guard' \in Vouchers
  BY <1>1 DEF Vouchers
<1>4. UploadTypeOK'
  BY <1>2, <1>3 DEF UploadInv, UploadTypeOK
<1>5. d = hashed => Clean(hashed)
  BY ValidatedClean
<1>6. (d # hashed) \in BOOLEAN
  BY Zenon
<1>7. Vouched(guard')
  <2>1. Vouched([data |-> hashed, raced |-> d # hashed])
    BY <1>5, <1>6, VoucherOf
  <2> QED
    BY <1>1, <2>1, Zenon
<1> QED
  BY <1>4, <1>7 DEF UploadInv, EveryVoucher, Vouched

LEMMA ReceiptSteps ==
  ASSUME UploadInv, WriteReceipt \/ GuardKilled
  PROVE  UploadInv'
BY DEF UploadInv, UploadTypeOK, EveryVoucher, Vouched, Vouchers, WriteReceipt, GuardKilled

\* A copy writes one of the three files of the box.
LEMMA BoxWritten ==
  ASSUME UploadInv, NEW file \in 1..3, NEW new,
         remote' = [remote EXCEPT ![Files[file]] = new],
         file = 1 => new \in Dataset \cup {Absent, Torn},
         file = 2 => new \in Configs \cup {Torn},
         file = 3 => new \in Vouchers \cup {Torn} /\ (new # Torn => Vouched(new)),
         copying' \in [file : 1..3, begun : BOOLEAN] \cup {Absent},
         UNCHANGED <<guard, config, receipt, trainer, trained>>
  PROVE  UploadInv'
<1>1. CASE file = 1
  <2>1. remote' = [remote EXCEPT !.data = new]
    BY <1>1 DEF Files
  <2> QED
    BY <1>1, <2>1 DEF UploadInv, UploadTypeOK, EveryVoucher, Vouched
<1>2. CASE file = 2
  <2>1. remote' = [remote EXCEPT !.config = new]
    BY <1>2 DEF Files
  <2> QED
    BY <1>2, <2>1 DEF UploadInv, UploadTypeOK, EveryVoucher, Vouched
<1>3. CASE file = 3
  <2>1. remote' = [remote EXCEPT !.receipt = new]
    BY <1>3 DEF Files
  <2>2. new \in Vouchers \cup {Torn} /\ (new # Torn => Vouched(new))
    BY <1>3
  <2> QED
    BY <2>1, <2>2 DEF UploadInv, UploadTypeOK, EveryVoucher, Vouched
<1> QED
  BY <1>1, <1>2, <1>3

LEMMA CopySteps ==
  ASSUME UploadInv, StartCopy \/ CopyBegins \/ (\E d \in Dataset : CopyEnds(d)) \/ CopyCut
  PROVE  UploadInv'
<1>1. CASE StartCopy \/ CopyCut
  <2>1. copying' \in [file : 1..3, begun : BOOLEAN] \cup {Absent}
    <3>1. [file |-> 1, begun |-> FALSE] \in [file : 1..3, begun : BOOLEAN]
      BY CopyOf
    <3> QED
      BY <1>1, <3>1, Zenon DEF StartCopy, CopyCut
  <2> QED
    BY <1>1, <2>1 DEF UploadInv, UploadTypeOK, EveryVoucher, Vouched, StartCopy, CopyCut
<1>2. CASE CopyBegins
  <2>1. copying \in [file : 1..3, begun : BOOLEAN]
    BY <1>2 DEF CopyBegins, UploadInv, UploadTypeOK
  <2>2. copying' \in [file : 1..3, begun : BOOLEAN]
    BY <1>2, <2>1 DEF CopyBegins
  <2> QED
    BY <1>2, <2>1, <2>2, BoxWritten DEF CopyBegins
<1>3. ASSUME NEW d \in Dataset, CopyEnds(d) PROVE UploadInv'
  <2>1. copying \in [file : 1..3, begun : BOOLEAN]
    BY <1>3 DEF CopyEnds, UploadInv, UploadTypeOK
  <2>2. copying' \in [file : 1..3, begun : BOOLEAN] \cup {Absent}
    BY <1>3, <2>1 DEF CopyEnds, Files
  <2> DEFINE new == CASE copying.file = 1 -> d [] copying.file = 2 -> config
                      [] copying.file = 3 -> receipt
  <2>3. /\ copying.file = 1 => new \in Dataset \cup {Absent, Torn}
        /\ copying.file = 2 => new \in Configs \cup {Torn}
        /\ copying.file = 3 => new \in Vouchers \cup {Torn} /\ (new # Torn => Vouched(new))
    BY <2>1 DEF UploadInv, UploadTypeOK, EveryVoucher
  <2>4. remote' = [remote EXCEPT ![Files[copying.file]] = new]
    BY <1>3 DEF CopyEnds
  <2>5. copying.file \in 1..3 /\ UNCHANGED <<guard, config, receipt, trainer, trained>>
    BY <1>3, <2>1 DEF CopyEnds
  <2> HIDE DEF new
  <2> QED
    BY <2>2, <2>3, <2>4, <2>5, BoxWritten
<1> QED
  BY <1>1, <1>2, <1>3

LEMMA TrainerSteps ==
  ASSUME UploadInv, CheckReceipt \/ LoadRows \/ TrainerStops
  PROVE  UploadInv'
<1>1. CASE CheckReceipt
  <2> DEFINE r == remote.receipt
  <2>1. /\ r \in [data : Dataset, raced : BOOLEAN] /\ r # Absent /\ r # Torn /\ Vouched(r)
        /\ r.data = remote.data /\ trainer' = [data |-> remote.data, raced |-> r.raced]
    BY <1>1 DEF CheckReceipt, ReceiptHolds, IsWhole, UploadInv, UploadTypeOK, Vouchers, EveryVoucher
  <2> HIDE DEF r
  <2>2. trainer' \in Vouchers
    BY <2>1 DEF Vouchers
  <2>3. Vouched(trainer')
    BY <2>1 DEF Vouched
  <2> QED
    BY <1>1, <2>2, <2>3 DEF CheckReceipt, UploadInv, UploadTypeOK, EveryVoucher, Vouched
<1>2. CASE LoadRows
  <2> DEFINE new == [data |-> remote.data, raced |-> trainer.raced \/ remote.data # trainer.data]
  <2>1. new \in [data : Dataset \cup {Absent, Torn}, raced : BOOLEAN]
    BY DEF UploadInv, UploadTypeOK
  <2>2. Vouched(new)
    BY <1>2 DEF LoadRows, UploadInv, EveryVoucher, Vouched
  <2>3. trained' = new /\ trainer' = Absent
    BY <1>2 DEF LoadRows
  <2> HIDE DEF new
  <2> QED
    BY <1>2, <2>1, <2>2, <2>3 DEF LoadRows, UploadInv, UploadTypeOK, EveryVoucher, Vouched, Vouchers
<1>3. CASE TrainerStops
  BY <1>3 DEF TrainerStops, UploadInv, UploadTypeOK, EveryVoucher, Vouched, Vouchers
<1> QED
  BY <1>1, <1>2, <1>3

\* Nobody vouches for a data set that was not found clean: WriteRunConfig and
\* WriteReceipt of the guard, the copies, and the trainer's check of the receipt.
THEOREM VouchersHold == UploadSpec => []UploadInv
<1>1. UploadInit => UploadInv
  BY DEF UploadInit, UploadInv, UploadTypeOK, EveryVoucher, Vouched, Vouchers, Configs
<1>2. UploadInv /\ [UploadNext]_uploadVars => UploadInv'
  <2> SUFFICES ASSUME UploadInv, [UploadNext]_uploadVars PROVE UploadInv'
    OBVIOUS
  <2>1. CASE UNCHANGED uploadVars
    BY <2>1, Idle
  <2>2. CASE \E scheme \in {Dequant, Fp16}, seeds \in SeedLists, d, hashed \in Dataset :
               WriteRunConfig(scheme, seeds, d, hashed)
    BY <2>2, GuardSteps
  <2>3. CASE WriteReceipt \/ GuardKilled
    BY <2>3, ReceiptSteps
  <2>4. CASE StartCopy \/ CopyBegins \/ (\E d \in Dataset : CopyEnds(d)) \/ CopyCut
    BY <2>4, CopySteps
  <2>5. CASE CheckReceipt \/ LoadRows \/ TrainerStops
    BY <2>5, TrainerSteps
  <2> QED
    BY <2>1, <2>2, <2>3, <2>4, <2>5 DEF UploadNext
<1> QED
  BY <1>1, <1>2, PTL DEF UploadSpec

\* The shapes of the files beside the data set and on the box.
THEOREM UploadTypes == UploadSpec => []UploadTypeOK
BY VouchersHold, PTL DEF UploadInv

\* An adapter is trained on a clean data set, for every data set, split and
\* receipt, and however often the copies were cut and mixed, unless a file was
\* exchanged between the two reads of one program.
THEOREM CleanTraining == UploadSpec => []TrainedClean
<1>1. UploadInv => TrainedClean
  BY DEF UploadInv, EveryVoucher, Vouched, TrainedClean
<1> QED
  BY <1>1, VouchersHold, PTL

-----------------------------------------------------------------------------
(* Remote. *)


LEMMA Heads ==
  ASSUME NEW q \in Seq(Seed), q # <<>>
  PROVE  Head(q) \in Seed /\ Tail(q) \in Seq(Seed)
OBVIOUS

LEMMA TailCovers ==
  ASSUME NEW q \in Seq(Seed), q # <<>>, NEW s \in ToSet(q)
  PROVE  s = Head(q) \/ s \in ToSet(Tail(q))
<1>1. PICK i \in 1..Len(q) : q[i] = s
  BY DEF ToSet
<1>2. CASE i = 1
  BY <1>1, <1>2
<1>3. CASE i # 1
  <2>1. Len(Tail(q)) = Len(q) - 1 /\ i - 1 \in 1..Len(Tail(q)) /\ Tail(q)[i - 1] = q[i]
    BY <1>3
  <2>2. Tail(q) \in Seq(Seed) /\ DOMAIN Tail(q) = 1..Len(Tail(q))
    BY Heads
  <2>3. s = Tail(q)[i - 1] /\ i - 1 \in DOMAIN Tail(q)
    BY <1>1, <2>1, <2>2
  <2> QED
    BY <2>3, Zenon DEF ToSet
<1> QED
  BY <1>2, <1>3

LEMMA SeedsOf ==
  ASSUME NEW q \in Seq(Seed), NEW s \in ToSet(q)
  PROVE  s \in Seed
BY DEF ToSet

\* A step that leaves what is published alone leaves it published.
LEMMA PublishedStays ==
  ASSUME IndInv, NEW s \in Seed, final[s] # Absent,
         final'[s] = final[s], adapter'[s] = adapter[s], LineOf(s)' = LineOf(s),
         EntryIsThere(s)'
  PROVE  Published(s)' /\ EntryIsThere(s)'
<1>1. Published(s)
  BY DEF IndInv
<1> QED
  BY <1>1 DEF Published, LineOf

\* A step of the loop on the seed in work that does not publish it.
LEMMA OnSeed ==
  ASSUME IndInv, TypeOK', loop.at \in Steps, loop'.at \in Steps,
         loop'.todo = loop.todo, loop'.seeds = loop.seeds, told' = told, final' = final,
         \A s \in Seed \ {s0} : /\ adapter'[s] = adapter[s] /\ LineOf(s)' = LineOf(s)
                                /\ EntryIsThere(s) => EntryIsThere(s)',
         InWork(s0)'
  PROVE  IndInv'
<1>1. loop.todo # <<>> /\ InWork(s0) /\ s0' = s0
  BY DEF IndInv, s0
<1>2. \A s \in Seed : final'[s] # Absent => Published(s)' /\ EntryIsThere(s)'
  <2> SUFFICES ASSUME NEW s \in Seed, final'[s] # Absent
               PROVE  Published(s)' /\ EntryIsThere(s)'
    OBVIOUS
  <2>1. s # s0 /\ EntryIsThere(s)
    BY <1>1 DEF InWork, IndInv
  <2> QED
    BY <2>1, PublishedStays
<1>3. loop'.todo # <<>> /\ InWork(s0)'
  BY <1>1
<1>4. loop.at # "off"
  BY DEF Steps
<1> QED
  BY <1>1, <1>2, <1>3, <1>4 DEF IndInv

\* A step that touches no artifact.
LEMMA OffArtifacts ==
  ASSUME IndInv, TypeOK', UNCHANGED artifacts,
         told' # Absent => \A s \in ToSet(told') : final[s] # Absent,
         loop'.at \in Steps => loop'.todo # <<>> /\ InWork(s0)',
         loop'.at # "off" =>
           \A s \in ToSet(loop'.seeds) : s \in ToSet(loop'.todo) \/ final[s] # Absent
  PROVE  IndInv'
<1>1. \A s \in Seed : final'[s] # Absent => Published(s)' /\ EntryIsThere(s)'
  BY DEF artifacts, IndInv, Published, EntryIsThere
<1> QED
  BY <1>1 DEF IndInv, artifacts

LEMMA OperatorSteps ==
  ASSUME IndInv, Operator
  PROVE  IndInv'
<1>1. CASE \E file \in DOMAIN box : \E version \in Versions[file] \cup {Torn} : Arrive(file, version)
  <2>1. PICK file \in DOMAIN box : \E version \in Versions[file] \cup {Torn} : Arrive(file, version)
    BY <1>1
  <2>2. PICK version \in Versions[file] \cup {Torn} : Arrive(file, version)
    BY <2>1
  <2>3. file \in {"data", "config", "receipt"}
    BY DEF IndInv, TypeOK
  <2>4. box' \in [data : Versions.data \cup {Torn}, config : Versions.config \cup {Torn},
                  receipt : Versions.receipt \cup {Torn}]
    <3>1. CASE file = "data"
      BY <2>2, <3>1 DEF Arrive, IndInv, TypeOK
    <3>2. CASE file = "config"
      BY <2>2, <3>2 DEF Arrive, IndInv, TypeOK
    <3>3. CASE file = "receipt"
      BY <2>2, <3>3 DEF Arrive, IndInv, TypeOK
    <3> QED
      BY <2>3, <3>1, <3>2, <3>3
  <2>5. UNCHANGED <<base, loop, artifacts, told>>
    BY <2>2 DEF Arrive
  <2>6. TypeOK'
    BY <2>4, <2>5 DEF IndInv, TypeOK, artifacts
  <2>7. loop'.at \in Steps => loop'.todo # <<>> /\ InWork(s0)'
    BY <2>5 DEF IndInv, artifacts, InWork, EntryIsThere, LineOf, s0
  <2> QED
    BY <2>5, <2>6, <2>7, OffArtifacts DEF IndInv
<1>2. CASE \E b \in Bases : Provision(b)
  <2>1. TypeOK' /\ UNCHANGED <<loop, artifacts, told>> /\ loop.at = "off"
    BY <1>2 DEF Provision, IndInv, TypeOK, artifacts
  <2> QED
    BY <2>1, OffArtifacts DEF IndInv, Steps
<1>3. CASE Smoke
  <2>1. TypeOK'
    BY <1>3 DEF Smoke, IndInv, TypeOK
  <2>2. \A s \in Seed : EntryIsThere(s) => EntryIsThere(s)'
    BY <1>3, SmokeAssumption DEF Smoke, EntryIsThere, Replaced
  <2>3. \A s \in Seed : Published(s) => Published(s)'
    BY <1>3 DEF Smoke, Published
  <2> QED
    BY <1>3, <2>1, <2>2, <2>3 DEF Smoke, IndInv, Steps
<1>4. CASE Kill
  <2>1. loop' = Off /\ UNCHANGED <<box, base, artifacts, told>>
    BY <1>4 DEF Kill
  <2>2. loop'.at = "off" /\ TypeOK'
    BY <2>1 DEF IndInv, TypeOK, artifacts, Off
  <2> QED
    BY <2>1, <2>2, OffArtifacts DEF IndInv, Steps
<1> QED
  BY <1>1, <1>2, <1>3, <1>4 DEF Operator

\* The seed in work is a seed, and its files are of the shapes they should have.
LEMMA InWorkFacts ==
  ASSUME IndInv, loop.at \in Steps
  PROVE  /\ s0 \in Seed /\ loop.todo # <<>> /\ InWork(s0)
         /\ adapter[s0] \in Adapters \cup {Absent}
         /\ loop.todo \in Seq(Seed)
BY Heads DEF IndInv, TypeOK, s0

LEMMA StartStep ==
  ASSUME IndInv, Start
  PROVE  IndInv'
<1>1. box.config \in Versions.config
  BY DEF Start, IsWhole, IndInv, TypeOK
<1>2. box.config.seeds \in Seq(Seed)
  BY <1>1, VersionsAssumption
<1>3. /\ loop' = [at |-> "pick", seeds |-> box.config.seeds, todo |-> box.config.seeds, config |-> Absent]
      /\ UNCHANGED <<box, base, artifacts, told>>
  BY DEF Start, Rest
<1>4. TypeOK'
  BY <1>2, <1>3 DEF IndInv, TypeOK, artifacts
<1> QED
  BY <1>3, <1>4, OffArtifacts DEF IndInv, Steps

LEMMA PickSteps ==
  ASSUME IndInv, Skip \/ Train \/ WriteDone
  PROVE  IndInv'
<1>1. CASE Skip
  <2>1. /\ loop' = [loop EXCEPT !.todo = Tail(loop.todo)] /\ told' = Absent
        /\ UNCHANGED <<box, base, artifacts>> /\ loop.at = "pick" /\ loop.todo # <<>>
    BY <1>1 DEF Skip, Rest, At
  <2>2. loop.todo \in Seq(Seed) /\ final[s0] # Absent
    BY <1>1 DEF Skip, IsDone, IndInv, TypeOK
  <2>3. TypeOK'
    BY <2>1, <2>2, Heads DEF IndInv, TypeOK, artifacts
  <2>4. /\ loop'.todo = Tail(loop.todo) /\ loop'.seeds = loop.seeds /\ loop'.at = "pick"
    BY <2>1 DEF IndInv, TypeOK
  <2>5. \A s \in ToSet(loop'.seeds) : s \in ToSet(loop'.todo) \/ final[s] # Absent
    BY <2>1, <2>2, <2>4, TailCovers DEF IndInv, s0
  <2> QED
    BY <2>1, <2>3, <2>4, <2>5, OffArtifacts DEF Steps
<1>2. CASE Train
  <2>1. /\ loop' = [loop EXCEPT !.at = "check"] /\ told' = Absent
        /\ UNCHANGED <<box, base, artifacts>> /\ loop.at = "pick" /\ loop.todo # <<>> /\ ~IsDone(s0)
    BY <1>2 DEF Train, Rest, At, Goto
  <2>2. /\ loop'.at = "check" /\ loop'.seeds = loop.seeds /\ loop'.todo = loop.todo
        /\ TypeOK'
    BY <2>1 DEF IndInv, TypeOK, artifacts, Steps
  <2>3. s0 \in Seed
    BY <2>1, Heads DEF IndInv, TypeOK, s0
  <2>4. final[s0] = Absent
    <3> SUFFICES ASSUME final[s0] # Absent PROVE FALSE
      OBVIOUS
    <3>1. Published(s0) /\ EntryIsThere(s0)
      BY <2>3 DEF IndInv
    <3>2. \E line \in lines : line[1] = s0
      BY <3>1 DEF Published
    <3> QED
      BY <2>1, <3>1, <3>2 DEF IsDone
  <2>5. InWork(s0)'
    BY <2>1, <2>2, <2>4 DEF InWork, artifacts, s0
  <2> QED
    BY <2>1, <2>2, <2>5, OffArtifacts DEF IndInv
<1>3. CASE WriteDone
  <2>1. /\ told' = loop.seeds /\ loop' = Off /\ UNCHANGED <<box, base, artifacts>>
        /\ loop.at = "pick" /\ loop.todo = <<>>
    BY <1>3 DEF WriteDone, Rest, At
  <2>2. TypeOK' /\ loop'.at = "off"
    BY <2>1 DEF IndInv, TypeOK, artifacts, Off
  <2>3. \A s \in ToSet(told') : final[s] # Absent
    BY <2>1 DEF IndInv, ToSet
  <2> QED
    BY <2>1, <2>2, <2>3, OffArtifacts DEF Steps
<1> QED
  BY <1>1, <1>2, <1>3

LEMMA CheckSteps ==
  ASSUME IndInv, VerifyReceipt \/ Load
  PROVE  IndInv'
<1>1. UNCHANGED <<box, base, artifacts, told>> /\ loop.at \in {"check", "load"}
  BY DEF VerifyReceipt, Load, Rest, At
<1>2. /\ TypeOK'
      /\ \/ loop'.at = "off"
         \/ loop'.at \in {"load", "loaded"} /\ loop'.seeds = loop.seeds /\ loop'.todo = loop.todo
  <2>1. CASE loop' = Off
    BY <1>1, <2>1 DEF IndInv, TypeOK, artifacts, Off
  <2>2. CASE loop' = [loop EXCEPT !.at = "load"]
    BY <1>1, <2>2 DEF IndInv, TypeOK, artifacts, Steps
  <2>3. CASE loop' = [loop EXCEPT !.at = "loaded", !.config = box.config] /\ IsWhole(box.config)
    <3>1. box.config \in Versions.config
      BY <2>3 DEF IsWhole, IndInv, TypeOK
    <3> QED
      BY <1>1, <2>3, <3>1 DEF IndInv, TypeOK, artifacts, Steps
  <2> QED
    BY <2>1, <2>2, <2>3 DEF VerifyReceipt, Load, Goto
<1>3. loop.at \in Steps /\ InWork(s0) /\ loop.todo # <<>>
  BY <1>1 DEF IndInv, Steps
<1>4. loop'.at # "off" => InWork(s0)'
  BY <1>1, <1>2, <1>3 DEF InWork, artifacts, s0
<1> QED
  BY <1>1, <1>2, <1>3, <1>4, OffArtifacts DEF IndInv, Steps

LEMMA Going ==
  ASSUME IndInv, NEW step \in Steps, Goto(step)
  PROVE  /\ loop'.at = step /\ loop'.at \in Steps /\ loop'.todo = loop.todo
         /\ loop'.seeds = loop.seeds /\ s0' = s0
         /\ loop' \in [at : Steps \cup {"off", "pick"}, seeds : Seq(Seed), todo : Seq(Seed),
                       config : Versions.config \cup {Absent}]
BY DEF Goto, IndInv, TypeOK, s0

LEMMA SaveSteps ==
  ASSUME IndInv, SaveBegins \/ SaveEnds
  PROVE  IndInv'
<1>1. CASE SaveBegins
  <2> DEFINE new == [n |-> IF adapter[s0] = Absent THEN 0 ELSE 1 - adapter[s0].n,
                     base |-> base, whole |-> FALSE]
  <2>1. /\ adapter' = [adapter EXCEPT ![s0] = new] /\ loop.at = "loaded" /\ Goto("saving")
        /\ UNCHANGED <<box, base, tmp, lines, final, manifest, told>>
    BY <1>1 DEF SaveBegins, Rest, At
  <2>2. loop.at \in Steps /\ "saving" \in Steps
    BY <2>1 DEF Steps
  <2>3. new.n \in {0, 1} /\ base \in Bases
    BY <2>2, InWorkFacts DEF IndInv, TypeOK, Adapters
  <2>4. new \in Adapters
    BY <2>3 DEF Adapters
  <2> HIDE DEF new
  <2>5. adapter' \in [Seed -> Adapters \cup {Absent}] /\ adapter'[s0] = new
        /\ \A s \in Seed \ {s0} : adapter'[s] = adapter[s]
    BY <2>1, <2>2, <2>4, InWorkFacts DEF IndInv, TypeOK
  <2>6. TypeOK'
    BY <2>1, <2>2, <2>5, Going DEF IndInv, TypeOK
  <2>7. InWork(s0)'
    BY <2>1, <2>2, <2>4, <2>5, Going, InWorkFacts, AbsentAssumption DEF InWork
  <2> QED
    BY <2>1, <2>2, <2>5, <2>6, <2>7, Going, OnSeed DEF LineOf, EntryIsThere
<1>2. CASE SaveEnds
  <2> DEFINE new == [adapter[s0] EXCEPT !.whole = TRUE]
  <2>1. /\ adapter' = [adapter EXCEPT ![s0] = new] /\ loop.at = "saving" /\ Goto("saved")
        /\ UNCHANGED <<box, base, tmp, lines, final, manifest, told>>
    BY <1>2 DEF SaveEnds, Rest, At
  <2>2. loop.at \in Steps /\ "saved" \in Steps
    BY <2>1 DEF Steps
  <2>3. adapter[s0] \in Adapters
    BY <2>1, <2>2, InWorkFacts DEF InWork
  <2>4. new \in Adapters /\ new.whole
    BY <2>3 DEF Adapters
  <2> HIDE DEF new
  <2>5. adapter' \in [Seed -> Adapters \cup {Absent}] /\ adapter'[s0] = new
        /\ \A s \in Seed \ {s0} : adapter'[s] = adapter[s]
    BY <2>1, <2>2, <2>4, InWorkFacts DEF IndInv, TypeOK
  <2>6. TypeOK'
    BY <2>1, <2>2, <2>5, Going DEF IndInv, TypeOK
  <2>7. InWork(s0)'
    BY <2>1, <2>2, <2>4, <2>5, Going, InWorkFacts, AbsentAssumption DEF InWork
  <2> QED
    BY <2>1, <2>2, <2>5, <2>6, <2>7, Going, OnSeed DEF LineOf, EntryIsThere
<1> QED
  BY <1>1, <1>2

LEMMA ManifestStep ==
  ASSUME IndInv, AppendManifest
  PROVE  IndInv'
<1>1. PICK entry : manifest' = Replaced(manifest, entry) /\ entry.seed = s0
  BY DEF AppendManifest
<1>2. /\ loop.at = "saved" /\ Goto("trained")
      /\ UNCHANGED <<box, base, adapter, tmp, lines, final, told>>
  BY DEF AppendManifest, Rest, At
<1>3. loop.at \in Steps /\ "trained" \in Steps
  BY <1>2 DEF Steps
<1>4. TypeOK'
  BY <1>2, <1>3, Going DEF IndInv, TypeOK
<1>5. EntryIsThere(s0)' /\ \A s \in Seed \ {s0} : EntryIsThere(s) => EntryIsThere(s)'
  BY <1>1, <1>2, <1>3, Going DEF EntryIsThere, Replaced
<1>6. InWork(s0)'
  BY <1>2, <1>3, <1>5, Going, InWorkFacts DEF InWork
<1> QED
  BY <1>2, <1>3, <1>4, <1>5, <1>6, Going, OnSeed DEF LineOf

LEMMA ConvertSteps ==
  ASSUME IndInv, ConvertBegins \/ ConvertEnds
  PROVE  IndInv'
<1>1. PICK new \in {Torn, adapter[s0]} :
        /\ tmp' = [tmp EXCEPT ![s0] = new] /\ UNCHANGED <<box, base, adapter, lines, final, manifest, told>>
        /\ \/ loop.at = "trained" /\ Goto("converting")
           \/ loop.at = "converting" /\ Goto("converted") /\ new = adapter[s0]
  BY DEF ConvertBegins, ConvertEnds, Rest, At
<1>2. loop.at \in Steps /\ "converting" \in Steps /\ "converted" \in Steps
  BY <1>1 DEF Steps
<1>3. tmp' \in [Seed -> Adapters \cup {Absent, Torn}] /\ tmp'[s0] = new
  BY <1>1, <1>2, InWorkFacts DEF IndInv, TypeOK
<1>4. TypeOK'
  BY <1>1, <1>2, <1>3, Going DEF IndInv, TypeOK
<1>5. InWork(s0)'
  BY <1>1, <1>2, <1>3, Going, InWorkFacts DEF InWork, EntryIsThere
<1> QED
  BY <1>1, <1>2, <1>4, <1>5, Going, OnSeed DEF LineOf, EntryIsThere

LEMMA LineSteps ==
  ASSUME IndInv, Strip \/ Record
  PROVE  IndInv'
<1>1. /\ UNCHANGED <<box, base, adapter, tmp, final, manifest, told>>
      /\ \/ loop.at = "converted" /\ Goto("stripped") /\ lines' = Without(lines, s0)
         \/ loop.at = "stripped" /\ Goto("lined") /\ lines' = lines \cup {<<s0, tmp[s0]>>}
  BY DEF Strip, Record, Rest, At
<1>2. loop.at \in Steps /\ "stripped" \in Steps /\ "lined" \in Steps
  BY <1>1 DEF Steps
<1>3. TypeOK'
  BY <1>1, <1>2, Going DEF IndInv, TypeOK
<1>4. \A s \in Seed \ {s0} : LineOf(s)' = LineOf(s)
  BY <1>1 DEF LineOf, Without
<1>5. loop.at = "converted" => {line \in lines' : line[1] = s0} = {}
  BY <1>1 DEF Without, Goto
<1>6. loop.at = "stripped" => {line \in lines' : line[1] = s0} = {<<s0, tmp[s0]>>}
  BY <1>1, <1>2, InWorkFacts DEF InWork, LineOf
<1>7. InWork(s0)'
  BY <1>1, <1>2, <1>5, <1>6, Going, InWorkFacts DEF InWork, EntryIsThere, LineOf
<1> QED
  BY <1>1, <1>2, <1>3, <1>4, <1>7, Going, OnSeed DEF EntryIsThere

LEMMA MoveStep ==
  ASSUME IndInv, Move
  PROVE  IndInv'
<1>1. /\ final' = [final EXCEPT ![s0] = tmp[s0]] /\ tmp' = [tmp EXCEPT ![s0] = Absent]
      /\ loop' = [loop EXCEPT !.at = "pick", !.todo = Tail(loop.todo), !.config = Absent]
      /\ loop.at = "lined" /\ UNCHANGED <<box, base, adapter, lines, manifest, told>>
  BY DEF Move, Rest, At
<1>2. loop.at \in Steps
  BY <1>1 DEF Steps
<1>3. /\ s0 \in Seed /\ tmp[s0] = adapter[s0] /\ adapter[s0] \in Adapters /\ adapter[s0].whole
      /\ LineOf(s0) = {<<s0, tmp[s0]>>} /\ EntryIsThere(s0) /\ tmp[s0] # Absent
  BY <1>1, <1>2, InWorkFacts, AbsentAssumption DEF InWork
<1>4. /\ loop'.todo = Tail(loop.todo) /\ loop'.seeds = loop.seeds /\ loop'.at = "pick"
      /\ loop' \in [at : Steps \cup {"off", "pick"}, seeds : Seq(Seed), todo : Seq(Seed),
                    config : Versions.config \cup {Absent}]
  BY <1>1, <1>2, InWorkFacts, Heads DEF IndInv, TypeOK
<1>5. /\ final' \in [Seed -> Adapters \cup {Absent}] /\ final'[s0] = tmp[s0]
      /\ \A s \in Seed \ {s0} : final'[s] = final[s]
  BY <1>1, <1>3 DEF IndInv, TypeOK
<1>6. TypeOK'
  BY <1>1, <1>4, <1>5 DEF IndInv, TypeOK
<1>8. \A s \in Seed : final'[s] # Absent => Published(s)' /\ EntryIsThere(s)'
  <2> SUFFICES ASSUME NEW s \in Seed, final'[s] # Absent
               PROVE  Published(s)' /\ EntryIsThere(s)'
    OBVIOUS
  <2>1. CASE s = s0
    <3>1. EntryIsThere(s)'
      BY <1>1, <1>3, <2>1 DEF EntryIsThere
    <3>2. Published(s)'
      BY <1>1, <1>3, <1>5, <2>1 DEF Published, LineOf
    <3> QED
      BY <3>1, <3>2
  <2>2. CASE s # s0
    <3>1. EntryIsThere(s)' /\ LineOf(s)' = LineOf(s) /\ final[s] # Absent
      BY <1>1, <1>5, <2>2 DEF IndInv, EntryIsThere, LineOf
    <3> QED
      BY <1>1, <1>5, <2>2, <3>1, PublishedStays
  <2> QED
    BY <2>1, <2>2
<1>9. \A s \in Seed : final[s] # Absent => final'[s] # Absent
  BY <1>3, <1>5
<1>10. \A s \in ToSet(loop'.seeds) : s \in ToSet(loop'.todo) \/ final'[s] # Absent
  <2> SUFFICES ASSUME NEW s \in ToSet(loop.seeds)
               PROVE  s \in ToSet(Tail(loop.todo)) \/ final'[s] # Absent
    BY <1>4
  <2>1. s \in Seed
    BY SeedsOf DEF IndInv, TypeOK
  <2>2. s \in ToSet(loop.todo) \/ final[s] # Absent
    BY <1>1 DEF IndInv
  <2> QED
    BY <1>2, <1>3, <1>5, <1>9, <2>1, <2>2, InWorkFacts, TailCovers DEF s0
<1>11. told' # Absent => \A s \in ToSet(told') : final'[s] # Absent
  BY <1>1, <1>9, SeedsOf DEF IndInv, TypeOK
<1> QED
  BY <1>4, <1>6, <1>8, <1>10, <1>11 DEF IndInv, Steps

\* Whatever is killed, copied or provisioned, a published seed keeps its entry,
\* its line and its whole file, and is never worked on again.
THEOREM InvariantHolds == Spec => []IndInv
<1>1. Init => IndInv
  <2> SUFFICES ASSUME Init PROVE IndInv
    OBVIOUS
  <2>1. box \in [data : Versions.data \cup {Torn}, config : Versions.config \cup {Torn},
                receipt : Versions.receipt \cup {Torn}]
    BY DEF Init
  <2>2. loop \in [at : Steps \cup {"off", "pick"}, seeds : Seq(Seed), todo : Seq(Seed),
                 config : Versions.config \cup {Absent}] /\ loop.at = "off"
    BY DEF Init, Off
  <2>3. TypeOK
    BY <2>1, <2>2 DEF Init, TypeOK
  <2> QED
    BY <2>2, <2>3 DEF Init, IndInv, Steps
<1>2. IndInv /\ [Next]_vars => IndInv'
  <2> SUFFICES ASSUME IndInv, [Next]_vars PROVE IndInv'
    OBVIOUS
  <2>1. CASE Loop
    BY <2>1, StartStep, PickSteps, CheckSteps, SaveSteps, ManifestStep, ConvertSteps, LineSteps,
       MoveStep DEF Loop
  <2>2. CASE Operator
    BY <2>2, OperatorSteps
  <2>3. CASE UNCHANGED vars
    <3>1. TypeOK' /\ UNCHANGED <<loop, artifacts, told>>
      BY <2>3 DEF vars, artifacts, IndInv, TypeOK
    <3>2. loop'.at \in Steps => loop'.todo # <<>> /\ InWork(s0)'
      BY <3>1 DEF IndInv, artifacts, InWork, EntryIsThere, LineOf, s0
    <3> QED
      BY <3>1, <3>2, OffArtifacts DEF IndInv
  <2> QED
    BY <2>1, <2>2, <2>3 DEF Next
<1> QED
  BY <1>1, <1>2, PTL DEF Spec

\* The shapes of what is on the box and in the output directory.
THEOREM TypeCorrect == Spec => []TypeOK
BY InvariantHolds, PTL DEF IndInv

\* What a rerun skips, and what status.json calls done, is whole: for any seeds,
\* versions of the files, base directories and numbers of kills and changes.
THEOREM DoneMeansWhole == Spec => []DoneIsWhole
<1>1. IndInv => DoneIsWhole
  BY SeedsOf DEF IndInv, TypeOK, DoneIsWhole, IsDone
<1> QED
  BY <1>1, InvariantHolds, PTL
\* The loop is past the comparison of the directory and not past the entry.
Trained == {"loaded", "saving", "saved"}

\* A step that writes no entry and leaves the loop out of the part where
\* configuration and directory must agree.
LEMMA OutOfTraining ==
  ASSUME BaseInv, manifest' = manifest, loop'.at \notin Trained
  PROVE  BaseInv'
BY DEF BaseInv, Trained, AllHonest, RealEntries, Honest

\* One that writes no entry and changes nothing of the seed in work.
LEMMA SameTraining ==
  ASSUME BaseInv, UNCHANGED <<manifest, base, loop, adapter>>
  PROVE  BaseInv'
BY DEF BaseInv, AllHonest, RealEntries, Honest, s0

\* An entry of a seed replaces the earlier one.
LEMMA ReplacedHonest ==
  ASSUME NEW entries, AllHonest(entries), NEW e, e \in RealEntries({e}) => Honest(e)
  PROVE  AllHonest(Replaced(entries, e))
<1>1. IsFiniteSet({x \in entries : x.seed # e.seed})
  BY FS_Subset DEF AllHonest
<1>2. IsFiniteSet(Replaced(entries, e))
  BY <1>1, FS_AddElement DEF Replaced
<1>3. ASSUME NEW x \in RealEntries(Replaced(entries, e)) PROVE Honest(x)
  <2>1. CASE x = e
    BY <1>3, <2>1 DEF RealEntries
  <2>2. CASE x # e
    BY <1>3, <2>2 DEF RealEntries, Replaced, AllHonest
  <2> QED
    BY <2>1, <2>2
<1> QED
  BY <1>2, <1>3 DEF AllHonest

LEMMA OperatorHonest ==
  ASSUME IndInv, BaseInv, Operator
  PROVE  BaseInv'
<1>1. CASE \E file \in DOMAIN box : \E version \in Versions[file] \cup {Torn} : Arrive(file, version)
  BY <1>1, SameTraining DEF Arrive, artifacts
<1>2. CASE \E b \in Bases : Provision(b)
  <2>1. manifest' = manifest /\ loop'.at = "off"
    BY <1>2 DEF Provision, artifacts
  <2> QED
    BY <2>1, OutOfTraining DEF Trained
<1>3. CASE Smoke
  <2> DEFINE e == [seed |-> SmokeSeed, scheme |-> Absent, source |-> Absent, smoke |-> TRUE, base |-> base]
  <2>1. manifest' = Replaced(manifest, e) /\ loop'.at = "off"
    BY <1>3 DEF Smoke
  <2>2. e \notin RealEntries({e})
    BY DEF RealEntries
  <2>3. AllHonest(manifest')
    BY <2>1, <2>2, ReplacedHonest DEF BaseInv
  <2> QED
    BY <2>1, <2>3 DEF BaseInv, AllHonest, RealEntries, Honest
<1>4. CASE Kill
  BY <1>4, OutOfTraining DEF Kill, artifacts, Off, Trained
<1> QED
  BY <1>1, <1>2, <1>3, <1>4 DEF Operator

\* Load: the directory has just been compared with the configuration that was read.
LEMMA LoadHonest ==
  ASSUME IndInv, BaseInv, Load
  PROVE  BaseInv'
<1>1. CASE loop' = Off
  BY <1>1, OutOfTraining DEF Load, artifacts, Off, Trained
<1>2. CASE /\ IsWhole(box.config) /\ BaseFits(box.config, base)
           /\ loop' = [loop EXCEPT !.at = "loaded", !.config = box.config]
  <2>1. box.config \in Versions.config
    BY <1>2 DEF IsWhole, IndInv, TypeOK
  <2>2. loop'.at = "loaded" /\ loop'.config = box.config
    BY <1>2 DEF IndInv, TypeOK
  <2>3. manifest' = manifest /\ base' = base
    BY DEF Load, Rest, artifacts
  <2>4. AllHonest(manifest)'
    BY <2>3 DEF BaseInv, AllHonest, RealEntries, Honest
  <2> QED
    BY <1>2, <2>1, <2>2, <2>3, <2>4 DEF BaseInv
<1> QED
  BY <1>1, <1>2 DEF Load

\* The adapter that is saved names the directory it was trained on.
LEMMA SaveHonest ==
  ASSUME IndInv, BaseInv, SaveBegins \/ SaveEnds
  PROVE  BaseInv'
<1>1. /\ loop.at \in {"loaded", "saving"} /\ manifest' = manifest /\ base' = base
      /\ \/ loop' = [loop EXCEPT !.at = "saving"]
         \/ loop' = [loop EXCEPT !.at = "saved"]
  BY DEF SaveBegins, SaveEnds, At, Goto, Rest
<1>2. loop'.at \in {"saving", "saved"} /\ loop'.config = loop.config /\ s0' = s0
  BY <1>1 DEF IndInv, TypeOK, s0
<1>3. s0 \in Seed /\ adapter \in [Seed -> Adapters \cup {Absent}] /\ InWork(s0)
  BY <1>1, InWorkFacts DEF IndInv, TypeOK, Steps
<1>4. adapter'[s0].base = base
  <2>1. CASE SaveBegins
    BY <1>3, <2>1 DEF SaveBegins
  <2>2. CASE SaveEnds
    <3>1. adapter[s0] \in Adapters /\ adapter[s0].base = base
      BY <1>3, <2>2 DEF SaveEnds, At, InWork, BaseInv
    <3>2. adapter'[s0] = [adapter[s0] EXCEPT !.whole = TRUE]
      BY <1>3, <2>2 DEF SaveEnds
    <3> QED
      BY <3>1, <3>2 DEF Adapters
  <2> QED
    BY <2>1, <2>2
<1>5. AllHonest(manifest)'
  BY <1>1 DEF BaseInv, AllHonest, RealEntries, Honest
<1> QED
  BY <1>1, <1>2, <1>4, <1>5 DEF BaseInv

\* The entry: the scheme and the source of the configuration are those of the
\* directory it was compared with.
LEMMA EntryHonest ==
  ASSUME IndInv, BaseInv, AppendManifest
  PROVE  BaseInv'
<1> DEFINE source == loop.config.source
           e == [seed |-> s0, scheme |-> SchemeOf(loop.config),
                 source |-> IF source = Absent THEN Null ELSE source,
                 smoke |-> FALSE, base |-> adapter[s0].base]
<1>1. /\ manifest' = Replaced(manifest, e) /\ loop' = [loop EXCEPT !.at = "trained"]
      /\ loop.at = "saved"
  BY DEF AppendManifest, At, Goto
<1>2. /\ loop.config \in Versions.config /\ BaseFits(loop.config, base)
      /\ adapter[s0].base = base /\ base \in Bases
  BY <1>1 DEF BaseInv, IndInv, TypeOK
<1>3. SchemeOf(loop.config) \in {Dequant, Fp16} /\ base.scheme \in {Dequant, Fp16}
  BY <1>2, KindsAssumption DEF SchemeOf
<1>4. Honest(e)
  BY <1>2, <1>3, SchemesAssumption DEF Honest, BaseFits, Resolved
<1>5. AllHonest(manifest')
  BY <1>1, <1>4, ReplacedHonest DEF BaseInv
<1>6. loop'.at = "trained"
  BY <1>1 DEF IndInv, TypeOK
<1> QED
  BY <1>5, <1>6 DEF BaseInv, AllHonest, RealEntries, Honest

\* Every other step of the loop is before the check or behind the entry.
LEMMA OtherHonest ==
  ASSUME IndInv, BaseInv,
         \/ Start \/ Skip \/ Train \/ VerifyReceipt \/ ConvertBegins \/ ConvertEnds
         \/ Strip \/ Record \/ Move \/ WriteDone
  PROVE  BaseInv'
<1>1. manifest' = manifest
  BY DEF Start, Skip, Train, VerifyReceipt, ConvertBegins, ConvertEnds, Strip, Record, Move,
         WriteDone, artifacts
<1>2. \/ loop' \in {Off, [loop EXCEPT !.todo = Tail(@)]} /\ loop.at \in {"check", "pick"}
      \/ loop'.at = "pick"
      \/ \E step \in {"check", "load", "converting", "converted", "stripped", "lined"} :
           loop' = [loop EXCEPT !.at = step]
  <2>1. CASE Start
    BY <2>1 DEF Start
  <2>4. CASE Move
    <3>1. loop' = [loop EXCEPT !.at = "pick", !.todo = Tail(@), !.config = Absent]
      BY <2>4 DEF Move
    <3>2. loop = [at |-> loop.at, seeds |-> loop.seeds, todo |-> loop.todo, config |-> loop.config]
      BY DEF IndInv, TypeOK
    <3> QED
      BY <3>1, <3>2
  <2>2. CASE Skip \/ WriteDone
    BY <2>2 DEF Skip, WriteDone, At
  <2>3. CASE Train \/ VerifyReceipt \/ ConvertBegins \/ ConvertEnds \/ Strip \/ Record
    BY <2>3 DEF Train, VerifyReceipt, ConvertBegins, ConvertEnds, Strip, Record, Goto, At
  <2> QED
    BY <2>1, <2>2, <2>3, <2>4
<1>3. loop'.at \notin Trained
  <2>1. CASE loop' \in {Off, [loop EXCEPT !.todo = Tail(@)]} /\ loop.at \in {"check", "pick"}
    BY <2>1 DEF Off, Trained, IndInv, TypeOK
  <2>2. CASE \E step \in {"check", "load", "converting", "converted", "stripped", "lined"} :
               loop' = [loop EXCEPT !.at = step]
    BY <2>2 DEF Trained, IndInv, TypeOK
  <2> QED
    BY <1>2, <2>1, <2>2 DEF Trained
<1> QED
  BY <1>1, <1>3, OutOfTraining

\* What the manifest says of the base weights is true: whatever configurations
\* are copied, directories provisioned and loops killed between two seeds.
THEOREM EntriesAreHonest == Spec => []BaseInv
<1>1. Init => BaseInv
  BY FS_EmptySet DEF Init, Off, BaseInv, AllHonest, RealEntries
<1>2. IndInv /\ BaseInv /\ [Next]_vars => BaseInv'
  <2> SUFFICES ASSUME IndInv, BaseInv, [Next]_vars PROVE BaseInv'
    OBVIOUS
  <2>1. CASE Loop
    BY <2>1, LoadHonest, SaveHonest, EntryHonest, OtherHonest DEF Loop
  <2>2. CASE Operator
    BY <2>2, OperatorHonest
  <2>3. CASE UNCHANGED vars
    BY <2>3, SameTraining DEF vars
  <2> QED
    BY <2>1, <2>2, <2>3 DEF Next
<1> QED
  BY <1>1, <1>2, InvariantHolds, PTL DEF Spec

\* What a finite set without two members is called by is its member.
LEMMA OnlyOne ==
  ASSUME NEW S, IsFiniteSet(S), ~(Cardinality(S) > 1), NEW x \in S
  PROVE  S = {x} /\ (CHOOSE y \in S : TRUE) = x
<1>1. Cardinality(S) \in Nat /\ Cardinality(S) # 0
  BY FS_CardinalityType, FS_EmptySet
<1>2. Cardinality(S) = 1
  BY <1>1
<1>3. PICK z : S = {z}
  BY <1>2, FS_Singleton, Zenon
<1> QED
  BY <1>3

\* The values of a field over a finite set of entries are finitely many.
LEMMA FiniteImage ==
  ASSUME NEW S, IsFiniteSet(S), NEW f, DOMAIN f = S, f = [x \in S |-> f[x]]
  PROVE  IsFiniteSet({f[x] : x \in S})
<1> DEFINE T == {f[x] : x \in S}
<1>1. f \in Surjection(S, T)
  BY DEF Surjection
<1> QED
  BY <1>1, FS_Surjection, Zenon

\* Any entry of a manifest that is not ambiguous says what the manifest says.
LEMMA OneScheme ==
  ASSUME NEW entries, AllHonest(entries), NEW e \in RealEntries(entries),
         ExtractScheme(entries) # Ambiguous
  PROVE  e.scheme = ExtractScheme(entries)
<1>1. IsFiniteSet(RealEntries(entries)) /\ IsFiniteSet(SchemesOf(entries))
  <2>1. IsFiniteSet(RealEntries(entries))
    BY FS_Subset DEF AllHonest, RealEntries
  <2> DEFINE f == [x \in RealEntries(entries) |-> x.scheme]
  <2>2. IsFiniteSet({f[x] : x \in RealEntries(entries)})
    BY <2>1, FiniteImage
  <2> QED
    BY <2>1, <2>2 DEF SchemesOf
<1>2. e.scheme \in SchemesOf(entries)
  BY DEF SchemesOf
<1> QED
  BY <1>1, <1>2, OnlyOne DEF ExtractScheme

LEMMA OneSource ==
  ASSUME NEW entries, AllHonest(entries), NEW e \in RealEntries(entries),
         e.source \notin {Null, Absent}, ExtractSource(entries) # Ambiguous
  PROVE  e.source = ExtractSource(entries)
<1>1. IsFiniteSet(SourcesOf(entries))
  <2>1. IsFiniteSet(RealEntries(entries))
    BY FS_Subset DEF AllHonest, RealEntries
  <2> DEFINE f == [x \in RealEntries(entries) |-> x.source]
  <2>2. IsFiniteSet({f[x] : x \in RealEntries(entries)})
    BY <2>1, FiniteImage
  <2>3. {f[x] : x \in RealEntries(entries)} = {x.source : x \in RealEntries(entries)}
    OBVIOUS
  <2> QED
    BY <2>2, <2>3, FS_Subset DEF SourcesOf
<1>2. e.source \in SourcesOf(entries)
  BY DEF SourcesOf
<1> QED
  BY <1>1, <1>2, OnlyOne DEF ExtractSource

\* Two manifests that are held to match come from base weights of one kind, and
\* from one quantized file where both name it: for any configurations, base
\* directories and manifests of honest runs.
THEOREM MatchesAreComparable == Spec => []Comparable
<1>1. BaseInv => Comparable
  <2> SUFFICES ASSUME BaseInv, NEW other \in Others, SameBaseScheme(manifest, other),
                      NEW mine \in RealEntries(manifest), NEW theirs \in RealEntries(other)
               PROVE  /\ mine.base.scheme = theirs.base.scheme
                      /\ mine.scheme = Dequant /\ {mine.source, theirs.source} \cap {Null, Absent} = {} =>
                           mine.base.source = theirs.base.source
    BY DEF Comparable
  <2>1. AllHonest(manifest) /\ AllHonest(other)
    BY OthersAssumption DEF BaseInv
  <2>2. mine.scheme = ExtractScheme(manifest) /\ theirs.scheme = ExtractScheme(other)
    BY <2>1, OneScheme DEF SameBaseScheme
  <2>3. Resolved(mine.scheme) = Resolved(theirs.scheme)
    BY <2>2 DEF SameBaseScheme
  <2>4. Honest(mine) /\ Honest(theirs)
    BY <2>1 DEF AllHonest
  <2>5. ASSUME mine.scheme = Dequant, {mine.source, theirs.source} \cap {Null, Absent} = {}
        PROVE  mine.base.source = theirs.base.source
    <3>1. theirs.scheme = Dequant
      BY <2>3, <2>5, SchemesAssumption DEF Resolved
    <3>2. mine.source = mine.base.source /\ theirs.source = theirs.base.source
      BY <2>4, <2>5, <3>1 DEF Honest
    <3>3. mine.source = ExtractSource(manifest) /\ theirs.source = ExtractSource(other)
      BY <2>1, <2>5, OneSource DEF SameBaseScheme
    <3>4. Null \notin {ExtractSource(manifest), ExtractSource(other)}
      BY <2>5, <3>3
    <3> QED
      BY <3>2, <3>3, <3>4 DEF SameBaseScheme
  <2> QED
    BY <2>3, <2>4, <2>5 DEF Honest
<1> QED
  BY <1>1, EntriesAreHonest, PTL
=============================================================================
