------------------------------- MODULE Upload -------------------------------
(* upload_guard: a data set is validated, a run configuration and a receipt  *)
(* are written beside it, and the three files are copied to the box one by   *)
(* one, where a trainer compares the data set with the receipt before it     *)
(* reads it. The data set, its manifest and the receipt of the base weights  *)
(* may be replaced at any moment, so each is chosen where it is read. A      *)
(* command of a dry run may be run later, and copies may be cut.             *)
EXTENDS Trainer, Sequences, FiniteSets, SequencesExt

CONSTANTS
  Dataset,     \* versions of the data set
  Rows,        \* [Dataset -> Seq([v3, uid, rollout, verified, tier, paper, hinted])]
  Corpus,      \* [Dataset -> the corpus its manifest names]
  PinnedCorpus,
  TrainSide, EvalUids, EvalPapers,  \* of the split a v3 data set is checked against
  EvalSetUids,    \* of eval_set.jsonl,
  EvalSetPapers,  \*   and of its split, which any other data set is checked against
  Identity,    \* receipts: [pass, scheme, verified, source, manifest]
  SeedLists,   \* config.SEEDS and the subsets given on the command line
  SourceOf     \* [{Dequant, Fp16} -> EXPECTED_BASE_GGUF_SHA256, FP16_REVISION]

ASSUME SplitAssumption == TrainSide \cap EvalUids = {}

VARIABLES
  guard,    \* what a guard has validated and not yet receipted: [data, raced], or Absent
  config, receipt,  \* the files beside the data set
  copying,  \* the scp: Absent, or [file, begun]
  remote,      \* [data, config, receipt], each a version, Torn or Absent
  trainer,  \* what a trainer has hashed and not yet read, or Absent
  trained   \* what the last adapter was trained on: [data, raced], or Absent

uploadVars == <<guard, config, receipt, copying, remote, trainer, trained>>

UploadInit ==
  /\ guard = Absent /\ config = Absent /\ receipt = Absent /\ copying = Absent
  /\ remote = [data |-> Absent, config |-> Absent, receipt |-> Absent]
  /\ trainer = Absent /\ trained = Absent
-----------------------------------------------------------------------------
(* The validation of a data set. *)

RowsOf(d) == ToSet(Rows[d])
IsV3(row) == row.v3

V3RowHolds(row) ==
  /\ row.verified /\ ~row.hinted
  /\ row.tier \in {"band", "collapse", "anchor"}

Anchors(d) == {row \in RowsOf(d) : row.tier = "anchor"}
NoUidTwice(d) == \A i, j \in DOMAIN Rows[d] : Rows[d][i].uid = Rows[d][j].uid => i = j
InTrainSide(d) == \A row \in RowsOf(d) \ Anchors(d) : row.uid \in TrainSide
AnchorsOutside(d) ==
  \A row \in Anchors(d) :
    row.uid \notin EvalUids /\ row.paper # Absent /\ row.paper \notin EvalPapers

ValidV3(d) ==
  /\ \A row \in RowsOf(d) : V3RowHolds(row)
  /\ NoUidTwice(d) /\ InTrainSide(d)
  /\ Anchors(d) # {} => EvalUids # {} /\ EvalPapers # {} /\ AnchorsOutside(d)

NoRolloutTwice(d) ==
  \A i, j \in DOMAIN Rows[d] :
    Rows[d][i].uid = Rows[d][j].uid /\ Rows[d][i].rollout = Rows[d][j].rollout => i = j
NoLeakage(d) == \A row \in RowsOf(d) : row.paper \notin EvalSetPapers /\ row.uid \notin EvalSetUids
ValidV2(d) ==
  (\A row \in RowsOf(d) : row.verified) /\ NoRolloutTwice(d) /\ NoLeakage(d)

\* The rows are read first, then the file is hashed; the manifest of a v3 data
\* set names the hash.
Validates(d, hashed, manifest) ==
  /\ Corpus[manifest] = PinnedCorpus
  /\ IF \E row \in RowsOf(d) : IsV3(row)
     THEN (\A row \in RowsOf(d) : IsV3(row)) /\ ValidV3(d) /\ manifest = hashed
     ELSE ValidV2(d)
-----------------------------------------------------------------------------
(* The guard. *)

SourceVerified(identity) == identity.verified /\ identity.source = SourceOf[Dequant]
IdentityHolds(identity, scheme) ==
  /\ identity.pass
  /\ (IF identity.scheme = Absent THEN Fp16 ELSE identity.scheme) = scheme
  /\ scheme = Dequant => SourceVerified(identity) /\ identity.manifest # Absent

RunConfig(scheme, seeds) == [scheme |-> scheme, source |-> SourceOf[scheme], seeds |-> seeds]

WriteRunConfig(scheme, seeds, d, hashed) ==
  /\ guard = Absent
  /\ \E identity \in Identity : IdentityHolds(identity, scheme)
  /\ \E manifest \in Dataset : Validates(d, hashed, manifest)
  /\ config' = RunConfig(scheme, seeds)
  /\ guard' = [data |-> hashed, raced |-> d # hashed]
  /\ UNCHANGED <<receipt, copying, remote, trainer, trained>>

WriteReceipt ==
  /\ guard # Absent
  /\ receipt' = guard /\ guard' = Absent
  /\ UNCHANGED <<config, copying, remote, trainer, trained>>

GuardKilled ==
  /\ guard # Absent /\ guard' = Absent
  /\ UNCHANGED <<config, receipt, copying, remote, trainer, trained>>

\* A receipt is there as soon as a guard has printed or run the command once.
Files == <<"data", "config", "receipt">>
StartCopy ==
  /\ copying = Absent /\ receipt # Absent
  /\ copying' = [file |-> 1, begun |-> FALSE]
  /\ UNCHANGED <<guard, config, receipt, remote, trainer, trained>>

CopyBegins ==
  /\ copying # Absent /\ ~copying.begun
  /\ remote' = [remote EXCEPT ![Files[copying.file]] = Torn]
  /\ copying' = [copying EXCEPT !.begun = TRUE]
  /\ UNCHANGED <<guard, config, receipt, trainer, trained>>

CopyEnds(d) ==
  /\ copying # Absent /\ copying.begun
  /\ remote' = [remote EXCEPT ![Files[copying.file]] =
       CASE copying.file = 1 -> d [] copying.file = 2 -> config [] copying.file = 3 -> receipt]
  /\ copying' = IF copying.file = Len(Files) THEN Absent
                ELSE [file |-> copying.file + 1, begun |-> FALSE]
  /\ UNCHANGED <<guard, config, receipt, trainer, trained>>

CopyCut ==
  /\ copying # Absent /\ copying' = Absent
  /\ UNCHANGED <<guard, config, receipt, remote, trainer, trained>>
-----------------------------------------------------------------------------
(* The trainer of a seed: the receipt first, then the rows from the file. A  *)
(* file that is cut between two lines is read like a shorter one.            *)

CheckReceipt ==
  /\ trainer = Absent /\ ReceiptHolds(remote)
  /\ trainer' = [data |-> remote.data, raced |-> remote.receipt.raced]
  /\ UNCHANGED <<guard, config, receipt, copying, remote, trained>>

LoadRows ==
  /\ trainer # Absent /\ IsWhole(remote.config)
  /\ trained' = [data |-> remote.data, raced |-> trainer.raced \/ remote.data # trainer.data]
  /\ trainer' = Absent
  /\ UNCHANGED <<guard, config, receipt, copying, remote>>

TrainerStops ==
  /\ trainer # Absent /\ trainer' = Absent
  /\ UNCHANGED <<guard, config, receipt, copying, remote, trained>>

UploadNext ==
  \/ \E scheme \in {Dequant, Fp16}, seeds \in SeedLists, d, hashed \in Dataset :
       WriteRunConfig(scheme, seeds, d, hashed)
  \/ WriteReceipt \/ GuardKilled
  \/ StartCopy \/ CopyBegins \/ (\E d \in Dataset : CopyEnds(d)) \/ CopyCut
  \/ CheckReceipt \/ LoadRows \/ TrainerStops

UploadSpec == UploadInit /\ [][UploadNext]_uploadVars
-----------------------------------------------------------------------------
(* Properties. *)

Vouchers == [data : Dataset, raced : BOOLEAN] \cup {Absent}
Configs ==
  [scheme : {Dequant, Fp16}, source : {SourceOf[Dequant], SourceOf[Fp16]}, seeds : SeedLists]
    \cup {Absent}

UploadTypeOK ==
  /\ guard \in Vouchers /\ receipt \in Vouchers /\ config \in Configs
  /\ copying \in [file : 1..3, begun : BOOLEAN] \cup {Absent}
  /\ remote \in [data : Dataset \cup {Absent, Torn}, config : Configs \cup {Torn},
             receipt : Vouchers \cup {Torn}]
  /\ trainer \in Vouchers
  /\ trained \in [data : Dataset \cup {Absent, Torn}, raced : BOOLEAN] \cup {Absent}

\* A row of a plain data set may stand on the eval side of the v3 split.
Outside(row) ==
  IF IsV3(row) THEN row.uid \notin EvalUids /\ (row.tier = "anchor" => row.paper \notin EvalPapers)
  ELSE row.uid \notin EvalSetUids /\ row.paper \notin EvalSetPapers
Clean(d) == \A row \in RowsOf(d) : row.verified /\ Outside(row)

\* _verify_dataset_receipt ("refusing to train on a moved/rogue dataset"):
\* whatever was rebuilt, copied, cut and mixed before, an adapter is trained on
\* a data set that was verified and is disjoint from the evaluation its kind is
\* checked against (the v3 split; or the eval set and its split), unless the file
\* was exchanged between the two reads of one program.
TrainedClean ==
  trained # Absent /\ ~trained.raced => trained.data \in Dataset /\ Clean(trained.data)

\* Why: who vouches for a data set, from the guard to the trainer, has seen it
\* validated or is known to have raced with its replacement.
Vouched(x) == x # Absent /\ ~x.raced => x.data \in Dataset /\ Clean(x.data)
EveryVoucher ==
  /\ Vouched(guard) /\ Vouched(receipt) /\ Vouched(trainer) /\ Vouched(trained)
  /\ remote.receipt # Torn => Vouched(remote.receipt)
UploadInv == UploadTypeOK /\ EveryVoucher
=============================================================================
