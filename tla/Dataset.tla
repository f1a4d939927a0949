------------------------------ MODULE Dataset ------------------------------
(* The training set of the pinned corpus: which records train, from which    *)
(* rollouts file their verified traces are harvested, and how it is put on   *)
(* disk. The rollouts files are logs that later scoring passes append to,    *)
(* under the same rollout ids, while a build may be reading them.            *)
EXTENDS EvalSet

CONSTANTS
  Ruled,      \* train uids of the ruled split, which the operator may put in place
  Corpus,     \* uids of the pinned band corpus
  PaperOf,    \* [uid -> paper] of the corpus and backfill records
  Statement,  \* [uid -> statement]
  EvalPapers, \* eval_papers of the split this build pins
  Roster,     \* train_backfill_7of8_uids of that split
  Sources,    \* backfill uids with a trace source in the configuration
  SourceRows, \* [uid -> rows found in its source: Seq of [label, right]]
  Score,      \* [uid -> n_correct, n_wrong, n_degenerate] of the record
  Files,      \* rollouts files
  Routed,     \* [uid -> the file next to the record's source]
  Globbed,    \* files the registry globs find
  FirstPass,  \* [file -> [uid -> Seq of verdicts]]
  Verdicts,   \* what a later pass may say of a rollout
  Policy, Cap,\* the weight policy; cap_k
  Rank,       \* [uid -> the rank the seed gives each of its rollouts]
  MaxAppends

ASSUME PolicyAssumption == Policy \in {"cap1", "capk", "inverse"} /\ Cap \in Nat \ {0}
ASSUME RoutedAssumption == Routed \in [Uid -> Files] /\ Globbed \subseteq Files
ASSUME PinAssumption == Corpus \subseteq Uid /\ Roster \cap Corpus = {}
\* The split pins papers, and a uid is a hash of source and statement: a tier
\* row of a ruled uid is of the record's paper if it names one.
ASSUME RuledAssumption ==
  /\ Ruled \subseteq Uid /\ \A u \in Ruled : PaperOf[u] \notin HeldPapers
  /\ \A t \in DOMAIN TierRows : \A i \in DOMAIN TierRows[t] :
       TierRows[t][i].uid \in Ruled =>
         TierRows[t][i].paper \in {PaperOf[TierRows[t][i].uid], NoPaper}
ASSUME PassAssumption ==
  /\ K \in Nat /\ IsFiniteSet(Files)
  /\ Verdicts \subseteq {"correct", "wrong", "degenerate"}
  /\ FirstPass \in [Files -> [Uid -> Seq({"correct", "wrong", "degenerate"})]]
ASSUME RankAssumption ==
  /\ Rank \in [Uid -> [1..K -> Nat]]
  /\ \A u \in Uid : \A i, j \in 1..K : Rank[u][i] = Rank[u][j] => i = j

VARIABLES
  pc,        \* "idle", "uids", "records", "harvested", "published"
  trains,    \* what the build holds: the train uids,
  evals,     \* the eval uids,
  examples,  \* and the examples, each [uid, file, sample, verdict]
  rollouts,  \* [file -> [uid -> Seq of verdicts]], the last line of each rollout
  dataset,   \* sft_train.jsonl
  manifest,  \* dataset_manifest.json: the examples it counts
  written,   \* history: every <<file, uid, sample, verdict>> a pass wrote
  everTrained, \* history: uids of every dataset published
  appends

build == <<pc, trains, evals, examples>>
output == <<dataset, manifest, everTrained>>
vars == <<evalvars, build, output, rollouts, written, appends>>

Init ==
  /\ EvalInit
  /\ pc = "idle" /\ trains = {} /\ evals = {} /\ examples = {}
  /\ rollouts = FirstPass
  /\ dataset = {} /\ manifest = {} /\ everTrained = {}
  /\ written = UNION {{<<f, u, i, FirstPass[f][u][i]>> : i \in (1..K) \cap DOMAIN FirstPass[f][u]} :
                        f \in Files, u \in Uid}
  /\ appends = 0

\* The operator points the build at the ruled split's list.
UseRuled ==
  /\ trainuids' = Ruled
  /\ UNCHANGED <<landed, making, evalset, todo, input, store, greedy, report, kills>>
  /\ UNCHANGED <<build, output, rollouts, written, appends>>

\* A scoring pass samples one rollout again under the same id.
Append1(f, u, i, verdict) ==
  /\ appends < MaxAppends /\ appends' = appends + 1
  /\ i \in DOMAIN rollouts[f][u]
  /\ rollouts' = [rollouts EXCEPT ![f][u][i] = verdict]
  /\ written' = written \cup {<<f, u, i, verdict>>}
  /\ UNCHANGED <<evalvars, build, output>>
-----------------------------------------------------------------------------
(* The guards, in the order of build. *)

\* What each refusal checks; a refused build leaves the disk as it was.
MappingComplete == Roster = Sources
UidsFound == trainuids # {} /\ evalset # {}
Disjoint(train, eval) == train \cap eval = {}
Backfill(train) == Sources \cap train

\* Every train uid is in the corpus or in the active backfill, never in both;
\* a backfill record is the one row of its source, 7 of 8 right and solved.
Selectable(train) ==
  /\ Sources \cap Corpus \cap train = {}
  /\ train \subseteq Corpus \cup Backfill(train)
SourceHolds(u) ==
  /\ Len(SourceRows[u]) = 1
  /\ SourceRows[u][1].right = K - 1 /\ SourceRows[u][1].label = "solved"

NoLeakage(train, eval) ==
  \A u \in train : PaperOf[u] \notin EvalPapers /\ u \notin eval
NoCrossUidDups(train) ==
  \A u, v \in train : Statement[u] = Statement[v] => u = v
NoCrossSplitDups(train, eval) ==
  \A u \in train : \A e \in eval : Statement[u] # Statement[e]

ReadTrainUids ==
  /\ pc = "idle" /\ MappingComplete /\ UidsFound
  /\ pc' = "uids" /\ trains' = trainuids
  /\ UNCHANGED <<evalvars, evals, examples, output, rollouts, written, appends>>

Accepted(train, eval) ==
  /\ Disjoint(train, eval) /\ Selectable(train)
  /\ \A u \in Backfill(train) : SourceHolds(u)
  /\ NoLeakage(train, eval) /\ NoCrossUidDups(train) /\ NoCrossSplitDups(train, eval)

ReadEvalSet ==
  /\ pc = "uids" /\ evalset # {}
  /\ Accepted(trains, Uids(evalset))
  /\ pc' = "records" /\ evals' = Uids(evalset)
  /\ UNCHANGED <<evalvars, trains, examples, output, rollouts, written, appends>>

Refused ==
  /\ pc = "uids" /\ (evalset = {} \/ ~Accepted(trains, Uids(evalset)))
  /\ pc' = "idle" /\ trains' = {}
  /\ UNCHANGED <<evalvars, evals, examples, output, rollouts, written, appends>>
-----------------------------------------------------------------------------
(* Rollouts: reconciliation, harvest, weight policy. *)

Registry == {Routed[u] : u \in trains} \cup Globbed

Tally(u, f) ==
  LET many(v) == Cardinality({i \in DOMAIN rollouts[f][u] : rollouts[f][u][i] = v})
  IN <<many("correct"), many("wrong"), many("degenerate")>>
ReconcilesLoosely(u, f) == Len(rollouts[f][u]) = K
Reconciles(u, f) == Len(rollouts[f][u]) = K /\ Tally(u, f) = Score[u]

Alternatives(u) == {f \in Registry \ {Routed[u]} : Reconciles(u, f)}

\* The file a record's traces come from: its own, or the only other one that
\* agrees with its score; none, or several, refuse the build.
Authoritative(u) ==
  IF Reconciles(u, Routed[u]) THEN {Routed[u]}
  ELSE IF Cardinality(Alternatives(u)) = 1 THEN Alternatives(u) ELSE {}

Traces(u, f) == {i \in DOMAIN rollouts[f][u] : rollouts[f][u][i] = "correct"}

\* cap1 and capk keep the rollouts the seed ranks first, inverse keeps all.
Kept(u, traces) ==
  LET cap == IF Policy = "cap1" THEN 1 ELSE Cap
      ahead(i) == {j \in traces : Rank[u][j] < Rank[u][i]}
  IN IF Policy = "inverse" THEN traces ELSE {i \in traces : Cardinality(ahead(i)) < cap}

Harvest(u) ==
  UNION {{[uid |-> u, file |-> f, sample |-> i, verdict |-> rollouts[f][u][i]] :
            i \in Kept(u, Traces(u, f))} : f \in Authoritative(u)}

Harvestable(u) == Authoritative(u) # {} /\ \A f \in Authoritative(u) : Traces(u, f) # {}

\* verify: correct, verbatim, within the policy, no eval paper and no eval uid.
WellMade(rows) ==
  /\ \A e \in rows : e.verdict = "correct"
  /\ NoLeakage(Uids(rows), evals)

HarvestTraces ==
  /\ pc = "records" /\ \A u \in trains : Harvestable(u)
  /\ examples' = UNION {Harvest(u) : u \in trains} /\ WellMade(examples')
  /\ pc' = "harvested"
  /\ UNCHANGED <<evalvars, trains, evals, output, rollouts, written, appends>>

Unreconciled ==
  /\ pc = "records" /\ \E u \in trains : ~Harvestable(u)
  /\ pc' = "idle" /\ trains' = {} /\ evals' = {}
  /\ UNCHANGED <<evalvars, examples, output, rollouts, written, appends>>

\* The temporary file is written, read back and verified, and replaces the old.
PublishDataset ==
  /\ pc = "harvested" /\ pc' = "published"
  /\ dataset' = examples /\ everTrained' = everTrained \cup Uids(examples)
  /\ UNCHANGED <<evalvars, trains, evals, examples, manifest, rollouts, written, appends>>

WriteManifest ==
  /\ pc = "published" /\ pc' = "idle"
  /\ manifest' = dataset /\ trains' = {} /\ evals' = {} /\ examples' = {}
  /\ UNCHANGED <<evalvars, dataset, everTrained, rollouts, written, appends>>

Kill ==
  /\ pc # "idle" /\ kills < MaxKills /\ kills' = kills + 1
  /\ pc' = "idle" /\ trains' = {} /\ evals' = {} /\ examples' = {}
  /\ UNCHANGED <<landed, making, evalset, trainuids, todo, input, store, greedy, report>>
  /\ UNCHANGED <<output, rollouts, written, appends>>

Next ==
  \/ EvalNext /\ UNCHANGED <<build, output, rollouts, written, appends>>
  \/ UseRuled
  \/ \E f \in Files : \E u \in Uid : \E i \in 1..K : \E v \in Verdicts : Append1(f, u, i, v)
  \/ ReadTrainUids \/ ReadEvalSet \/ Refused \/ HarvestTraces \/ Unreconciled
  \/ PublishDataset \/ WriteManifest \/ Kill

Spec == Init /\ [][Next]_vars
-----------------------------------------------------------------------------
\* Nothing held out is trained on, whichever split the harness pins, however its
\* two files are cut and rebuilt: no example is of an eval paper, and no record of
\* any data set that was ever published stands in the eval set or was counted by
\* the last report.
HeldOut ==
  /\ \A e \in dataset : PaperOf[e.uid] \notin EvalPapers
  /\ everTrained \cap Uids(evalset) = {}
  /\ everTrained \cap Uids(report) = {}

\* Every published example is a rollout that a scoring pass verified as correct,
\* each record has as many as the policy gives it, and they come from one file.
Traced ==
  /\ \A e \in dataset : <<e.file, e.uid, e.sample, "correct">> \in written
  /\ \A u \in Uids(dataset) :
       LET mine == {e \in dataset : e.uid = u}
           most == IF Policy = "cap1" THEN 1 ELSE IF Policy = "capk" THEN Cap ELSE K
       IN /\ Cardinality({e.file : e \in mine}) = 1
          /\ Cardinality(mine) = IF Score[u][1] < most THEN Score[u][1] ELSE most
=============================================================================
