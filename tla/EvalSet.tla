------------------------------ MODULE EvalSet ------------------------------
(* The evaluation harness: the held-out set built from the pass@k outputs of *)
(* the tiers that have landed, greedy pass@1 runs of the base and the tuned  *)
(* model over it, and the paired report. A pass@k directory keeps what it    *)
(* scored, so an interrupted run goes on where it stopped.                   *)
EXTENDS Naturals, Sequences, FiniteSets

CONSTANTS
  Uid, Papers,
  NoPaper,       \* of a row without an arXiv id
  K,             \* rollouts per record in the tiers
  TierRows,      \* the tiers in the order they are passed: Seq of Seq of
                 \*   [uid, paper, label, right]
  HeldPapers,    \* eval_papers of the split the harness pins
  Blank,         \* uids without a statement or an answer
  Unscorable,    \* uids whose truth pass@k cannot verify
  Base, Tuned,   \* the base model; the tuned candidates
  Solves,        \* [model -> uids it solves greedily]
  Endpoint,      \* [model -> server]
  AllowCross,    \* --allow-cross-endpoint: "yes" or "no"
  MaxKills

Roles == {"base", "tuned"}

ASSUME TiersAssumption ==
  TierRows \in Seq(Seq([uid : Uid, paper : Papers \cup {NoPaper},
                        label : {"band", "solved", "collapse"}, right : 0..K]))
ASSUME PapersAssumption == HeldPapers \subseteq Papers /\ NoPaper \notin Papers
ASSUME ModelsAssumption == DOMAIN Solves = {Base} \cup Tuned /\ DOMAIN Endpoint = DOMAIN Solves

VARIABLES
  landed,     \* how many tiers have landed
  making,     \* tiers the running set build has read, 0 when none runs
  evalset,    \* eval_set.jsonl: {[uid, slice]}
  trainuids,  \* train_uids.txt
  todo,       \* the running evaluation: Seq of [role, model]
  input,      \* the uids its current subprocess was given
  store,      \* [role -> finished records of its directory: [uid, model, right]]
  greedy,     \* baseline_greedy.jsonl and post_greedy.jsonl
  report,     \* the pairs of the last report: {[uid, slice, base, tuned]}
  kills

evalvars == <<landed, making, evalset, trainuids, todo, input, store, greedy, report, kills>>

EvalInit ==
  /\ landed = 0 /\ making = 0 /\ evalset = {} /\ trainuids = {}
  /\ todo = <<>> /\ input = {} /\ store = [r \in Roles |-> {}]
  /\ greedy = [r \in Roles |-> {}] /\ report = {} /\ kills = 0

Land ==
  /\ landed < Len(TierRows) /\ landed' = landed + 1
  /\ UNCHANGED <<making, evalset, trainuids, todo, input, store, greedy, report, kills>>
-----------------------------------------------------------------------------
(* build_eval_set. *)

\* The rows are read tier by tier, and in a tier from the first to the last.
Places(n) == UNION {{t} \X DOMAIN TierRows[t] : t \in 1..n}
RowAt(x) == TierRows[x[1]][x[2]]
Before(x, y) == x[1] < y[1] \/ (x[1] = y[1] /\ x[2] < y[2])

LastRows(n) ==
  LET read == Places(n)
  IN {RowAt(x) : x \in {y \in read : \A z \in read : Before(y, z) => RowAt(z).uid # RowAt(y).uid}}

\* A uid seen again, in the same tier or a later one, is skipped with a warning.
\* (A function, so that TLC evaluates it once.)
FirstsOf ==
  [n \in 0..Len(TierRows) |->
     {RowAt(x) : x \in {y \in Places(n) : \A z \in Places(n) :
                          Before(z, y) => RowAt(z).uid # RowAt(y).uid}}]
FirstRows(n) == FirstsOf[n]

IsEvalPaper(row) == row.paper \in HeldPapers

\* The anchors are stricter than their labels: every rollout right, or none.
IsPerfectSolve(row) == row.label = "solved" /\ row.right = K
IsTotalCollapse(row) == row.label = "collapse" /\ row.right = 0
Slice(row) ==
  CASE row.label = "band" -> "eval_band"
    [] IsPerfectSolve(row) -> "anchor_solved"
    [] IsTotalCollapse(row) -> "anchor_fail"
    [] OTHER -> "none"

EvalRows(n) ==
  {[uid |-> row.uid, slice |-> Slice(row)] :
     row \in {r \in FirstRows(n) : IsEvalPaper(r) /\ Slice(r) # "none"}}
TrainUids(n) ==
  {row.uid : row \in {r \in FirstRows(n) : ~IsEvalPaper(r) /\ r.label = "band"}}

HasStatementAndAnswer(n) == \A row \in EvalRows(n) : row.uid \notin Blank
NoneLeaks(n) ==
  LET train == TrainUids(n)
  IN \A row \in FirstRows(n) : row.uid \in train => ~IsEvalPaper(row)

WriteEvalSet ==
  /\ making = 0 /\ landed > 0 /\ HasStatementAndAnswer(landed) /\ NoneLeaks(landed)
  /\ evalset' = EvalRows(landed) /\ making' = landed
  /\ UNCHANGED <<landed, trainuids, todo, input, store, greedy, report, kills>>

WriteTrainUids ==
  /\ making > 0
  /\ trainuids' = TrainUids(making) /\ making' = 0
  /\ UNCHANGED <<landed, evalset, todo, input, store, greedy, report, kills>>

\* Both files are rewritten in place, so a kill leaves a part of the one being
\* written beside the old state of the other.
CutSetBuild ==
  /\ making > 0 /\ making' = 0
  /\ kills < MaxKills /\ kills' = kills + 1
  /\ \/ \E part \in SUBSET evalset : evalset' = part /\ trainuids' = trainuids
     \/ \E part \in SUBSET TrainUids(making) : trainuids' = part /\ evalset' = evalset
  /\ UNCHANGED <<landed, todo, input, store, greedy, report>>
-----------------------------------------------------------------------------
(* run_eval and report. *)

\* The models of one invocation; two on different endpoints are refused.
Invocations ==
  {<<[role |-> "base", model |-> Base]>>}
    \cup {<<[role |-> "tuned", model |-> t]>> : t \in Tuned}
    \cup {<<[role |-> "base", model |-> Base], [role |-> "tuned", model |-> t]>> :
            t \in {x \in Tuned : AllowCross = "yes" \/ Endpoint[x] = Endpoint[Base]}}

Uids(rows) == {row.uid : row \in rows}

StartEval(specs) ==
  /\ todo = <<>> /\ evalset # {}
  /\ todo' = specs /\ input' = Uids(evalset)
  /\ UNCHANGED <<landed, making, evalset, trainuids, store, greedy, report, kills>>

\* icepick pass@k for the first spec. A uid with a finished record is not scored
\* again, whichever model finished it.
Unfinished == (input \ Unscorable) \ Uids(store[Head(todo).role])

ScoreOne(u) ==
  /\ todo # <<>> /\ u \in Unfinished
  /\ store' = [store EXCEPT ![Head(todo).role] =
       @ \cup {[uid |-> u, model |-> Head(todo).model,
                right |-> IF u \in Solves[Head(todo).model] THEN 1 ELSE 0]}]
  /\ UNCHANGED <<landed, making, evalset, trainuids, todo, input, greedy, report, kills>>

\* The subprocess ends well and its output is copied; the next one reads the
\* eval set as it is by then.
CopyGreedy ==
  /\ todo # <<>> /\ Unfinished = {}
  /\ greedy' = [greedy EXCEPT ![Head(todo).role] =
       {row \in store[Head(todo).role] : row.uid \in input}]
  /\ todo' = Tail(todo) /\ input' = IF Len(todo) > 1 THEN Uids(evalset) ELSE {}
  /\ UNCHANGED <<landed, making, evalset, trainuids, store, report, kills>>

\* A subprocess that pauses or fails exits nonzero: run_eval stops there.
StopEval ==
  /\ todo # <<>> /\ todo' = <<>> /\ input' = {}
  /\ kills < MaxKills /\ kills' = kills + 1
  /\ UNCHANGED <<landed, making, evalset, trainuids, store, greedy, report>>

RightOf(rows, u) == (CHOOSE row \in rows : row.uid = u).right

PairedTable ==
  {[uid |-> e.uid, slice |-> e.slice,
    base |-> RightOf(greedy["base"], e.uid), tuned |-> RightOf(greedy["tuned"], e.uid)] :
     e \in {x \in evalset : x.uid \in Uids(greedy["base"]) \cap Uids(greedy["tuned"])}}

Report ==
  /\ greedy["base"] # {} /\ greedy["tuned"] # {}
  /\ \E e \in evalset : e.slice = "eval_band"
  /\ report' = PairedTable
  /\ UNCHANGED <<landed, making, evalset, trainuids, todo, input, store, greedy, kills>>

EvalNext ==
  \/ Land \/ WriteEvalSet \/ WriteTrainUids \/ CutSetBuild
  \/ \E specs \in Invocations : StartEval(specs)
  \/ \E u \in Uid : ScoreOne(u)
  \/ CopyGreedy \/ StopEval \/ Report
=============================================================================
