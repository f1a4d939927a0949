------------------------------- MODULE PassK -------------------------------
(***************************************************************************)
(* pass@k of one batch: run() of pass_at_k/runner.py with its thread pool, *)
(* the checkpoint under _progress/, the output and the manifest, started   *)
(* again after every kill, pause and failure as run_passk does.            *)
(*                                                                         *)
(* A record is a number, its place in the input.  An action is one append  *)
(* under the checkpoint's lock, one paid call, or one write of the main    *)
(* thread, with the memory-only work before it.  The verdicts are reduced  *)
(* to right and not right.  Files that nothing reads (the audit trail      *)
(* rollouts.jsonl, the copy of the input) are left out.                    *)
(***************************************************************************)
EXTENDS Integers, Sequences, FiniteSets

CONSTANTS
    Record,         \* positions in the input
    Question,
    QuestionOf,     \* statement of each record: two records may share one
    PreLabeled,     \* records that come with a pass_at_k
    Unscorable,     \* records the pre-filters drop: bad or unverifiable truth
    K,              \* rollouts of a record
    MaxConcurrent,
    None,
    MaxTroubles     \* bound: kills, Ctrl-Cs, failed calls and failed writes

ASSUME PassKAssumption ==
    /\ Record \subseteq Nat /\ IsFiniteSet(Record)
    /\ QuestionOf \in [Record -> Question]
    /\ PreLabeled \subseteq Record /\ Unscorable \subseteq Record
    /\ K \in Nat \ {0} /\ MaxConcurrent \in Nat \ {0}
    /\ MaxTroubles \in Nat

Sample == 0..(K - 1)
Key    == Question \X Sample  \* rollout_key; model and settings never change here
Answer == {"right", "empty"}  \* "empty": any answer that is not right, "" too

Row == [kind : {"given", "dropped", "scored"}, score : 0..K, failed : 0..K]
Given   == [kind |-> "given", score |-> 0, failed |-> 0]
Dropped == [kind |-> "dropped", score |-> 0, failed |-> 0]

ASSUME NoneAssumption == None \notin Row \cup Answer

VARIABLES
    cache, cacheTorn,  \* llm_cache.jsonl: what its lines say, a torn last line
    done, doneTorn,    \* records_done.jsonl
    marker,            \* INCOMPLETE exists
    out, manifest,     \* pass_at_k.jsonl, pass_at_k_manifest.json
    memCache, memDone, \* the checkpoint's indexes
    pc, work, rows, interrupted,  \* the main thread, its futures and results
    billed,            \* history: answers the backend was paid for
    accidents,         \* history: kills, failed writes, Ctrl-Cs without a pool
    troubles

store  == <<cache, cacheTorn, done, doneTorn>>
result == <<marker, out, manifest>>
memory == <<memCache, memDone>>
main   == <<rows, interrupted>>
counts == <<accidents, troubles>>
vars   == <<store, result, memory, pc, work, main, billed, counts>>

Future == [at  : {"queued", "sample", "calling", "commit", "done", "failed", "cancelled"},
           got : Seq(Answer \cup {"error"}),
           row : Row \cup {None}]
Queued == [at |-> "queued", got |-> <<>>, row |-> None]

Init ==
    /\ cache = [k \in Key |-> None] /\ cacheTorn = FALSE
    /\ done = [r \in Record |-> None] /\ doneTorn = FALSE
    /\ marker = FALSE /\ out = [whole |-> FALSE, rows |-> {}] /\ manifest = "none"
    /\ memCache = cache /\ memDone = done
    /\ pc = "down" /\ work = [r \in Record |-> Queued] /\ rows = {} /\ interrupted = FALSE
    /\ billed = 0 /\ accidents = 0 /\ troubles = 0

Trouble(costly) ==
    /\ troubles < MaxTroubles /\ troubles' = troubles + 1
    /\ accidents' = accidents + (IF costly THEN 1 ELSE 0)

Busy(a)  == {r \in Record : work[r].at = a}
Active   == Busy("sample") \cup Busy("calling") \cup Busy("commit")
Goes(r, a) == work' = [work EXCEPT ![r].at = a]

\* Everything in memory goes with the process.
Gone ==
    /\ pc' = "down" /\ work' = [r \in Record |-> Queued]
    /\ rows' = {} /\ interrupted' = FALSE
    /\ memCache' = [k \in Key |-> None] /\ memDone' = [r \in Record |-> None]

----------------------------------------------------------------------------
(* The start of a run. *)

\* Slip: the manifest of an earlier run is not looked at.
StartAfresh == pc = "down"

\* run_passk: no run once the manifest says that one was not interrupted.
MayStart == pc = "down" /\ manifest # "done"

Start ==
    /\ MayStart
    /\ marker' = TRUE
    /\ memCache' = cache /\ memDone' = done
    /\ pc' = "run"
    /\ UNCHANGED <<store, out, manifest, work, main, billed, counts>>

----------------------------------------------------------------------------
(* _score_record in a thread of the pool. *)

\* Slip: the records of the last run are scored again.
BeginUnaware(r) ==
    IF r \in PreLabeled THEN [Queued EXCEPT !.at = "done", !.row = Given]
    ELSE IF r \in Unscorable THEN [Queued EXCEPT !.at = "commit", !.row = Dropped]
    ELSE [Queued EXCEPT !.at = "sample"]

\* A record that was labelled upstream, was committed, cannot be scored, or
\* is to be scored.
Begun(r) ==
    IF r \in PreLabeled THEN [Queued EXCEPT !.at = "done", !.row = Given]
    ELSE IF memDone[r] # None THEN [Queued EXCEPT !.at = "done", !.row = memDone[r]]
    ELSE IF r \in Unscorable THEN [Queued EXCEPT !.at = "commit", !.row = Dropped]
    ELSE [Queued EXCEPT !.at = "sample"]

ThreadFree == Cardinality(Active) < MaxConcurrent

\* The pool takes records in input order.
Begin(r) ==
    /\ pc \in {"run", "raise"}
    /\ work[r] = Queued /\ ThreadFree
    /\ \A q \in Busy("queued") : r =< q
    /\ work' = [work EXCEPT ![r] = Begun(r)]
    /\ UNCHANGED <<store, result, memory, pc, main, billed, counts>>

KeyOf(r) == <<QuestionOf[r], Len(work[r].got)>>
Times(a, got) == Cardinality({i \in DOMAIN got : got[i] = a})

\* Slip: a record is committed whatever happened to its calls.
CommitsAnyway(got) == TRUE

\* A record with a failed call is finished but not committed.
Commits(got) == Times("error", got) = 0

Tally(got) ==
    [at  |-> IF Commits(got) THEN "commit" ELSE "done",
     got |-> <<>>,
     row |-> [kind |-> "scored", score |-> Times("right", got),
              failed |-> Times("error", got)]]

\* One more sample; the K-th is followed by the tally.
Got(r, a) ==
    LET got == Append(work[r].got, a)
    IN  work' = [work EXCEPT ![r] = IF Len(got) < K
                                    THEN [at |-> "sample", got |-> got, row |-> None]
                                    ELSE Tally(got)]

\* Slip: an empty answer is taken for no answer.
CachedTruthy(k) == memCache[k] = "right"

\* cached_output: "" is a hit.
Cached(k) == memCache[k] # None

Consult(r) ==
    /\ work[r].at = "sample"
    /\ IF Cached(KeyOf(r)) THEN Got(r, memCache[KeyOf(r)]) ELSE Goes(r, "calling")
    /\ UNCHANGED <<store, result, memory, pc, main, billed, counts>>

\* An append after a torn line is glued to it, and neither is ever read.
Answered(r) ==
    /\ work[r].at = "calling"
    /\ \E a \in Answer :
         /\ cache' = IF cacheTorn THEN cache ELSE [cache EXCEPT ![KeyOf(r)] = a]
         /\ memCache' = [memCache EXCEPT ![KeyOf(r)] = a]
         /\ Got(r, a)
    /\ cacheTorn' = FALSE /\ billed' = billed + 1
    /\ UNCHANGED <<done, doneTorn, result, memDone, pc, main, counts>>

\* The backend failed max_retries + 1 times: a degenerate, unpaid rollout.
CallFailed(r) ==
    /\ work[r].at = "calling" /\ Trouble(FALSE)
    /\ Got(r, "error")
    /\ UNCHANGED <<store, result, memory, pc, main, billed>>

Commit(r) ==
    /\ work[r].at = "commit"
    /\ done' = IF doneTorn THEN done ELSE [done EXCEPT ![r] = work[r].row]
    /\ doneTorn' = FALSE
    /\ memDone' = [memDone EXCEPT ![r] = work[r].row]
    /\ Goes(r, "done")
    /\ UNCHANGED <<cache, cacheTorn, result, memCache, pc, main, billed, counts>>

\* A write fails, perhaps half way: the exception ends the record and, once
\* the main thread gets to its future, the run; the pool works on meanwhile.
WriteFails(r) ==
    /\ Trouble(TRUE)
    /\ \/ work[r].at = "calling" /\ cacheTorn' \in {cacheTorn, TRUE} /\ UNCHANGED doneTorn
       \/ work[r].at = "commit" /\ doneTorn' \in {doneTorn, TRUE} /\ UNCHANGED cacheTorn
    /\ billed' = billed + (IF work[r].at = "calling" THEN 1 ELSE 0)
    /\ IF MaxConcurrent = 1 THEN Gone
       ELSE /\ Goes(r, "failed")
            /\ pc' = IF pc = "run" THEN "raise" ELSE pc
            /\ UNCHANGED <<memory, main>>
    /\ UNCHANGED <<cache, done, result>>

----------------------------------------------------------------------------
(* The main thread. *)

\* Ctrl-C.  A pool drops what is queued and drains; without a pool the record
\* in work is dropped too.  A second Ctrl-C is raised from the drain.
Interrupt ==
    /\ pc \in {"run", "drain"} /\ Trouble(MaxConcurrent = 1)
    /\ LET dropped == Busy("queued") \cup (IF MaxConcurrent = 1 THEN Active ELSE {})
       IN  /\ work' = [r \in Record |-> IF r \in dropped
                                        THEN [Queued EXCEPT !.at = "cancelled"] ELSE work[r]]
           /\ billed' = billed + Cardinality(dropped \cap Busy("calling"))
    /\ pc' = IF pc = "run" THEN "drain" ELSE "raise"
    /\ UNCHANGED <<store, result, memory, main>>

Collect ==
    /\ rows' = {<<r, work[r].row>> : r \in Busy("done")}
    /\ pc' = "emit"
    /\ UNCHANGED <<store, out, manifest, memory, work, billed, counts>>

Finished ==
    /\ pc = "run" /\ Busy("done") = Record
    /\ marker' = FALSE /\ interrupted' = FALSE
    /\ Collect

\* Slip: the pause is forgotten.
PauseForgotten == FALSE

Pause == TRUE

\* Slip: cancelled futures are waited for.
AllReturned == Busy("done") = Record

PoolDrained == Active = {}

Drained ==
    /\ pc = "drain" /\ PoolDrained
    /\ interrupted' = Pause
    /\ Collect /\ UNCHANGED marker

Raised ==
    /\ pc = "raise" /\ Active \cup Busy("queued") = {}
    /\ Gone
    /\ UNCHANGED <<store, result, billed, counts>>

\* _emit: the output, then the manifest, each emptied and then written.
EmitOutput ==
    /\ \/ pc = "emit" /\ out' = [whole |-> FALSE, rows |-> {}] /\ pc' = "rows"
       \/ pc = "rows" /\ out' = [whole |-> TRUE, rows |-> rows] /\ pc' = "manifest"
    /\ UNCHANGED <<store, marker, manifest, memory, work, main, billed, counts>>

EmitManifest ==
    /\ \/ pc = "manifest" /\ manifest' = "torn" /\ pc' = "fields"
       \/ /\ pc = "fields"
          /\ manifest' = IF interrupted THEN "interrupted" ELSE "done"
          /\ pc' = "exit"
    /\ UNCHANGED <<store, marker, out, memory, work, main, billed, counts>>

Exit == pc = "exit" /\ Gone /\ UNCHANGED <<store, result, billed, counts>>

\* A kill may cut short the one append in progress; calls in flight are paid.
Kill ==
    /\ pc # "down" /\ Trouble(TRUE)
    /\ \/ UNCHANGED <<cacheTorn, doneTorn>>
       \/ Busy("calling") # {} /\ cacheTorn' = TRUE /\ UNCHANGED doneTorn
       \/ Busy("commit") # {} /\ doneTorn' = TRUE /\ UNCHANGED cacheTorn
    /\ billed' = billed + Cardinality(Busy("calling"))
    /\ Gone
    /\ UNCHANGED <<cache, done, result>>

----------------------------------------------------------------------------

Worker(r) == Begin(r) \/ Consult(r) \/ Answered(r) \/ CallFailed(r) \/ Commit(r)
Main == Finished \/ Drained \/ Raised \/ EmitOutput \/ EmitManifest \/ Exit

Next ==
    \/ Start \/ Main \/ Interrupt \/ Kill
    \/ \E r \in Record : Worker(r) \/ WriteFails(r)

Spec == Init /\ [][Next]_vars

----------------------------------------------------------------------------
(* Properties. *)

\* The files, the indexes and the futures keep their shapes, and no more
\* records are in work than the pool has threads.
TypeOK ==
    /\ cache \in [Key -> Answer \cup {None}] /\ memCache \in [Key -> Answer \cup {None}]
    /\ done \in [Record -> Row \cup {None}] /\ memDone \in [Record -> Row \cup {None}]
    /\ cacheTorn \in BOOLEAN /\ doneTorn \in BOOLEAN /\ marker \in BOOLEAN
    /\ out \in [whole : BOOLEAN, rows : SUBSET (Record \X Row)]
    /\ manifest \in {"none", "torn", "interrupted", "done"}
    /\ pc \in {"down", "run", "drain", "raise", "emit", "rows", "manifest", "fields", "exit"}
    /\ work \in [Record -> Future] /\ \A r \in Record : Len(work[r].got) < K
    /\ Cardinality(Active) =< MaxConcurrent
    /\ rows \subseteq Record \X Row /\ interrupted \in BOOLEAN
    /\ billed \in Nat /\ accidents \in Nat /\ troubles \in 0..MaxTroubles

Valid(f) == {k \in DOMAIN f : f[k] # None}

\* What trouble costs: over all runs, the answers paid for and not in the
\* cache file are at most the calls in flight at each kill or failed write,
\* one more for the line glued to a torn one, and one rollout each of records
\* that have their statement in common.
Scored == Record \ (PreLabeled \cup Unscorable)
AskedTwice == K * (Cardinality(Scored) - Cardinality({QuestionOf[r] : r \in Scored}))
KillCost ==
    billed - Cardinality(Valid(cache)) =< accidents * (MaxConcurrent + 1) + AskedTwice

Sole(r) == \A q \in Record \ {r} : QuestionOf[q] # QuestionOf[r]
Samples(r, a) == {i \in Sample : cache[<<QuestionOf[r], i>>] = a}
Told(r, row) ==
    /\ row.failed = 0
    /\ row.kind = "scored" /\ Sole(r) /\ Samples(r, None) = {}
       => row.score = Cardinality(Samples(r, "right"))

\* What is committed is what was paid for, through every resume: a committed
\* score has no failed call in it, and is the tally of the cached answers if
\* they are all there (two records with one statement may each have paid).
ScoreFromSamples == \A r \in Valid(done) : Told(r, done[r])

\* A resumed run serves a committed record and does not score it anew.
ScoreKept == [][\A r \in Valid(done) : done'[r] = done[r]]_vars

\* A manifest that says a run was not interrupted stands beside a whole output
\* with every record of the input, each with its committed score if it has one.
ManifestTold ==
    manifest = "done" =>
        /\ out.whole /\ ~marker
        /\ {row[1] : row \in out.rows} = Record
        /\ \A r \in Valid(done) : <<r, done[r]>> \in out.rows

\* A run never hangs, also when it is paused, or one of its records fails
\* while others are in work or wait: the main thread or the pool can go on.
NeverStuck == pc # "down" => ENABLED (Main \/ \E r \in Record : Worker(r))

\* What BatchStages takes for granted of the process it starts.
Stage == INSTANCE PaidStage WITH
    Process <- {"run"}, Final <- {"done"},
    alive <- IF pc = "down" THEN {} ELSE {"run"}, result <- manifest
IsPaidStage == Stage!Spec

=============================================================================
