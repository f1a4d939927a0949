------------------------------- MODULE Cascade -------------------------------
(* The well-posedness cascade: each stage runs one poser as a subprocess on  *)
(* the survivors of the stage before, retries the records that came back as  *)
(* errors, and merges the attempts. The process may die, and so may the      *)
(* poser; what they wrote stays in the output directory for the next run.    *)
EXTENDS Judges

CONSTANTS
  Class,       \* what the code tier sees of each record
  Stages,      \* the stage list: [build, advisory]
  Retries,     \* --max-retries
  Tier, Policy,\* the judge tier and the extracted-judge policy
  Answers,     \* the replies a judge may give
  MaxKills, MaxCrashes

ASSUME StagesAssumption ==
  Stages \in Seq([build : {"codex", "claude"}, advisory : {"yes", "no"}]) /\ Stages # <<>>
ASSUME RetriesAssumption == Retries \in Nat
ASSUME ClassAssumption == Class \in [Records -> Classes] /\ Answers \subseteq Replies

Places == (1..Len(Stages)) \X (0..Retries)
NoReply == [verdict |-> "none", ic |-> "no"]
NoRows == [r \in Records |-> None]
NoReplies == [r \in Records |-> [i \in 1..Samples |-> NoReply]]

VARIABLES
  pc,
  m,        \* the memory of the cascade and of the poser it runs
  cache,    \* the judge cache in each attempt's directory
  torn,     \* the caches that end in a line a death cut
  raw,      \* the poser's output file in each attempt's directory
  norm,     \* the merged verdicts of each stage
  passed,   \* passed_records.jsonl of each stage
  flagged,  \* flagged_for_review.jsonl of each advisory stage
  final,    \* final_corpus.jsonl
  backed,   \* history: the opinions a stage formed
  bill,     \* history: how many replies to keep the Claude poser paid for
  cuts,     \* history: deaths that fell between such a payment and its append
  kills, crashes

disk == <<cache, torn, raw, norm, passed, flagged, final>>
history == <<backed, bill, cuts>>
vars == <<pc, m, disk, history, kills, crashes>>

Here == <<m.stage, m.attempt>>
Build == Stages[m.stage].build
Advisory == Stages[m.stage].advisory = "yes"
Record == Head(m.todo)
AsErrored(rows, seq) == Only(seq, {r \in Records : rows[r] = "error"})

Stage(s, records) ==
  [stage |-> s, attempt |-> 0, input |-> records, pending |-> records, all |-> NoRows,
   todo |-> <<>>, sample |-> <<>>, rows |-> NoRows, mem |-> NoReplies]

Init ==
  /\ pc = "ready" /\ m = Stage(1, Input)
  /\ cache = [p \in Places |-> NoReplies] /\ torn = {} /\ raw = [p \in Places |-> NoRows]
  /\ norm = [s \in 1..Len(Stages) |-> NoRows]
  /\ passed = [s \in 1..Len(Stages) |-> <<>>] /\ flagged = [s \in 1..Len(Stages) |-> {}]
  /\ final = <<>> /\ backed = {} /\ bill = 0 /\ cuts = 0
  /\ kills = 0 /\ crashes = 0

Start ==
  /\ pc = "ready" /\ pc' = "attempt" /\ m' = Stage(1, Input)
  /\ UNCHANGED <<disk, history, kills, crashes>>

\* The poser starts on the pending records with the cache of its directory. The
\* codex loader does not survive a half-written line: the process exits with 1.
\* The Claude loader skips it.
Launch ==
  /\ pc = "attempt" /\ m.pending # <<>>
  /\ m' = [m EXCEPT !.todo = m.pending, !.rows = NoRows, !.sample = <<>>, !.mem = cache[Here]]
  /\ pc' = IF Build = "codex" /\ Here \in torn THEN "collect" ELSE "score"
  /\ UNCHANGED <<disk, history, kills, crashes>>

NothingPending ==
  /\ pc = "attempt" /\ m.pending = <<>> /\ pc' = "settle"
  /\ UNCHANGED <<m, disk, history, kills, crashes>>

Row(status) == [m EXCEPT !.rows[Record] = status, !.todo = Tail(m.todo), !.sample = <<>>]

Scoring == pc = "score" /\ m.todo # <<>>
ByCode == CodeStatus(Build, Class[Record], Tier, Policy)

Settled ==
  /\ Scoring /\ ByCode # "judge"
  /\ m' = Row(ByCode)
  /\ backed' = IF ByCode = "error" THEN backed ELSE backed \cup {<<m.stage, Record>>}
  /\ UNCHANGED <<pc, disk, bill, cuts, kills, crashes>>

Asking == Scoring /\ ByCode = "judge" /\ Len(m.sample) < Samples
Next1 == Len(m.sample) + 1

Served ==
  /\ Asking /\ m.mem[Record][Next1] # NoReply
  /\ m' = [m EXCEPT !.sample = Append(m.sample, m.mem[Record][Next1])]
  /\ UNCHANGED <<pc, disk, history, kills, crashes>>

\* Codex remembers every reply and writes its cache at the end; Claude asks again
\* before an error stands, and appends every other reply once it is there.
Kept(reply) == Build = "codex" \/ reply.verdict # "error"
Appends(reply) == Build = "claude" /\ Kept(reply)

Call(reply) ==
  /\ Asking /\ m.mem[Record][Next1] = NoReply
  /\ m' = [m EXCEPT !.sample = Append(m.sample, reply),
                    !.mem[Record][Next1] = IF Kept(reply) THEN reply ELSE NoReply]
  /\ pc' = IF Appends(reply) THEN "append" ELSE pc
  /\ bill' = IF Appends(reply) THEN bill + 1 ELSE bill
  /\ UNCHANGED <<disk, backed, cuts, kills, crashes>>

\* Slip: the reply stays in memory, as with the other poser.
StoredNever == cache

\* What is appended to a cut line becomes part of it, and neither is ever read.
Stored ==
  IF Here \in torn THEN cache
  ELSE [cache EXCEPT ![Here][Record][Len(m.sample)] = m.sample[Len(m.sample)]]

Store ==
  /\ pc = "append" /\ pc' = "score"
  /\ cache' = Stored /\ torn' = torn \ {Here}
  /\ UNCHANGED <<m, raw, norm, passed, flagged, final, history, kills, crashes>>

Conclude ==
  /\ Scoring /\ ByCode = "judge" /\ Len(m.sample) = Samples
  /\ m' = Row(Verdict(Build, m.sample, Uphold))
  /\ backed' = IF Opined(Build, m.sample, Uphold) THEN backed \cup {<<m.stage, Record>>} ELSE backed
  /\ UNCHANGED <<pc, disk, bill, cuts, kills, crashes>>

InHand == IF pc = "append" THEN 1 ELSE 0

\* Who dies while a file is written may leave it cut: an output file that does
\* not parse counts as one that is missing, a cache ends in a cut line.
Dying ==
  /\ \/ UNCHANGED <<raw, torn>>
     \/ pc = "score" /\ m.todo = <<>> /\ raw' = [raw EXCEPT ![Here] = NoRows] /\ torn' = torn
     \/ pc \in {"append", "save"} /\ torn' = torn \cup {Here} /\ raw' = raw
  /\ cuts' = cuts + InHand
  /\ UNCHANGED <<cache, norm, passed, flagged, final, backed, bill>>

\* A failed request ends the codex poser, a missing binary, a full disk or a crash
\* either one: what it did not write is missing, and nobody reads the exit code.
Crash ==
  /\ pc \in {"score", "append", "save"} /\ crashes < MaxCrashes /\ crashes' = crashes + 1
  /\ pc' = "collect" /\ Dying
  /\ UNCHANGED <<m, kills>>

WriteOut ==
  /\ pc = "score" /\ m.todo = <<>>
  /\ raw' = [raw EXCEPT ![Here] = m.rows]
  /\ pc' = IF Build = "codex" THEN "save" ELSE "collect"
  /\ UNCHANGED <<m, cache, torn, norm, passed, flagged, final, history, kills, crashes>>

SaveCache ==
  /\ pc = "save" /\ pc' = "collect"
  /\ cache' = [cache EXCEPT ![Here] = m.mem]
  /\ UNCHANGED <<m, torn, raw, norm, passed, flagged, final, history, kills, crashes>>

\* The adapter reads whatever output file is there, adds an error for every
\* pending record without a row, and every row overwrites the verdict so far.
Normalised ==
  [r \in Records |-> IF raw[Here][r] # None THEN raw[Here][r]
                     ELSE IF r \in ToSet(m.pending) THEN "error" ELSE None]
Merged == [r \in Records |-> IF Normalised[r] # None THEN Normalised[r] ELSE m.all[r]]
Errored == AsErrored(Normalised, m.pending)
AnyError == \E r \in Records : Normalised[r] = "error"

Again == AnyError /\ m.attempt < Retries
CollectedInPlace(a, pending) == [m EXCEPT !.all = Merged, !.pending = pending, !.todo = <<>>, !.mem = NoReplies]
Collected(a, pending) ==
  [m EXCEPT !.all = Merged, !.attempt = a, !.pending = pending,
            !.todo = <<>>, !.sample = <<>>, !.rows = NoRows, !.mem = NoReplies]

Collect ==
  /\ pc = "collect"
  /\ IF Again
     THEN pc' = "attempt" /\ m' = Collected(m.attempt + 1, Errored)
     ELSE pc' = "settle" /\ m' = Collected(m.attempt, m.pending)
  /\ UNCHANGED <<disk, history, kills, crashes>>

\* The merge: an advisory stage passes on whatever is no error, the others only
\* what is well posed.
Latest(r) == IF m.all[r] = None THEN "error" ELSE m.all[r]
SurvivesAdvice(r) == Advisory \/ Latest(r) = "well_posed"
Survives(r) == IF Advisory THEN Latest(r) # "error" ELSE Latest(r) = "well_posed"

Settle ==
  /\ pc = "settle"
  /\ norm' = [norm EXCEPT ![m.stage] = [r \in Records |-> IF r \in ToSet(m.input) THEN Latest(r) ELSE None]]
  /\ passed' = [passed EXCEPT ![m.stage] = Only(m.input, {r \in Records : Survives(r)})]
  /\ flagged' = [flagged EXCEPT ![m.stage] =
                   IF Advisory THEN {r \in ToSet(m.input) : Latest(r) # "well_posed"} ELSE {}]
  /\ IF m.stage < Len(Stages)
     THEN pc' = "attempt" /\ m' = Stage(m.stage + 1, passed'[m.stage])
     ELSE pc' = "corpus" /\ m' = m
  /\ UNCHANGED <<cache, torn, raw, final, history, kills, crashes>>

WriteCorpus ==
  /\ pc = "corpus" /\ pc' = "manifest" /\ final' = passed[Len(Stages)]
  /\ UNCHANGED <<m, cache, torn, raw, norm, passed, flagged, history, kills, crashes>>

WriteManifest ==
  /\ pc = "manifest" /\ pc' = "done"
  /\ UNCHANGED <<m, disk, history, kills, crashes>>

Kill ==
  /\ pc \notin {"ready", "done"} /\ kills < MaxKills /\ kills' = kills + 1
  /\ pc' = "ready" /\ m' = Stage(1, Input) /\ Dying
  /\ UNCHANGED crashes

Step ==
  \/ Start \/ Launch \/ NothingPending \/ Settled \/ Served \/ Conclude \/ WriteOut
  \/ Store \/ SaveCache \/ Collect \/ Settle \/ WriteCorpus \/ WriteManifest
  \/ \E reply \in Answers : Call(reply)
Next == Step \/ Crash \/ Kill

Spec == Init /\ [][Next]_vars
FairSpec == Spec /\ WF_vars(Step)
-----------------------------------------------------------------------------
\* The gate fails closed: whatever the posers did, however often they and the
\* cascade died, a record reaches the final corpus only when every stage, the
\* advisory ones included, once formed an opinion of it.
FailClosed == \A r \in ToSet(final) : \A s \in 1..Len(Stages) : <<s, r>> \in backed

\* What the Claude poser has paid for stands in the cache of its attempt, where
\* the next invocation finds it, except for the reply it is about to append and
\* for what deaths cost: one between a payment and the end of its append costs at
\* most that reply and the one later appended to its cut line, and a death at any
\* other point costs none. So at most two replies per such death are ever paid
\* for again, over all invocations.
Readable ==
  {x \in Places \X Records \X (1..Samples) :
     Stages[x[1][1]].build = "claude" /\ cache[x[1]][x[2]][x[3]] # NoReply}
RepliesKept == bill <= Cardinality(Readable) + InHand + 2 * cuts

\* The cascade comes to its end: the retries are bounded, and every error, crash
\* and half-written file leads on.
Finishes == <>(pc = "done")

\* Why it fails closed: a status other than an error stands behind an opinion
\* wherever it is, in memory or in a file of whichever invocation. Why the replies
\* are kept: the Claude poser remembers all that its cache can be read for, so it
\* never pays for one of those; and a cache with a cut line has still to lose the
\* second of the two replies its cut is charged with.
Replied == Replies \cup {NoReply}
Memories == [Records -> [1..Samples -> Replied]]
Rows == [Records -> Statuses \cup {None}]
Working ==
  [stage : 1..Len(Stages), attempt : 0..Retries, input : Seq(Records),
   pending : Seq(Records), all : Rows, todo : Seq(Records),
   sample : Seq(Replied), rows : Rows, mem : Memories]
Shapes ==
  /\ m \in Working /\ cache \in [Places -> Memories] /\ raw \in [Places -> Rows]
  /\ passed \in [1..Len(Stages) -> Seq(Records)]
Judged(status) == status \notin {None, "error"}
AllBacked ==
  /\ \A p \in Places : \A r \in Records : Judged(raw[p][r]) => <<p[1], r>> \in backed
  /\ \A r \in Records : Judged(m.rows[r]) \/ Judged(m.all[r]) => <<m.stage, r>> \in backed
  /\ \A r \in ToSet(m.input) : \A s \in 1..(m.stage - 1) : <<s, r>> \in backed
  /\ \A s \in 1..Len(Stages) : \A r \in ToSet(passed[s]) : \A t \in 1..s : <<t, r>> \in backed
  /\ FailClosed
Unfinished == {p \in torn : Stages[p[1]].build = "claude"}
Remembered ==
  pc \in {"score", "append"} /\ Build = "claude" =>
    \A r \in Records, i \in 1..Samples : cache[Here][r][i] # NoReply => m.mem[r][i] # NoReply
Paid ==
  pc = "append" =>
    /\ Build = "claude" /\ m.todo # <<>> /\ Len(m.sample) \in 1..Samples
    /\ m.sample[Len(m.sample)] # NoReply /\ m.mem[Record][Len(m.sample)] # NoReply
    /\ cache[Here][Record][Len(m.sample)] = NoReply
Account ==
  /\ bill \in Nat /\ cuts \in Nat /\ IsFiniteSet(Readable) /\ IsFiniteSet(Unfinished)
  /\ bill + Cardinality(Unfinished) <= Cardinality(Readable) + InHand + 2 * cuts
AllKept ==
  /\ torn \subseteq Places /\ Remembered /\ Paid /\ Account
  /\ pc = "save" => Build = "codex"
IndInv == Shapes /\ AllBacked /\ AllKept
=============================================================================
