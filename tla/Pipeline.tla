------------------------------ MODULE Pipeline ------------------------------
(* The three-stage pipeline: which papers were published (ground truth), a   *)
(* fleet of posers side by side, and pass@k, in either order. The process    *)
(* may be killed or, in pass@k, paused; the same command is then run again   *)
(* on the caches and output files the earlier invocations left.              *)
EXTENDS Judges

CONSTANTS
  Paper,      \* the arXiv paper of each record, or NoPaper
  NoPaper,
  Computed,   \* the records of computed provenance
  Fleet,      \* the combos of the comparison
  Target,     \* the combo of the prefer policy
  Verdicts,   \* what a poser may say of a record
  Scores,     \* the labels pass@k may give
  MaxReruns, MaxPauses

ASSUME FleetAssumption == IsFiniteSet(Fleet) /\ Target \in Fleet
ASSUME ScoresAssumption == Scores \subseteq Labels /\ Verdicts \subseteq Statuses

Papers == {Paper[r] : r \in Records} \ {NoPaper}
NoVerdicts == [r \in Records |-> None]

VARIABLES
  phase,
  setup,     \* the order of the stages, the comparison policy, pass@k on or off
  found,     \* the verdicts of this invocation on the papers
  ran,       \* the combos whose subprocess has ended
  gtcache, published, outputs, admitted, store, scored, corpus,   \* the files
  exit,
  upheld, said,    \* history: papers that won an uphold, records a combo passed
  reruns, pauses

files == <<gtcache, published, outputs, admitted, store, scored, corpus>>
counts == <<reruns, pauses>>
pipelineVars == <<phase, setup, found, ran, files, exit, upheld, said, counts>>

Setups == [order : {"classic", "solvable-first"},
           policy : Policies \cup {"prefer"}, passk : {"on", "off"}]
PassKFirst == setup.passk = "on" /\ setup.order = "solvable-first"
PassKLast == setup.passk = "on" /\ setup.order = "classic"

PipelineInit ==
  /\ phase = "ready" /\ setup \in Setups
  /\ found = [p \in Papers |-> None] /\ ran = {}
  /\ gtcache = [p \in Papers |-> None] /\ published = <<>>
  /\ outputs = [c \in Fleet |-> NoVerdicts] /\ admitted = <<>>
  /\ store = NoVerdicts /\ scored = <<>> /\ corpus = <<>> /\ exit = None
  /\ upheld = {} /\ said = {} /\ reruns = 0 /\ pauses = 0

\* A record without an arXiv id, or of computed provenance, is discarded
\* before any call; the rest share one lookup per paper.
Queued(r) == r \notin Computed /\ Paper[r] # NoPaper
Wanted == {Paper[r] : r \in {q \in Records : Queued(q)}}

FoundNothing == [p \in Papers |-> None]
FoundCached == [p \in Papers |-> IF p \in Wanted THEN gtcache[p] ELSE None]

\* The same command: the first time, after a kill, or after a paused run.
Begin ==
  /\ phase = "ready" /\ phase' = "lookup"
  /\ found' = FoundCached /\ ran' = {} /\ exit' = None
  /\ UNCHANGED <<setup, files, upheld, said, counts>>

\* The lookups end in any order; nothing is written until all have.
Lookup(p, votes) ==
  /\ phase = "lookup" /\ p \in Wanted /\ found[p] = None
  /\ found' = [found EXCEPT ![p] = PaperStatus(votes, Uphold)]
  /\ upheld' = IF Count(votes, {"published"}) >= Uphold THEN upheld \cup {p} ELSE upheld
  /\ UNCHANGED <<phase, setup, ran, files, exit, said, counts>>

\* Every verdict goes to the cache, an error and a deferral too.
PersistCache ==
  /\ phase = "lookup" /\ \A p \in Wanted : found[p] # None
  /\ phase' = "publish"
  /\ gtcache' = [p \in Papers |-> IF found[p] # None THEN found[p] ELSE gtcache[p]]
  /\ UNCHANGED <<setup, found, ran, published, outputs, admitted, store, scored, corpus, exit, upheld, said, counts>>

Published(r) == Queued(r) /\ found[Paper[r]] = "published"

Publish ==
  /\ phase = "publish"
  /\ published' = Only(Input, {r \in Records : Published(r)})
  /\ phase' = CASE published' = <<>> -> "empty"
             [] published' # <<>> /\ PassKFirst -> "passk"
             [] OTHER -> "fleet"
  /\ UNCHANGED <<setup, found, ran, gtcache, outputs, admitted, store, scored, corpus, exit, upheld, said, counts>>

SolvableOnly(seq) == Only(seq, {r \in Records : Solvable(store[r])})
FleetInput == IF PassKFirst THEN SolvableOnly(scored) ELSE published

\* The posers run side by side, each over all records, and end in any order. One
\* that dies leaves the output file of an earlier invocation where it was.
Poser(c, verdict) ==
  /\ phase = "fleet" /\ c \notin ran /\ ran' = ran \cup {c}
  /\ outputs' = [outputs EXCEPT ![c] = [r \in Records |-> IF r \in ToSet(FleetInput) THEN verdict[r] ELSE None]]
  /\ said' = said \cup {<<c, r>> : r \in {q \in ToSet(FleetInput) : verdict[q] = "well_posed"}}
  /\ UNCHANGED <<phase, setup, found, gtcache, published, admitted, store, scored, corpus, exit, upheld, counts>>

PoserDies(c) ==
  /\ phase = "fleet" /\ c \notin ran /\ ran' = ran \cup {c}
  /\ UNCHANGED <<phase, setup, found, files, exit, upheld, said, counts>>

\* A record without a row is an error of that combo, under every policy.
Status(r) == [c \in Fleet |-> IF outputs[c][r] = None THEN "error" ELSE outputs[c][r]]
GateAnswering(r) ==
  LET answers == [c \in {x \in Fleet : outputs[x][r] # None} |-> outputs[c][r]]
  IN IF setup.policy = "prefer" THEN Status(r)[Target] ELSE Combined(setup.policy, answers)
Gate(r) == IF setup.policy = "prefer" THEN Status(r)[Target] ELSE Combined(setup.policy, Status(r))

WritePassed ==
  /\ phase = "fleet" /\ ran = Fleet
  /\ admitted' = Only(FleetInput, {r \in Records : Gate(r) = "well_posed"})
  /\ phase' = IF PassKLast /\ admitted' # <<>> THEN "passk" ELSE "final"
  /\ UNCHANGED <<setup, found, ran, gtcache, published, outputs, store, scored, corpus, exit, upheld, said, counts>>

ScoreInput == IF PassKFirst THEN published ELSE admitted
Unscored == {r \in ToSet(ScoreInput) : store[r] = None}

\* pass@k commits record by record, so a later invocation only scores the rest.
Score(r, label) ==
  /\ phase = "passk" /\ r \in Unscored
  /\ store' = [store EXCEPT ![r] = label]
  /\ UNCHANGED <<phase, setup, found, ran, gtcache, published, outputs, admitted, scored, corpus, exit, upheld, said, counts>>

Emitted == Only(ScoreInput, {r \in Records : store[r] # None})
AfterPassK == IF PassKFirst /\ SolvableOnly(Emitted) # <<>> THEN "fleet" ELSE "final"

Emit ==
  /\ phase = "passk" /\ Unscored = {}
  /\ scored' = Emitted /\ phase' = AfterPassK
  /\ UNCHANGED <<setup, found, ran, gtcache, published, outputs, admitted, store, corpus, exit, upheld, said, counts>>

\* A Ctrl-C in pass@k: it emits what it has and says so in its outcome and its
\* manifest; the pipeline looks at neither and goes on with the partial file.
Pause ==
  /\ phase = "passk" /\ Unscored # {} /\ pauses < MaxPauses /\ pauses' = pauses + 1
  /\ scored' = Emitted /\ phase' = AfterPassK
  /\ UNCHANGED <<setup, found, ran, gtcache, published, outputs, admitted, store, corpus, exit, upheld, said, reruns>>

FinalSource ==
  CASE phase = "empty" -> <<>>
    [] phase = "final" /\ PassKFirst -> IF SolvableOnly(scored) = <<>> THEN <<>> ELSE admitted
    [] phase = "final" /\ PassKLast -> IF admitted = <<>> THEN <<>> ELSE scored
    [] OTHER -> admitted

Finalise ==
  /\ phase \in {"empty", "final"}
  /\ corpus' = FinalSource /\ phase' = "done" /\ exit' = "ok"
  /\ UNCHANGED <<setup, found, ran, gtcache, published, outputs, admitted, store, scored, upheld, said, counts>>

\* A kill while the cache is rewritten empties it.
Interrupt ==
  /\ phase \notin {"ready", "done"} /\ reruns < MaxReruns /\ reruns' = reruns + 1 /\ phase' = "ready"
  /\ \/ gtcache' = gtcache
     \/ phase = "lookup" /\ (\A p \in Wanted : found[p] # None) /\ gtcache' = FoundNothing
  /\ UNCHANGED <<setup, found, ran, published, outputs, admitted, store, scored, corpus, exit, upheld, said, pauses>>

Resume ==
  /\ phase = "done" /\ pauses + reruns > 0 /\ reruns < MaxReruns /\ reruns' = reruns + 1 /\ phase' = "ready"
  /\ UNCHANGED <<setup, found, ran, files, exit, upheld, said, pauses>>

PipelineNext ==
  \/ Begin
  \/ \E p \in Papers : \E votes \in [1..Samples -> PaperVotes] : Lookup(p, votes)
  \/ PersistCache \/ Publish
  \/ \E c \in Fleet : \E verdict \in [Records -> Verdicts] : Poser(c, verdict)
  \/ \E c \in Fleet : PoserDies(c)
  \/ WritePassed
  \/ \E r \in Records : \E label \in Scores : Score(r, label)
  \/ Emit \/ Pause \/ Finalise \/ Interrupt \/ Resume

PipelineSpec == PipelineInit /\ [][PipelineNext]_pipelineVars
-----------------------------------------------------------------------------
\* Whether the fleet, over all invocations, gave a record the passes its policy asks for.
Backed(r) ==
  LET passes == {c \in Fleet : <<c, r>> \in said}
  IN CASE setup.policy = "intersect" -> passes = Fleet
       [] setup.policy = "union" -> passes # {}
       [] setup.policy = "majority" -> Cardinality(passes) * 2 > Cardinality(Fleet)
       [] setup.policy = "prefer" -> Target \in passes

\* Every record of the final corpus earned its place: its paper won an uphold,
\* the fleet's policy admitted it, and pass@k labelled it (a label worth solving,
\* when solvability is tested first), whichever invocation wrote which file.
FinalEarned ==
  /\ corpus = Only(Input, ToSet(corpus))
  /\ \A r \in ToSet(corpus) :
       /\ Paper[r] \in upheld /\ Backed(r)
       /\ setup.passk = "on" => store[r] # None
       /\ PassKFirst => Solvable(store[r])

\* A paper's verdict is looked up once: no later invocation replaces the cached
\* one, so records of one paper never part. (A kill may lose it.)
VerdictStands ==
  [][\A p \in Papers : gtcache[p] # None => gtcache'[p] \in {gtcache[p], None}]_pipelineVars

\* Why the final corpus is earned: every file, of whichever invocation, holds
\* records in input order that have passed the stages before it, and no later step
\* takes back an uphold, a pass of a poser or a label.
InOrder(seq) == seq = Only(Input, ToSet(seq))
Won(r) == Queued(r) /\ Paper[r] \in upheld
Scored(r) == store[r] # None
Worthwhile(r) == PassKFirst => Scored(r) /\ Solvable(store[r])
PipelineShapes ==
  /\ phase \in {"ready", "lookup", "publish", "empty", "fleet", "passk", "final", "done"}
  /\ setup \in Setups
  /\ found = [p \in Papers |-> found[p]] /\ gtcache = [p \in Papers |-> gtcache[p]]
  /\ outputs = [c \in Fleet |-> outputs[c]] /\ \A c \in Fleet : outputs[c] = [r \in Records |-> outputs[c][r]]
  /\ store = [r \in Records |-> store[r]]
PapersWon == \A p \in Papers : "published" \in {found[p], gtcache[p]} => p \in upheld
PassesSaid == \A c \in Fleet : \A r \in Records : outputs[c][r] = "well_posed" => <<c, r>> \in said
PublishedEarned == InOrder(published) /\ \A r \in ToSet(published) : Won(r)
PassedEarned == InOrder(admitted) /\ \A r \in ToSet(admitted) : Won(r) /\ Backed(r) /\ Worthwhile(r)
ScoredEarned ==
  InOrder(scored) /\ \A r \in ToSet(scored) : Won(r) /\ Scored(r) /\ (PassKLast => Backed(r))
Earned ==
  PapersWon /\ PassesSaid /\ PublishedEarned /\ PassedEarned /\ ScoredEarned /\ FinalEarned
\* Why a verdict stands: while the lookups run, what they have holds what is cached.
Looked ==
  phase = "lookup" =>
    /\ \A p \in Wanted : gtcache[p] # None => found[p] = gtcache[p]
    /\ \A p \in Papers \ Wanted : found[p] = None
PipelineInv == PipelineShapes /\ Earned /\ Looked
=============================================================================
