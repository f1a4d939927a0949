---------------------------- MODULE BatchStages ----------------------------
(***************************************************************************)
(* The funnel stages of one committed batch: the daemon's _do_mount,       *)
(* _do_cascade, _do_passk and _do_ready, the runners of stages.py they     *)
(* call, and the icepick processes these start.                            *)
(*                                                                         *)
(* As in Batcher an action is one durable write of a process and the       *)
(* memory-only work before it.  A child process is not tied to the         *)
(* daemon: a kill of the daemon orphans it, and it goes on writing into    *)
(* the batch directory.  Waiting for a slot is a stuttering step.          *)
(***************************************************************************)
EXTENDS Integers, FiniteSets

CONSTANTS
    Run,          \* ids of mount runs: timestamps, each later than the last
    Pid,          \* process ids
    NoRun, NoPid,
    MaxAttempts,  \* with_retries: max_attempts
    MaxCrashes,   \* bound: times the daemon ends
    MaxForeign    \* bound: processes of other people that take a slot

ASSUME StagesAssumption ==
    /\ Run \subseteq Nat /\ Pid \subseteq Nat
    /\ NoRun \notin Run /\ NoPid \notin Pid
    /\ MaxAttempts \in Nat \ {0} /\ MaxCrashes \in Nat /\ MaxForeign \in Nat

Paid == {"cascade", "passk"}
Kind == {"mount"} \cup Paid

VARIABLES
    st, runDir,  \* state.json: the state, mount_run_dir
    runs,        \* intake/runs: what is in each run directory
    marker,      \* MOUNT_VERIFIED: the run it names
    corpus,      \* final_corpus.jsonl exists
    cman,        \* cascade_manifest.json, the cost it states
    pman,        \* pass_at_k_manifest.json, its interrupted field
    spend, halt, \* queue_state.json
    pc,          \* the daemon: down, idle, run (blocked in subprocess.run)...
    attempt,     \* with_retries: number of the attempt
    child, exit, \* the child waited for; how the last one ended
    kids,        \* live processes working on this batch
    foreign,     \* kinds of live processes working elsewhere
    crashes, starts,
    blame        \* history: something other than a kill of the daemon went wrong

files   == <<st, runDir, runs, marker, corpus, cman, pman, spend, halt>>
daemon  == <<pc, attempt, child, exit>>
counts  == <<crashes, starts>>
vars    == <<files, daemon, kids, foreign, counts, blame>>

NoKid == [kind |-> "none", at |-> "none", run |-> NoRun]

Init ==
    /\ st = "SLICED" /\ runDir = NoRun
    /\ runs = [r \in Run |-> "none"] /\ marker = NoRun
    /\ corpus = FALSE /\ cman = "none" /\ pman = "none"
    /\ spend = 0 /\ halt = FALSE
    /\ pc = "down" /\ attempt = 1 /\ child = NoPid /\ exit = "none"
    /\ kids = [p \in Pid |-> NoKid] /\ foreign = {}
    /\ crashes = 0 /\ starts = 0 /\ blame = FALSE

AliveOf(k) == {p \in Pid : kids[p].kind = k}
Runs == {r \in Run : runs[r] # "none"}
Lowest(S) == {x \in S : \A y \in S : x =< y}

----------------------------------------------------------------------------
(* Steps every stage shares. *)

Startup ==
    /\ pc = "down" /\ pc' = "idle"
    /\ UNCHANGED <<files, attempt, child, exit, kids, foreign, counts, blame>>

\* A tick of an armed, unhalted daemon dispatches on the batch's state.
Dispatch(s) == pc = "idle" /\ ~halt /\ st = s

\* transition(), the last write of a stage.
Transition(s) ==
    /\ st' = s /\ pc' = "idle" /\ attempt' = 1 /\ child' = NoPid /\ exit' = "none"
    /\ UNCHANGED <<runs, marker, corpus, cman, pman, spend, halt, kids, foreign,
                   counts, blame>>

Freeze == Transition("FROZEN") /\ UNCHANGED runDir

\* subprocess.run: the daemon waits for the child.
Launch(k) ==
    /\ \E p \in Lowest({free \in Pid : kids[free] = NoKid}) :
         /\ kids' = [kids EXCEPT ![p] = [kind |-> k, at |-> "start", run |-> NoRun]]
         /\ child' = p
    /\ pc' = "run" /\ exit' = "none"
    /\ UNCHANGED <<files, foreign, counts, blame>>

\* Slip: pgrep is asked about other batches only.
SlotFreeElsewhere(k) == k \notin foreign

\* cascade_slot_free, qwen_slot_free: pgrep sees our orphans too.
SlotFree(k) == k \notin foreign /\ AliveOf(k) = {}

\* Skip-if-done: the manifest parses and the run it describes is complete.
Done(k) == IF k = "cascade" THEN cman \in {"low", "high"} ELSE pman = "done"

\* Slip: the manifest of an earlier run is not looked at.
AttemptAfresh(k) == Launch(k)

\* run_cascade, run_passk up to the end of subprocess.run.
Attempt(k) ==
    \/ ~Done(k) /\ Launch(k)
    \/ /\ Done(k)
       /\ pc' = "ran" /\ exit' = "ok" /\ child' = NoPid
       /\ UNCHANGED <<files, kids, foreign, counts, blame>>

\* The slot is looked at once, before with_retries; the look and the launch
\* that follows at once are one step.
Start(k, s) ==
    /\ Dispatch(s) /\ SlotFree(k)
    /\ attempt' = 1 /\ Attempt(k)

\* Slip: a failed attempt is not counted.
BackOffUncounted(s) ==
    /\ pc = "ran" /\ st = s
    /\ exit = "transient" /\ attempt < MaxAttempts
    /\ pc' = "backoff"
    /\ UNCHANGED <<files, attempt, child, exit, kids, foreign, counts, blame>>

\* with_retries after a failure that names a transient marker.
BackOff(s) ==
    /\ pc = "ran" /\ st = s
    /\ exit = "transient" /\ attempt < MaxAttempts
    /\ attempt' = attempt + 1 /\ pc' = "backoff"
    /\ UNCHANGED <<files, child, exit, kids, foreign, counts, blame>>

Retry(k, s) == pc = "backoff" /\ st = s /\ UNCHANGED attempt /\ Attempt(k)

GiveUp(s) ==
    /\ pc = "ran" /\ st = s
    /\ exit = "permanent" \/ (exit = "transient" /\ (s = "SLICED" \/ attempt = MaxAttempts))
    /\ Freeze

Ran(s) == pc = "ran" /\ st = s /\ exit = "ok"

----------------------------------------------------------------------------
(* Mount: never retried; a run directory without marker is for a human. *)

MountResumed ==
    /\ Dispatch("SLICED") /\ marker # NoRun
    /\ runDir' = marker /\ Transition("MOUNTED")

MountDirty ==
    /\ Dispatch("SLICED") /\ marker = NoRun /\ Runs # {}
    /\ Freeze

MountStart ==
    /\ Dispatch("SLICED") /\ marker = NoRun /\ Runs = {}
    /\ UNCHANGED attempt /\ Launch("mount")

\* Slip: the row count and the uids of the handoff are not compared.
VerifiedUnread(r) == Ran("SLICED") /\ Runs = {r}

\* One run directory, whose handoff has the uids of the slice manifest.
Verified(r) == Ran("SLICED") /\ Runs = {r} /\ runs[r] = "good"

MountMarker ==
    /\ \E r \in Run : Verified(r) /\ marker' = r
    /\ pc' = "marked"
    /\ UNCHANGED <<st, runDir, runs, corpus, cman, pman, spend, halt, attempt, child,
                   exit, kids, foreign, counts, blame>>

\* The marker cannot be written; the mount counts all the same.
MountUnmarked ==
    /\ \E r \in Run : Verified(r) /\ runDir' = r
    /\ Transition("MOUNTED")

MountMarked ==
    /\ pc = "marked"
    /\ runDir' = marker /\ Transition("MOUNTED")

MountRejected ==
    /\ Ran("SLICED") /\ ~\E r \in Run : Verified(r)
    /\ Freeze

----------------------------------------------------------------------------
(* Cascade: the spend is added before the state moves on; an expensive batch *)
(* is frozen before the queue is halted.                                     *)

CascadeJudged ==
    /\ Ran("MOUNTED")
    /\ IF ~corpus \/ ~Done("cascade") THEN Freeze
       ELSE /\ IF cman = "low"
               THEN spend' = spend + 1 /\ pc' = "spent" /\ UNCHANGED st
               ELSE st' = "FROZEN" /\ pc' = "set_halt" /\ UNCHANGED spend
            /\ UNCHANGED <<runDir, runs, marker, corpus, cman, pman, halt, attempt, child,
                           exit, kids, foreign, counts, blame>>

CascadeDone == pc = "spent" /\ Transition("CASCADE_DONE") /\ UNCHANGED runDir

SetHalt ==
    /\ pc = "set_halt"
    /\ halt' = TRUE /\ pc' = "idle" /\ attempt' = 1 /\ child' = NoPid /\ exit' = "none"
    /\ UNCHANGED <<st, runDir, runs, marker, corpus, cman, pman, spend, kids, foreign,
                   counts, blame>>

----------------------------------------------------------------------------
(* pass@k and the end. *)

PassKJudged ==
    /\ Ran("CASCADE_DONE")
    /\ IF pman = "done" THEN Transition("PASSK_DONE") /\ UNCHANGED runDir ELSE Freeze

Ready == Dispatch("PASSK_DONE") /\ Transition("READY") /\ UNCHANGED runDir

----------------------------------------------------------------------------
(* The icepick processes.  Each writes its files in order and may fail, be  *)
(* killed or time out before any write; nothing is renamed into place, so a *)
(* manifest is torn while it is being written.                              *)

At(p, k, a) == kids[p].kind = k /\ kids[p].at = a
GoesTo(p, a) == kids' = [kids EXCEPT ![p].at = a]

MountMkdir(p) ==
    /\ At(p, "mount", "start")
    /\ \E r \in Lowest(Run \ Runs) :
         /\ runs' = [runs EXCEPT ![r] = "partial"]
         /\ kids' = [kids EXCEPT ![p].at = "mid", ![p].run = r]
    /\ UNCHANGED <<st, runDir, marker, corpus, cman, pman, spend, halt, daemon, foreign,
                   counts, blame>>

\* Rows the mount cannot read are skipped, and it still exits with 0.
MountRecords(p) ==
    /\ At(p, "mount", "mid")
    /\ \E h \in {"good", "bad"} :
         /\ runs' = [runs EXCEPT ![kids[p].run] = h]
         /\ blame' = (blame \/ h = "bad")
    /\ GoesTo(p, "done")
    /\ UNCHANGED <<st, runDir, marker, corpus, cman, pman, spend, halt, daemon, foreign,
                   counts>>

CascadeCorpus(p) ==
    /\ At(p, "cascade", "start")
    /\ corpus' = TRUE /\ GoesTo(p, "mid")
    /\ UNCHANGED <<st, runDir, runs, marker, cman, pman, spend, halt, daemon, foreign,
                   counts, blame>>

CascadeManifest(p) ==
    /\ \/ At(p, "cascade", "mid") /\ cman' = "torn" /\ GoesTo(p, "writing")
       \/ At(p, "cascade", "writing") /\ cman' \in {"low", "high"} /\ GoesTo(p, "done")
    /\ UNCHANGED <<st, runDir, runs, marker, corpus, pman, spend, halt, daemon, foreign,
                   counts, blame>>

PassKManifest(p) ==
    /\ \/ /\ At(p, "passk", "start")
          /\ pman' = "torn" /\ GoesTo(p, "writing")
       \/ /\ At(p, "passk", "writing")
          /\ \/ pman' = "done" /\ GoesTo(p, "done")
             \/ pman' = "interrupted" /\ GoesTo(p, "paused")
    /\ UNCHANGED <<st, runDir, runs, marker, corpus, cman, spend, halt, daemon, foreign,
                   counts, blame>>

Exit(p, code) ==
    /\ kids' = [kids EXCEPT ![p] = NoKid]
    /\ IF p = child /\ pc = "run"
       THEN pc' = "ran" /\ exit' = code /\ child' = NoPid
       ELSE UNCHANGED <<pc, exit, child>>
    /\ blame' = (blame \/ code # "ok")
    /\ UNCHANGED <<files, attempt, foreign, counts>>

KidEnds(p) == kids[p].at = "done" /\ Exit(p, "ok")

\* A paused pass@k exits with 1, and its summary holds no transient marker.
KidPaused(p) == kids[p].at = "paused" /\ Exit(p, "permanent")

KidDies(p) == kids[p] # NoKid /\ \E code \in {"transient", "permanent"} : Exit(p, code)

----------------------------------------------------------------------------
(* Kills, and other people's processes. *)

Crash ==
    /\ pc # "down" /\ crashes < MaxCrashes
    /\ pc' = "down" /\ attempt' = 1 /\ child' = NoPid /\ exit' = "none"
    /\ crashes' = crashes + 1
    /\ UNCHANGED <<files, kids, foreign, starts, blame>>

ForeignStarts ==
    /\ starts < MaxForeign /\ starts' = starts + 1
    /\ \E k \in Paid \ foreign : foreign' = foreign \cup {k}
    /\ UNCHANGED <<files, daemon, kids, crashes, blame>>

ForeignEnds ==
    /\ \E k \in foreign : foreign' = foreign \ {k}
    /\ UNCHANGED <<files, daemon, kids, counts, blame>>

----------------------------------------------------------------------------

Mount == MountResumed \/ MountDirty \/ MountStart \/ MountMarker \/ MountUnmarked
         \/ MountMarked \/ MountRejected
Cascade == Start("cascade", "MOUNTED") \/ Retry("cascade", "MOUNTED") \/ BackOff("MOUNTED")
           \/ CascadeJudged \/ CascadeDone \/ SetHalt
PassK == Start("passk", "CASCADE_DONE") \/ Retry("passk", "CASCADE_DONE")
         \/ BackOff("CASCADE_DONE") \/ PassKJudged
Daemon == Startup \/ Mount \/ Cascade \/ PassK \/ Ready
          \/ \E s \in {"SLICED", "MOUNTED", "CASCADE_DONE"} : GiveUp(s)

Works(p) == MountMkdir(p) \/ MountRecords(p) \/ CascadeCorpus(p) \/ CascadeManifest(p)
            \/ PassKManifest(p) \/ KidEnds(p) \/ KidPaused(p)
Kid(p) == Works(p) \/ KidDies(p)

Next == Daemon \/ (\E p \in Pid : Kid(p)) \/ Crash \/ ForeignStarts \/ ForeignEnds

\* A killed daemon is started again, a running one goes on ticking, and no
\* process holds a slot for ever (each has a timeout or an end).
Fairness == WF_vars(Daemon) /\ WF_vars(ForeignEnds) /\ \A p \in Pid : WF_vars(Kid(p))

Spec == Init /\ [][Next]_vars /\ Fairness

----------------------------------------------------------------------------
(* Properties. *)

\* A batch's state is never ahead of the evidence in its directory, whatever
\* was killed, orphaned, repeated or rewritten on the way: mounted means a
\* verified handoff, cascaded a complete manifest under the cost limit with
\* its corpus, pass@k done a manifest of an uninterrupted run.
Beyond(s) ==
    LET order == <<"SLICED", "MOUNTED", "CASCADE_DONE", "PASSK_DONE", "READY">>
    IN  \E i, j \in 1..5 : order[i] = s /\ order[j] = st /\ i =< j
StageEvidence ==
    /\ Beyond("MOUNTED") => runDir \in Run /\ runs[runDir] = "good"
    /\ Beyond("CASCADE_DONE") => corpus /\ cman = "low" /\ spend > 0
    /\ Beyond("PASSK_DONE") => pman = "done"

\* The cascade is never paid twice at once, nor again after a complete run,
\* although a killed daemon leaves its cascade running and comes back.
CascadeOnce == INSTANCE PaidStage WITH
    Process <- Pid, Final <- {"low", "high"}, alive <- AliveOf("cascade"), result <- cman
CascadeNotRepaid == CascadeOnce!Spec

\* The same of pass@k and the one GPU slot.
PassKOnce == INSTANCE PaidStage WITH
    Process <- Pid, Final <- {"done"}, alive <- AliveOf("passk"), result <- pman
PassKNotRepeated == PassKOnce!Spec

\* run_forever: a stage in flight at a kill "is safe to resume on restart".
\* From the verified mount on, a batch freezes only for a failure of a stage
\* process or for its cost, never because of a kill of the daemon.
KillResumes ==
    st = "FROZEN" /\ ~blame => runDir = NoRun \/ cman = "high"

\* Every batch ends: READY, or FROZEN for a human.
Finishes == <>(st \in {"READY", "FROZEN"})

\* The strengthening the proofs use: what the directory, the processes and
\* the daemon's place say of each other.
StageOf == [SLICED |-> "mount", MOUNTED |-> "cascade", CASCADE_DONE |-> "passk"]

TypeOK ==
    /\ st \in {"SLICED", "MOUNTED", "CASCADE_DONE", "PASSK_DONE", "READY", "FROZEN"}
    /\ runDir \in Run \cup {NoRun} /\ marker \in Run \cup {NoRun}
    /\ runs \in [Run -> {"none", "partial", "good", "bad"}]
    /\ corpus \in BOOLEAN /\ halt \in BOOLEAN /\ blame \in BOOLEAN /\ spend \in Nat
    /\ cman \in {"none", "torn", "low", "high"}
    /\ pman \in {"none", "torn", "interrupted", "done"}
    /\ pc \in {"down", "idle", "run", "ran", "backoff", "marked", "spent", "set_halt"}
    /\ attempt \in 1..MaxAttempts /\ child \in Pid \cup {NoPid}
    /\ exit \in {"none", "ok", "transient", "permanent"}
    /\ kids \in [Pid -> [kind : {"none"} \cup Kind, run : Run \cup {NoRun},
                         at : {"none", "start", "mid", "writing", "paused", "done"}]]
    /\ foreign \subseteq Paid /\ crashes \in Nat /\ starts \in Nat

Mounting(p) == At(p, "mount", "mid")

\* A run directory is written by one mount, and never again once it is whole.
Mounts ==
    /\ st = "SLICED" => runDir = NoRun
    /\ st \in {"MOUNTED", "CASCADE_DONE", "PASSK_DONE", "READY"}
         => runDir \in Run /\ runs[runDir] = "good"
    /\ marker # NoRun => runs[marker] = "good"
    /\ pc = "marked" => st = "SLICED" /\ marker # NoRun
    /\ \A p \in Pid : Mounting(p) => kids[p].run \in Run /\ runs[kids[p].run] = "partial"
    /\ \A p, q \in Pid : Mounting(p) /\ Mounting(q) /\ p # q => kids[p].run # kids[q].run

\* One process of a paid stage at most, and it is done when its manifest is.
Single ==
    \A k \in Paid : \A p \in Pid : kids[p].kind = k =>
        /\ \A q \in Pid : kids[q].kind = k => q = p
        /\ kids[p].at = "done" <=> Done(k)

\* The cascade writes its corpus before its manifest.
CorpusFirst ==
    /\ Done("cascade") => corpus
    /\ \A p \in Pid : kids[p].kind = "cascade" /\ kids[p].at # "start" => corpus

\* Where the daemon is, what it waits for, and what it has been told.
Waits ==
    /\ pc = "run" => /\ st \in DOMAIN StageOf
                     /\ child \in Pid /\ kids[child].kind = StageOf[st]
    /\ pc \in {"ran", "backoff"} =>
         /\ st \in DOMAIN StageOf
         /\ \A p \in Pid : StageOf[st] \in Paid => kids[p].kind # StageOf[st]
    /\ pc = "ran" /\ exit = "ok" /\ StageOf[st] \in Paid => Done(StageOf[st])
    /\ exit \in {"transient", "permanent"} => blame
    /\ pc = "spent" => st = "MOUNTED" /\ cman = "low" /\ spend > 0
    /\ pc = "set_halt" => st = "FROZEN"

Evidence ==
    /\ st \in {"CASCADE_DONE", "PASSK_DONE", "READY"} => cman = "low" /\ spend > 0
    /\ st \in {"PASSK_DONE", "READY"} => pman = "done"
    /\ KillResumes

IndInv == TypeOK /\ Mounts /\ Single /\ CorpusFirst /\ Waits /\ Evidence

=============================================================================
