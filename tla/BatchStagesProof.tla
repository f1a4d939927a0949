------------------------- MODULE BatchStagesProof -------------------------
(* Theorems about BatchStages, for every number of attempts, kills and      *)
(* processes: the state of a batch has its evidence, a kill alone freezes   *)
(* nothing that is mounted, and both paid stages are a PaidStage.           *)
EXTENDS BatchStages, TLAPS

\* A step that leaves the shape of the conjuncts' variables alone keeps them.
LEMMA SingleStays ==
    ASSUME IndInv, UNCHANGED <<kids, corpus, cman, pman>>
    PROVE  Single' /\ CorpusFirst'
BY DEF IndInv, Single, CorpusFirst, Done

\* Transition ends a stage: it keeps the invariant if the new state has its
\* evidence.
LEMMA TransitionKeeps ==
    ASSUME IndInv, NEW s, Transition(s), runDir' \in Run \cup {NoRun},
           s \in {"MOUNTED", "CASCADE_DONE", "PASSK_DONE", "READY", "FROZEN"},
           s # "FROZEN" => runDir' \in Run /\ runs[runDir'] = "good",
           s \in {"CASCADE_DONE", "PASSK_DONE", "READY"} => cman = "low" /\ spend > 0,
           s \in {"PASSK_DONE", "READY"} => pman = "done",
           s = "FROZEN" /\ ~blame => runDir' = NoRun \/ cman = "high"
    PROVE  IndInv'
<1>1. TypeOK'
  BY StagesAssumption DEF Transition, counts, IndInv, TypeOK
<1>2. Mounts'
  BY DEF Transition, IndInv, Mounts, Mounting, At
<1>3. Single' /\ CorpusFirst'
  BY SingleStays DEF Transition
<1>4. Waits'
  BY DEF Transition, Waits
<1>5. Evidence'
  BY DEF Transition, Evidence, KillResumes
<1> QED BY <1>1, <1>2, <1>3, <1>4, <1>5 DEF IndInv

\* Freezing is blameless only before the mount or for the cost.
LEMMA FreezeKeeps ==
    ASSUME IndInv, Freeze, ~blame => runDir = NoRun \/ cman = "high"
    PROVE  IndInv'
BY TransitionKeeps DEF Freeze, IndInv, TypeOK

\* The stages have names of their own.
LEMMA Names ==
    /\ DOMAIN StageOf = {"SLICED", "MOUNTED", "CASCADE_DONE"}
    /\ StageOf["SLICED"] = "mount" /\ StageOf["MOUNTED"] = "cascade"
    /\ StageOf["CASCADE_DONE"] = "passk"
BY DEF StageOf

\* What a launch does to the table of processes.
LEMMA LaunchedAt ==
    ASSUME IndInv, NEW k \in Kind, Launch(k)
    PROVE  \E p \in Pid : /\ kids[p] = NoKid /\ child' = p
                         /\ kids' = [kids EXCEPT ![p] =
                                [kind |-> k, at |-> "start", run |-> NoRun]]
BY DEF Launch, Lowest

\* The daemon starts the process of its stage, when none of the kind is alive
\* and a paid stage has no complete result.
LEMMA LaunchKeeps ==
    ASSUME IndInv, NEW k \in Kind, Launch(k), attempt' \in 1..MaxAttempts,
           st \in DOMAIN StageOf, StageOf[st] = k,
           k \in Paid => AliveOf(k) = {} /\ ~Done(k)
    PROVE  IndInv'
<1>1. PICK p \in Pid : /\ kids[p] = NoKid /\ child' = p
                      /\ kids' = [kids EXCEPT ![p] =
                             [kind |-> k, at |-> "start", run |-> NoRun]]
  BY LaunchedAt
<1>2. /\ kids' \in [Pid -> [kind : {"none"} \cup Kind, run : Run \cup {NoRun},
                 at : {"none", "start", "mid", "writing", "paused", "done"}]]
      /\ kids'[p] = [kind |-> k, at |-> "start", run |-> NoRun]
      /\ \A q \in Pid \ {p} : kids'[q] = kids[q]
  BY <1>1 DEF IndInv, TypeOK
<1>3. TypeOK'
  BY <1>1, <1>2 DEF Launch, files, counts, IndInv, TypeOK
<1>4. Mounts'
  <2>1. \A q \in Pid : Mounting(q)' => Mounting(q) /\ kids'[q] = kids[q]
    BY <1>2 DEF Mounting, At
  <2> QED BY <2>1 DEF Launch, files, IndInv, Mounts
<1>5. Single'
  <2>1. \A q \in Pid : k \in Paid => kids[q].kind # k
    BY DEF AliveOf
  <2> QED BY <1>2, <2>1 DEF Launch, files, IndInv, Single, Done
<1>6. CorpusFirst'
  BY <1>2 DEF Launch, files, IndInv, CorpusFirst, Done
<1>7. Waits'
  BY <1>1, <1>2 DEF Launch, files, Waits
<1>8. Evidence'
  BY DEF Launch, files, IndInv, Evidence, KillResumes
<1> QED BY <1>3, <1>4, <1>5, <1>6, <1>7, <1>8 DEF IndInv

\* A complete result is taken as it is.
LEMMA AttemptKeeps ==
    ASSUME IndInv, NEW k \in Paid, Attempt(k), attempt' \in 1..MaxAttempts,
           st \in DOMAIN StageOf, StageOf[st] = k, AliveOf(k) = {}
    PROVE  IndInv'
<1>1. CASE ~Done(k)
  BY <1>1, LaunchKeeps DEF Attempt, Kind
<1>2. CASE Done(k)
  <2> USE <1>2 DEF Attempt, files, counts
  <2>1. TypeOK'
    BY DEF IndInv, TypeOK
  <2>2. Mounts'
    BY DEF IndInv, Mounts, Mounting, At
  <2>3. Single' /\ CorpusFirst'
    BY SingleStays
  <2>4. \A p \in Pid : kids[p].kind # k
    BY DEF AliveOf
  <2>5. Waits'
    BY <2>4 DEF IndInv, Waits, Done
  <2>6. Evidence'
    BY DEF IndInv, Evidence, KillResumes
  <2> QED BY <2>1, <2>2, <2>3, <2>5, <2>6 DEF IndInv
<1> QED BY <1>1, <1>2

\* Whoever ends is told to the daemon that waits for it, and to no other.
LEMMA ExitKeeps ==
    ASSUME IndInv, NEW p \in Pid, NEW code \in {"ok", "transient", "permanent"},
           Exit(p, code), code = "ok" => kids[p].at = "done"
    PROVE  IndInv'
<1>1. /\ kids' \in [Pid -> [kind : {"none"} \cup Kind, run : Run \cup {NoRun},
                 at : {"none", "start", "mid", "writing", "paused", "done"}]]
      /\ kids'[p].kind = "none" /\ kids'[p].at = "none"
      /\ \A q \in Pid \ {p} : kids'[q] = kids[q]
  BY DEF Exit, NoKid, IndInv, TypeOK
<1>2. TypeOK'
  BY <1>1 DEF Exit, files, counts, IndInv, TypeOK
<1>3. Mounts'
  <2>1. \A q \in Pid : Mounting(q)' => Mounting(q) /\ kids'[q] = kids[q]
    BY <1>1 DEF Mounting, At
  <2>2. pc' = "marked" => pc = "marked"
    BY DEF Exit
  <2> QED BY <2>1, <2>2 DEF Exit, files, IndInv, Mounts
<1>4. Single'
  <2>1. \A q \in Pid : kids'[q].kind \in Paid => kids'[q] = kids[q]
    BY <1>1 DEF Paid
  <2> QED BY <2>1, <1>1 DEF Exit, files, IndInv, Single, Done, Paid
<1>5. CorpusFirst'
  BY <1>1 DEF Exit, files, IndInv, CorpusFirst, Done
<1>6. Waits'
  <2>1. CASE p = child /\ pc = "run"
    <3>1. st \in DOMAIN StageOf /\ kids[p].kind = StageOf[st]
      BY <2>1 DEF IndInv, Waits
    <3>2. \A q \in Pid : StageOf[st] \in Paid => kids'[q].kind # StageOf[st]
      <4> SUFFICES ASSUME NEW q \in Pid, StageOf[st] \in Paid
                   PROVE  kids'[q].kind # StageOf[st]
        OBVIOUS
      <4>1. CASE q = p
        BY <4>1, <1>1 DEF Paid
      <4>2. CASE q # p
        BY <4>2, <1>1, <3>1 DEF IndInv, Single
      <4> QED BY <4>1, <4>2
    <3>3. code = "ok" /\ StageOf[st] \in Paid => Done(StageOf[st])
      BY <3>1 DEF IndInv, Single
    <3> QED BY <2>1, <3>1, <3>2, <3>3 DEF Exit, files, Waits, Done
  <2>2. CASE ~(p = child /\ pc = "run")
    <3>1. UNCHANGED <<files, pc, exit, child>> /\ (blame => blame')
      BY <2>2 DEF Exit
    <3>2. pc = "run" => kids'[child] = kids[child]
      BY <2>2, <1>1 DEF IndInv, Waits
    <3>3. \A q \in Pid : kids'[q].kind \in Paid => kids'[q].kind = kids[q].kind
      BY <1>1 DEF Paid
    <3> QED BY <3>1, <3>2, <3>3 DEF files, IndInv, Waits, Done
  <2> QED BY <2>1, <2>2
<1>7. Evidence'
  BY DEF Exit, files, IndInv, Evidence, KillResumes
<1> QED BY <1>2, <1>3, <1>4, <1>5, <1>6, <1>7 DEF IndInv

\* The entry of a process that writes and goes on.
LEMMA Going ==
    ASSUME IndInv, NEW p \in Pid,
           NEW a \in {"none", "start", "mid", "writing", "paused", "done"}, GoesTo(p, a)
    PROVE  /\ kids' \in [Pid -> [kind : {"none"} \cup Kind, run : Run \cup {NoRun},
                      at : {"none", "start", "mid", "writing", "paused", "done"}]]
           /\ kids'[p].kind = kids[p].kind /\ kids'[p].at = a /\ kids'[p].run = kids[p].run
           /\ \A q \in Pid \ {p} : kids'[q] = kids[q]
BY DEF GoesTo, IndInv, TypeOK

\* The same with its run directory.
LEMMA Placed ==
    ASSUME IndInv, NEW p \in Pid, NEW r \in Run,
           kids' = [kids EXCEPT ![p].at = "mid", ![p].run = r]
    PROVE  /\ kids' \in [Pid -> [kind : {"none"} \cup Kind, run : Run \cup {NoRun},
                      at : {"none", "start", "mid", "writing", "paused", "done"}]]
           /\ kids'[p].kind = kids[p].kind /\ kids'[p].at = "mid" /\ kids'[p].run = r
           /\ \A q \in Pid \ {p} : kids'[q] = kids[q]
<1>1. kids[p] = [f \in {"kind", "run", "at"} |-> kids[p][f]]
  BY DEF IndInv, TypeOK
<1> QED BY <1>1 DEF IndInv, TypeOK

\* A mount takes a directory nobody has.
LEMMA MountMkdirKeeps ==
    ASSUME IndInv, NEW p \in Pid, MountMkdir(p)
    PROVE  IndInv'
<1>1. PICK r \in Run : /\ runs[r] = "none" /\ runs' = [runs EXCEPT ![r] = "partial"]
                      /\ kids' = [kids EXCEPT ![p].at = "mid", ![p].run = r]
  BY DEF MountMkdir, Lowest, Runs
<1>2. /\ kids' \in [Pid -> [kind : {"none"} \cup Kind, run : Run \cup {NoRun},
                 at : {"none", "start", "mid", "writing", "paused", "done"}]]
      /\ kids'[p].kind = "mount" /\ kids[p].kind = "mount" /\ kids'[p].run = r
      /\ \A q \in Pid \ {p} : kids'[q] = kids[q]
  BY <1>1, Placed DEF MountMkdir, At
<1>3. TypeOK'
  BY <1>1, <1>2 DEF MountMkdir, daemon, counts, IndInv, TypeOK
<1>4. Mounts'
  <2>1. runs'[r] = "partial" /\ \A x \in Run \ {r} : runs'[x] = runs[x]
    BY <1>1 DEF IndInv, TypeOK
  <2>2. \A q \in Pid \ {p} : Mounting(q)' => Mounting(q) /\ kids'[q].run # r
    BY <1>1, <1>2 DEF Mounting, At, IndInv, Mounts
  <2>3. marker # NoRun => marker \in Run
    BY DEF IndInv, TypeOK
  <2> QED BY <1>1, <1>2, <2>1, <2>2, <2>3 DEF MountMkdir, daemon, IndInv, Mounts
<1>5. Single' /\ CorpusFirst'
  BY <1>2 DEF MountMkdir, IndInv, Single, CorpusFirst, Done, Paid
<1>6. Waits'
  BY <1>2 DEF MountMkdir, daemon, IndInv, Waits, Done, Paid
<1>7. Evidence'
  BY DEF MountMkdir, IndInv, Evidence, KillResumes
<1> QED BY <1>3, <1>4, <1>5, <1>6, <1>7 DEF IndInv

\* It fills its own directory, which is not the one a marker or a state names.
LEMMA MountRecordsKeeps ==
    ASSUME IndInv, NEW p \in Pid, MountRecords(p)
    PROVE  IndInv'
<1> DEFINE r == kids[p].run
<1>1. /\ kids' \in [Pid -> [kind : {"none"} \cup Kind, run : Run \cup {NoRun},
                 at : {"none", "start", "mid", "writing", "paused", "done"}]]
      /\ kids'[p].kind = "mount" /\ kids[p].kind = "mount" /\ kids'[p].at = "done"
      /\ \A q \in Pid \ {p} : kids'[q] = kids[q]
  BY Going DEF MountRecords, At
<1>2. r \in Run /\ runs[r] = "partial"
  BY DEF MountRecords, IndInv, Mounts, Mounting
<1>3. /\ runs' \in [Run -> {"none", "partial", "good", "bad"}]
      /\ \A x \in Run \ {r} : runs'[x] = runs[x]
  BY <1>2 DEF MountRecords, IndInv, TypeOK
<1>4. TypeOK'
  BY <1>1, <1>3 DEF MountRecords, daemon, counts, IndInv, TypeOK
<1>5. Mounts'
  <2>1. \A q \in Pid : Mounting(q)' => q # p /\ Mounting(q) /\ kids'[q] = kids[q]
    BY <1>1 DEF Mounting, At
  <2>2. \A q \in Pid : Mounting(q)' => kids[q].run # r
    BY <2>1 DEF MountRecords, IndInv, Mounts, Mounting
  <2>3. marker # NoRun => marker \in Run
    BY DEF IndInv, TypeOK
  <2> QED BY <1>2, <1>3, <2>1, <2>2, <2>3 DEF MountRecords, daemon, IndInv, Mounts
<1>6. Single' /\ CorpusFirst'
  BY <1>1 DEF MountRecords, IndInv, Single, CorpusFirst, Done, Paid
<1>7. Waits'
  BY <1>1 DEF MountRecords, daemon, IndInv, Waits, Done, Paid
<1>8. Evidence'
  BY DEF MountRecords, IndInv, Evidence, KillResumes
<1> QED BY <1>4, <1>5, <1>6, <1>7, <1>8 DEF IndInv

\* The cascade writes its corpus.
LEMMA CascadeCorpusKeeps ==
    ASSUME IndInv, NEW p \in Pid, CascadeCorpus(p)
    PROVE  IndInv'
<1>1. /\ kids' \in [Pid -> [kind : {"none"} \cup Kind, run : Run \cup {NoRun},
                 at : {"none", "start", "mid", "writing", "paused", "done"}]]
      /\ kids'[p].kind = "cascade" /\ kids[p].kind = "cascade"
      /\ kids[p].at = "start" /\ kids'[p].at = "mid"
      /\ \A q \in Pid \ {p} : kids'[q] = kids[q]
  BY Going DEF CascadeCorpus, At
<1>2. TypeOK'
  BY <1>1 DEF CascadeCorpus, daemon, counts, IndInv, TypeOK
<1>3. Mounts'
  <2>1. \A q \in Pid : Mounting(q)' => Mounting(q) /\ kids'[q] = kids[q]
    BY <1>1 DEF Mounting, At
  <2> QED BY <2>1 DEF CascadeCorpus, daemon, IndInv, Mounts
<1>4. Single'
  BY <1>1 DEF CascadeCorpus, IndInv, Single, Done
<1>5. CorpusFirst'
  BY <1>1 DEF CascadeCorpus, IndInv, CorpusFirst
<1>6. Waits'
  BY <1>1 DEF CascadeCorpus, daemon, IndInv, Waits, Done
<1>7. Evidence'
  BY DEF CascadeCorpus, IndInv, Evidence, KillResumes
<1> QED BY <1>2, <1>3, <1>4, <1>5, <1>6, <1>7 DEF IndInv

\* No cascade is alive while the daemon has a cascade's result in hand, so a
\* manifest is written only where nothing rests on it yet.
LEMMA CascadeManifestKeeps ==
    ASSUME IndInv, NEW p \in Pid, CascadeManifest(p)
    PROVE  IndInv'
<1>1. /\ kids' \in [Pid -> [kind : {"none"} \cup Kind, run : Run \cup {NoRun},
                 at : {"none", "start", "mid", "writing", "paused", "done"}]]
      /\ kids'[p].kind = "cascade" /\ kids[p].kind = "cascade"
      /\ kids[p].at \in {"mid", "writing"} /\ kids'[p].at \in {"writing", "done"}
      /\ \A q \in Pid \ {p} : kids'[q] = kids[q]
      /\ cman' \in {"torn", "low", "high"}
      /\ kids'[p].at = "done" <=> cman' \in {"low", "high"}
  BY Going DEF CascadeManifest, At
<1>2. /\ cman \notin {"low", "high"} /\ corpus
      /\ \A q \in Pid : kids[q].kind = "cascade" => q = p
  BY <1>1 DEF IndInv, Single, CorpusFirst, Done, Paid
<1>3. TypeOK'
  BY <1>1 DEF CascadeManifest, daemon, counts, IndInv, TypeOK
<1>4. Mounts'
  <2>1. \A q \in Pid : Mounting(q)' => Mounting(q) /\ kids'[q] = kids[q]
    BY <1>1 DEF Mounting, At
  <2> QED BY <2>1 DEF CascadeManifest, daemon, IndInv, Mounts
<1>5. Single'
  <2>1. \A q \in Pid : kids'[q].kind = "cascade" => q = p
    BY <1>1, <1>2
  <2>2. \A q \in Pid : kids'[q].kind = "passk" => kids'[q] = kids[q]
    BY <1>1
  <2>3. Done("cascade")' <=> cman' \in {"low", "high"}
    BY DEF Done
  <2>4. Done("passk")' <=> Done("passk")
    BY DEF CascadeManifest, Done
  <2>5. \A q, x \in Pid : kids'[q].kind = "passk" /\ kids'[x].kind = "passk" => q = x
    BY <2>2, <1>1 DEF IndInv, Single, Paid
  <2> QED BY <1>1, <2>1, <2>2, <2>3, <2>4, <2>5 DEF IndInv, Single, Paid
<1>6. CorpusFirst'
  BY <1>1, <1>2 DEF CascadeManifest, CorpusFirst
<1>7. Waits'
  <2>1. ~(pc \in {"ran", "backoff"} /\ StageOf[st] = "cascade")
    BY <1>1 DEF IndInv, Waits, Paid
  <2>2. pc # "spent"
    BY <1>2 DEF IndInv, Waits
  <2>3. \A q \in Pid : kids'[q].kind = kids[q].kind
    BY <1>1
  <2> QED BY <2>1, <2>2, <2>3 DEF CascadeManifest, daemon, IndInv, Waits, Done, Paid
<1>8. Evidence'
  BY <1>2 DEF CascadeManifest, IndInv, Evidence, KillResumes
<1> QED BY <1>3, <1>4, <1>5, <1>6, <1>7, <1>8 DEF IndInv

\* The same of pass@k, whose manifest also says when it was paused.
LEMMA PassKManifestKeeps ==
    ASSUME IndInv, NEW p \in Pid, PassKManifest(p)
    PROVE  IndInv'
<1>1. /\ kids' \in [Pid -> [kind : {"none"} \cup Kind, run : Run \cup {NoRun},
                 at : {"none", "start", "mid", "writing", "paused", "done"}]]
      /\ kids'[p].kind = "passk" /\ kids[p].kind = "passk"
      /\ kids[p].at \in {"start", "writing"} /\ kids'[p].at \in {"writing", "paused", "done"}
      /\ \A q \in Pid \ {p} : kids'[q] = kids[q]
      /\ pman' \in {"torn", "interrupted", "done"}
      /\ kids'[p].at = "done" <=> pman' = "done"
  BY Going DEF PassKManifest, At
<1>2. /\ pman # "done"
      /\ \A q \in Pid : kids[q].kind = "passk" => q = p
  BY <1>1 DEF IndInv, Single, Done, Paid
<1>3. TypeOK'
  BY <1>1 DEF PassKManifest, daemon, counts, IndInv, TypeOK
<1>4. Mounts'
  <2>1. \A q \in Pid : Mounting(q)' => Mounting(q) /\ kids'[q] = kids[q]
    BY <1>1 DEF Mounting, At
  <2> QED BY <2>1 DEF PassKManifest, daemon, IndInv, Mounts
<1>5. Single'
  <2>1. \A q \in Pid : kids'[q].kind = "passk" => q = p
    BY <1>1, <1>2
  <2>2. \A q \in Pid : kids'[q].kind = "cascade" => kids'[q] = kids[q]
    BY <1>1
  <2>3. Done("passk")' <=> pman' = "done"
    BY DEF Done
  <2>4. Done("cascade")' <=> Done("cascade")
    BY DEF PassKManifest, Done
  <2>5. \A q, x \in Pid : kids'[q].kind = "cascade" /\ kids'[x].kind = "cascade" => q = x
    BY <2>2, <1>1 DEF IndInv, Single, Paid
  <2> QED BY <1>1, <2>1, <2>2, <2>3, <2>4, <2>5 DEF IndInv, Single, Paid
<1>6. CorpusFirst'
  BY <1>1 DEF PassKManifest, IndInv, CorpusFirst, Done
<1>7. Waits'
  <2>1. ~(pc \in {"ran", "backoff"} /\ StageOf[st] = "passk")
    BY <1>1 DEF IndInv, Waits, Paid
  <2>2. \A q \in Pid : kids'[q].kind = kids[q].kind
    BY <1>1
  <2> QED BY <2>1, <2>2 DEF PassKManifest, daemon, IndInv, Waits, Done, Paid
<1>8. Evidence'
  BY <1>2 DEF PassKManifest, IndInv, Evidence, KillResumes
<1> QED BY <1>3, <1>4, <1>5, <1>6, <1>7, <1>8 DEF IndInv

\* The daemon's steps that touch no process and no manifest: it comes and
\* goes, backs off, marks a mount, counts the spend, halts the queue.
LEMMA QuietKeeps ==
    ASSUME IndInv,
           \/ Startup \/ Crash \/ ForeignStarts \/ ForeignEnds
           \/ \E s \in {"MOUNTED", "CASCADE_DONE"} : BackOff(s)
           \/ MountMarker \/ SetHalt \/ (CascadeJudged /\ ~Freeze)
    PROVE  IndInv'
<1>1. UNCHANGED <<kids, corpus, cman, pman, runs, runDir>>
  BY DEF Startup, Crash, ForeignStarts, ForeignEnds, BackOff, MountMarker, SetHalt,
         CascadeJudged, Freeze, Transition, files, daemon
<1>2. TypeOK'
  <2>1. CASE Startup \/ Crash \/ ForeignStarts \/ ForeignEnds
    BY <2>1, StagesAssumption DEF Startup, Crash, ForeignStarts, ForeignEnds, files, daemon,
         counts, IndInv, TypeOK
  <2>2. CASE \E s \in {"MOUNTED", "CASCADE_DONE"} : BackOff(s)
    BY <2>2, StagesAssumption DEF BackOff, files, counts, IndInv, TypeOK
  <2>3. CASE MountMarker
    <3>1. PICK r \in Run : marker' = r
      BY <2>3 DEF MountMarker
    <3> QED BY <2>3, <3>1 DEF MountMarker, counts, IndInv, TypeOK
  <2>5. CASE SetHalt
    BY <2>5, StagesAssumption DEF SetHalt, counts, IndInv, TypeOK
  <2>4. CASE CascadeJudged /\ ~Freeze
    BY <2>4 DEF CascadeJudged, counts, IndInv, TypeOK
  <2> QED BY <2>1, <2>2, <2>3, <2>4, <2>5
<1>3. Mounts'
  <2>1. \/ UNCHANGED marker /\ (pc' = "marked" => pc = "marked")
           /\ (st' = st \/ (st' = "FROZEN" /\ pc' # "marked"))
        \/ \E r \in Run : marker' = r /\ runs[r] = "good" /\ st' = "SLICED" /\ st = "SLICED"
    BY DEF Startup, Crash, ForeignStarts, ForeignEnds, BackOff, MountMarker, SetHalt, Ran,
           Verified, CascadeJudged, files, daemon, IndInv, Waits
  <2> QED BY <1>1, <2>1, StagesAssumption DEF IndInv, Mounts, Mounting, At
<1>4. Single' /\ CorpusFirst'
  BY <1>1, SingleStays
<1>5. Waits'
  <2>1. CASE CascadeJudged /\ ~Freeze
    BY <2>1, <1>2, Names DEF CascadeJudged, Ran, Done, Waits, IndInv, TypeOK
  <2>2. CASE ~(CascadeJudged /\ ~Freeze)
    BY <1>1, <2>2 DEF Startup, Crash, ForeignStarts, ForeignEnds, BackOff, MountMarker, SetHalt,
         Ran, files, daemon, IndInv, Waits, Done
  <2> QED BY <2>1, <2>2
<1>6. Evidence'
  <2>1. /\ UNCHANGED blame /\ spend' >= spend /\ spend \in Nat
        /\ st' = st \/ (st' = "FROZEN" /\ cman = "high")
    BY DEF Startup, Crash, ForeignStarts, ForeignEnds, BackOff, MountMarker, SetHalt,
           CascadeJudged, Done, files, daemon, counts, IndInv, TypeOK
  <2>2. spend' \in Nat
    BY <1>2 DEF TypeOK
  <2> QED BY <1>1, <2>1, <2>2 DEF IndInv, Evidence, KillResumes
<1> QED BY <1>2, <1>3, <1>4, <1>5, <1>6 DEF IndInv

\* Each step of the mount.
LEMMA MountKeeps ==
    ASSUME IndInv, Mount
    PROVE  IndInv'
<1>1. CASE MountResumed
  BY <1>1, TransitionKeeps DEF MountResumed, Dispatch, IndInv, TypeOK, Mounts
<1>2. CASE MountDirty
  BY <1>2, FreezeKeeps DEF MountDirty, Dispatch, IndInv, Mounts
<1>3. CASE MountStart
  BY <1>3, LaunchKeeps, Names DEF MountStart, Dispatch, Kind, Paid, IndInv, TypeOK
<1>4. CASE MountMarker
  BY <1>4, QuietKeeps
<1>5. CASE MountUnmarked
  BY <1>5, TransitionKeeps DEF MountUnmarked, Verified
<1>6. CASE MountMarked
  BY <1>6, TransitionKeeps DEF MountMarked, IndInv, TypeOK, Mounts
<1>7. CASE MountRejected
  BY <1>7, FreezeKeeps DEF MountRejected, Ran, IndInv, Mounts
<1> QED BY <1>1, <1>2, <1>3, <1>4, <1>5, <1>6, <1>7 DEF Mount

\* Starting and retrying a paid stage: before the first attempt the slot was
\* looked at, and between two no process of the stage is left.
LEMMA PaidKeeps ==
    ASSUME IndInv, NEW k \in Paid, NEW s \in {"MOUNTED", "CASCADE_DONE"}, StageOf[s] = k,
           Start(k, s) \/ Retry(k, s)
    PROVE  IndInv'
<1>1. st = s /\ Attempt(k) /\ attempt' \in 1..MaxAttempts
  BY StagesAssumption DEF Start, Retry, Dispatch, IndInv, TypeOK
<1>2. AliveOf(k) = {}
  <2>1. CASE Start(k, s)
    BY <2>1 DEF Start, SlotFree
  <2>2. CASE Retry(k, s)
    BY <2>2 DEF Retry, AliveOf, IndInv, Waits
  <2> QED BY <2>1, <2>2
<1> QED BY <1>1, <1>2, AttemptKeeps, Names

\* The result of an attempt, and the end of a batch.
LEMMA JudgedKeeps ==
    ASSUME IndInv,
           \/ CascadeJudged \/ CascadeDone \/ PassKJudged \/ Ready
           \/ \E s \in {"SLICED", "MOUNTED", "CASCADE_DONE"} : GiveUp(s)
    PROVE  IndInv'
<1>1. CASE CascadeJudged
  <2>1. Done("cascade") /\ corpus
    BY <1>1, Names DEF CascadeJudged, Ran, IndInv, Waits, CorpusFirst, Paid
  <2>2. ~Freeze
    BY <1>1, <2>1 DEF CascadeJudged, Freeze, Transition
  <2> QED BY <1>1, <2>2, QuietKeeps
<1>2. CASE CascadeDone
  BY <1>2, TransitionKeeps DEF CascadeDone, IndInv, TypeOK, Mounts, Waits
<1>3. CASE PassKJudged
  <2>1. st = "CASCADE_DONE" /\ pman = "done"
    BY <1>3, Names DEF PassKJudged, Ran, IndInv, Waits, Done, Paid
  <2> QED BY <1>3, <2>1, TransitionKeeps DEF PassKJudged, IndInv, TypeOK, Mounts, Evidence
<1>4. CASE Ready
  BY <1>4, TransitionKeeps DEF Ready, Dispatch, IndInv, TypeOK, Mounts, Evidence
<1>5. CASE \E s \in {"SLICED", "MOUNTED", "CASCADE_DONE"} : GiveUp(s)
  BY <1>5, FreezeKeeps DEF GiveUp, IndInv, Waits
<1> QED BY <1>1, <1>2, <1>3, <1>4, <1>5

\* Each step of a process.
LEMMA KidKeeps ==
    ASSUME IndInv, NEW p \in Pid, Kid(p)
    PROVE  IndInv'
<1>1. CASE KidEnds(p) \/ KidPaused(p) \/ KidDies(p)
  BY <1>1, ExitKeeps DEF KidEnds, KidPaused, KidDies
<1> QED BY <1>1, MountMkdirKeeps, MountRecordsKeeps, CascadeCorpusKeeps,
           CascadeManifestKeeps, PassKManifestKeeps DEF Kid, Works

LEMMA StepIndInv ==
    ASSUME IndInv, [Next]_vars
    PROVE  IndInv'
<1>1. CASE UNCHANGED vars
  BY <1>1 DEF vars, files, daemon, counts, IndInv, TypeOK, Mounts, Mounting, At, Single,
              CorpusFirst, Waits, Evidence, KillResumes, Done
<1>2. CASE Daemon
  <2>1. CASE Cascade
    BY <2>1, PaidKeeps, QuietKeeps, JudgedKeeps, Names DEF Cascade, Paid
  <2>2. CASE PassK
    BY <2>2, PaidKeeps, QuietKeeps, JudgedKeeps, Names DEF PassK, Paid
  <2> QED BY <1>2, <2>1, <2>2, MountKeeps, QuietKeeps, JudgedKeeps DEF Daemon
<1> QED BY <1>1, <1>2, KidKeeps, QuietKeeps DEF Next

LEMMA InitIndInv == Init => IndInv
<1> SUFFICES ASSUME Init PROVE IndInv
  OBVIOUS
<1> USE StagesAssumption DEF Init, NoKid
<1>1. TypeOK
  <2>1. kids \in [Pid -> [kind : {"none"} \cup Kind, run : Run \cup {NoRun},
                 at : {"none", "start", "mid", "writing", "paused", "done"}]]
    OBVIOUS
  <2>2. attempt \in 1..MaxAttempts
    OBVIOUS
  <2> QED BY <2>1, <2>2 DEF TypeOK
<1>2. Mounts /\ Single /\ CorpusFirst
  BY DEF Mounts, Mounting, At, Single, Paid, CorpusFirst, Done
<1>3. Waits /\ Evidence
  BY DEF Waits, Evidence, KillResumes
<1> QED BY <1>1, <1>2, <1>3 DEF IndInv

\* The inductive invariant holds of every run of the stages.
THEOREM InvariantHolds == Spec => []IndInv
<1>1. IndInv /\ [Next]_vars => IndInv'
  BY StepIndInv
<1> QED BY InitIndInv, <1>1, PTL DEF Spec

\* Every variable keeps its shape.
THEOREM TypeCorrect == Spec => []TypeOK
BY InvariantHolds, PTL DEF IndInv

\* What a state of the batch claims.
LEMMA BeyondIs ==
    /\ Beyond("MOUNTED") => st \in {"MOUNTED", "CASCADE_DONE", "PASSK_DONE", "READY"}
    /\ Beyond("CASCADE_DONE") => st \in {"CASCADE_DONE", "PASSK_DONE", "READY"}
    /\ Beyond("PASSK_DONE") => st \in {"PASSK_DONE", "READY"}
<1> DEFINE order == <<"SLICED", "MOUNTED", "CASCADE_DONE", "PASSK_DONE", "READY">>
<1>1. /\ order[1] = "SLICED" /\ order[2] = "MOUNTED" /\ order[3] = "CASCADE_DONE"
      /\ order[4] = "PASSK_DONE" /\ order[5] = "READY"
  OBVIOUS
<1>2. \A s : Beyond(s) => \E i, j \in 1..5 : order[i] = s /\ order[j] = st /\ i =< j
  BY DEF Beyond
<1> HIDE DEF order
<1>3. \A i \in 1..5 : i = 1 \/ i = 2 \/ i = 3 \/ i = 4 \/ i = 5
  OBVIOUS
<1> QED BY <1>1, <1>2, <1>3

\* Mounted means a verified handoff, cascaded a complete manifest under the
\* limit with its corpus, pass@k done an uninterrupted run, whatever was
\* killed, orphaned or repeated on the way.
THEOREM StatesHaveEvidence == Spec => []StageEvidence
<1>1. IndInv => StageEvidence
  BY BeyondIs DEF IndInv, Mounts, CorpusFirst, Done, Evidence, StageEvidence
<1> QED BY <1>1, InvariantHolds, PTL

\* From the verified mount on a kill of the daemon alone freezes nothing.
THEOREM KillsResume == Spec => []KillResumes
<1>1. IndInv => KillResumes
  BY DEF IndInv, Evidence
<1> QED BY <1>1, InvariantHolds, PTL

\* The processes of a stage after each kind of step.
LEMMA AliveAfterLaunch ==
    ASSUME IndInv, NEW k \in Kind, Launch(k), NEW c \in Paid
    PROVE  /\ k # c => AliveOf(c)' = AliveOf(c)
           /\ k = c => \E p \in Pid : AliveOf(c)' = AliveOf(c) \cup {p}
<1>1. PICK p \in Pid : /\ kids[p] = NoKid
                      /\ kids' = [kids EXCEPT ![p] =
                             [kind |-> k, at |-> "start", run |-> NoRun]]
  BY LaunchedAt
<1>2. /\ kids[p].kind = "none" /\ kids'[p].kind = k
      /\ \A q \in Pid \ {p} : kids'[q] = kids[q]
  BY <1>1 DEF NoKid, IndInv, TypeOK
<1>3. CASE k # c
  BY <1>2, <1>3 DEF AliveOf, Paid
<1>4. CASE k = c
  BY <1>2, <1>4 DEF AliveOf
<1> QED BY <1>3, <1>4

LEMMA AliveAfterExit ==
    ASSUME IndInv, NEW p \in Pid, NEW code, Exit(p, code), NEW c \in Paid
    PROVE  \/ AliveOf(c)' = AliveOf(c)
           \/ AliveOf(c) # {} /\ AliveOf(c)' = {}
<1>1. kids'[p].kind = "none" /\ \A q \in Pid \ {p} : kids'[q] = kids[q]
  BY DEF Exit, NoKid, IndInv, TypeOK
<1>2. CASE kids[p].kind = c
  <2>1. \A q \in Pid : kids[q].kind = c => q = p
    BY <1>2 DEF IndInv, Single
  <2> QED BY <1>1, <1>2, <2>1 DEF AliveOf, Paid
<1>3. CASE kids[p].kind # c
  BY <1>1, <1>3 DEF AliveOf, Paid
<1> QED BY <1>2, <1>3

LEMMA AliveAfterWrite ==
    ASSUME IndInv, NEW p \in Pid, NEW c \in Paid,
           \/ MountMkdir(p) \/ MountRecords(p) \/ CascadeCorpus(p)
           \/ CascadeManifest(p) \/ PassKManifest(p)
    PROVE  AliveOf(c)' = AliveOf(c)
<1>1. \A q \in Pid : kids'[q].kind = kids[q].kind
  <2>1. CASE MountMkdir(p)
    BY <2>1, Placed DEF MountMkdir, Lowest, Runs
  <2>2. CASE MountRecords(p)
    BY <2>2, Going DEF MountRecords
  <2>3. CASE CascadeCorpus(p)
    BY <2>3, Going DEF CascadeCorpus
  <2>4. CASE CascadeManifest(p)
    BY <2>4, Going DEF CascadeManifest
  <2>5. CASE PassKManifest(p)
    BY <2>5, Going DEF PassKManifest
  <2> QED BY <2>1, <2>2, <2>3, <2>4, <2>5
<1> QED BY <1>1 DEF AliveOf

\* An attempt at a stage launches a process only where none is, and none is
\* ever launched where there is a complete result.
LEMMA AliveAfterAttempt ==
    ASSUME IndInv, NEW k \in Paid, NEW s, StageOf[s] = k, s \in DOMAIN StageOf,
           Start(k, s) \/ Retry(k, s), NEW c \in Paid
    PROVE  \/ AliveOf(c)' = AliveOf(c)
           \/ /\ AliveOf(c) = {} /\ ~Done(c)
              /\ \E p \in Pid : AliveOf(c)' = {p}
<1>1. Attempt(k) /\ AliveOf(k) = {}
  <2>1. CASE Start(k, s)
    BY <2>1 DEF Start, SlotFree
  <2>2. CASE Retry(k, s)
    BY <2>2 DEF Retry, AliveOf, IndInv, Waits
  <2> QED BY <2>1, <2>2
<1>2. CASE ~Done(k) /\ Launch(k)
  BY <1>1, <1>2, AliveAfterLaunch DEF Kind
<1>3. CASE UNCHANGED kids
  BY <1>3 DEF AliveOf
<1> QED BY <1>1, <1>2, <1>3 DEF Attempt

\* The processes of a paid stage, after any step.
LEMMA AliveAfter ==
    ASSUME IndInv, Next, NEW c \in Paid
    PROVE  \/ AliveOf(c)' = AliveOf(c)
           \/ /\ AliveOf(c) = {} /\ ~Done(c) /\ UNCHANGED <<cman, pman>>
              /\ \E p \in Pid : AliveOf(c)' = {p}
           \/ /\ AliveOf(c) # {} /\ AliveOf(c)' = {} /\ UNCHANGED <<cman, pman>>
<1>1. CASE UNCHANGED kids
  BY <1>1 DEF AliveOf
<1>2. CASE \E p \in Pid : Kid(p)
  <2>1. PICK p \in Pid : Kid(p)
    BY <1>2
  <2>2. CASE KidEnds(p) \/ KidPaused(p) \/ KidDies(p)
    <3>1. PICK code : Exit(p, code)
      BY <2>2 DEF KidEnds, KidPaused, KidDies
    <3> QED BY <3>1, AliveAfterExit DEF Exit, files
  <2> QED BY <2>1, <2>2, AliveAfterWrite DEF Kid, Works
<1>3. CASE MountStart
  BY <1>3, AliveAfterLaunch DEF MountStart, Kind, Paid
<1>4. CASE \/ Start("cascade", "MOUNTED") \/ Retry("cascade", "MOUNTED")
           \/ Start("passk", "CASCADE_DONE") \/ Retry("passk", "CASCADE_DONE")
  <2>1. UNCHANGED <<cman, pman>>
    BY <1>4 DEF Start, Retry, Attempt, Launch, files
  <2> QED BY <1>4, <2>1, AliveAfterAttempt, Names DEF Paid
<1> QED BY <1>1, <1>2, <1>3, <1>4 DEF Next, Daemon, Mount, Cascade, PassK, Startup, MountResumed,
        MountDirty, MountMarker, MountUnmarked, MountMarked, MountRejected, BackOff, CascadeJudged,
        CascadeDone, SetHalt, PassKJudged, Ready, GiveUp, Freeze, Transition, Crash,
        ForeignStarts, ForeignEnds

\* A manifest is written by the one process of its stage, and not again when
\* it says that the run is complete.
LEMMA ManifestAfter ==
    ASSUME IndInv, Next
    PROVE  /\ \/ UNCHANGED cman
              \/ /\ AliveOf("cascade") # {} /\ ~Done("cascade")
                 /\ cman' \in {"torn", "low", "high"}
           /\ \/ UNCHANGED pman
              \/ /\ AliveOf("passk") # {} /\ ~Done("passk")
                 /\ pman' \in {"torn", "interrupted", "done"}
<1>1. ASSUME NEW p \in Pid, CascadeManifest(p)
      PROVE  /\ AliveOf("cascade") # {} /\ ~Done("cascade") /\ UNCHANGED pman
             /\ cman' \in {"torn", "low", "high"}
  BY <1>1 DEF CascadeManifest, At, AliveOf, IndInv, Single, Paid
<1>2. ASSUME NEW p \in Pid, PassKManifest(p)
      PROVE  /\ AliveOf("passk") # {} /\ ~Done("passk") /\ UNCHANGED cman
             /\ pman' \in {"torn", "interrupted", "done"}
  BY <1>2 DEF PassKManifest, At, AliveOf, IndInv, Single, Paid
<1>3. CASE \E p \in Pid : CascadeManifest(p) \/ PassKManifest(p)
  BY <1>1, <1>2, <1>3
<1>4. CASE ~\E p \in Pid : CascadeManifest(p) \/ PassKManifest(p)
  <2>1. CASE Daemon
    BY <2>1 DEF Daemon, Mount, Cascade, PassK, Startup, MountResumed,
        MountDirty, MountStart, MountMarker, MountUnmarked, MountMarked, MountRejected, BackOff,
        CascadeJudged, CascadeDone, SetHalt, PassKJudged, Ready, GiveUp, Freeze, Transition,
        Start, Retry, Attempt, Launch, files
  <2>2. CASE ~Daemon
    BY <1>4, <2>2 DEF Next, Kid, Works, KidEnds, KidPaused, KidDies, Exit, MountMkdir,
        MountRecords, CascadeCorpus, Crash, ForeignStarts, ForeignEnds, files
  <2> QED BY <2>1, <2>2
<1> QED BY <1>3, <1>4

\* The cascade of a batch is a paid stage: one process at a time, through
\* kills that leave it running, and none after a complete result.
THEOREM CascadeIsPaidOnce == Spec => CascadeNotRepaid
<1>1. Init => CascadeOnce!Init
  BY DEF Init, NoKid, AliveOf, CascadeOnce!Init
<1>2. IndInv /\ [Next]_vars =>
        [CascadeOnce!Launch \/ CascadeOnce!Work \/ CascadeOnce!End]_<<AliveOf("cascade"), cman>>
  <2>1. CASE UNCHANGED vars
    BY <2>1 DEF vars, files, AliveOf
  <2>2. ASSUME IndInv, Next
        PROVE  \/ CascadeOnce!Launch \/ CascadeOnce!Work \/ CascadeOnce!End
               \/ UNCHANGED <<AliveOf("cascade"), cman>>
    <3>1. "cascade" \in Paid /\ (Done("cascade") <=> cman \in {"low", "high"})
      BY DEF Paid, Done
    <3> QED BY <2>2, <3>1, AliveAfter, ManifestAfter
            DEF CascadeOnce!Launch, CascadeOnce!Work, CascadeOnce!End
  <2> QED BY <2>1, <2>2
<1> QED BY <1>1, <1>2, InvariantHolds, PTL DEF Spec, CascadeNotRepaid, CascadeOnce!Spec

\* The same of pass@k and the one GPU slot.
THEOREM PassKIsPaidOnce == Spec => PassKNotRepeated
<1>1. Init => PassKOnce!Init
  BY DEF Init, NoKid, AliveOf, PassKOnce!Init
<1>2. IndInv /\ [Next]_vars =>
        [PassKOnce!Launch \/ PassKOnce!Work \/ PassKOnce!End]_<<AliveOf("passk"), pman>>
  <2>1. CASE UNCHANGED vars
    BY <2>1 DEF vars, files, AliveOf
  <2>2. ASSUME IndInv, Next
        PROVE  \/ PassKOnce!Launch \/ PassKOnce!Work \/ PassKOnce!End
               \/ UNCHANGED <<AliveOf("passk"), pman>>
    <3>1. "passk" \in Paid /\ (Done("passk") <=> pman \in {"done"})
      BY DEF Paid, Done
    <3> QED BY <2>2, <3>1, AliveAfter, ManifestAfter
            DEF PassKOnce!Launch, PassKOnce!Work, PassKOnce!End
  <2> QED BY <2>1, <2>2
<1> QED BY <1>1, <1>2, InvariantHolds, PTL DEF Spec, PassKNotRepeated, PassKOnce!Spec

=============================================================================
