-------------------------------- MODULE V3 --------------------------------
(* The data set of regenerated proofs: solutions mined upstream become       *)
(* bundles of hinted prompts, a machine elsewhere samples them into rollouts *)
(* files that grow, and the first sample of a record that verifies becomes   *)
(* its training row. Bundles and data sets are published into directories,   *)
(* each by one command at a time; any of them may be killed.                 *)
EXTENDS Naturals, Sequences, FiniteSets

CONSTANTS
  Solutions,      \* [lane -> Seq of versions [split, rows]]; rows: Seq of
                  \*   [uid, statement, answer, paper]
  AcceptedSplits, \* splits a manifest may name
  TrainUids, EvalUids, EvalPapers, NoPaper,
  EvalStatements, \* statements of the eval set
  Leaky,          \* statements that contain one of them
  Corpus,         \* uids of the band corpus
  Pool,           \* [uid -> label] of the pool of well-posed records
  K,              \* V3_K_REGEN
  Lines,          \* [lane -> what may be sampled: {[uid, sample, output]}]
  NoRows,         \* of a directory without a file
  MaxLines,       \* [lane -> how many samples are taken]
  MaxSlots, MaxKills

Lanes == {"hinted", "anchor"}
Stages == Lanes \cup {"dataset"}   \* a bundle of each lane, and the data set
Slots == 1..MaxSlots               \* the requested directory and its __N siblings

ASSUME KAssumption == K \in Nat \ {0}
ASSUME SlotAssumption == MaxSlots \in Nat \ {0}
ASSUME LeakyAssumption == EvalStatements \subseteq Leaky
\* So it is in the split of V3_EXPECTED_SPLIT_SHA256, which every command pins.
ASSUME SplitAssumption == TrainUids \cap EvalUids = {}
ASSUME VersionAssumption ==
  \A l \in Lanes : Len(Solutions[l]) \in Nat \ {0} /\ DOMAIN Solutions[l] = 1..Len(Solutions[l])
\* "one row per verified record": the commands count on it and do not check it.
ASSUME RecordAssumption ==
  \A l \in Lanes : \A v \in DOMAIN Solutions[l] :
    LET rows == Solutions[l][v].rows
    IN \A i, h \in DOMAIN rows : rows[i].uid = rows[h].uid => rows[i] = rows[h]

VARIABLES
  sol,      \* [lane -> [file, recorded]]: the version in the solutions file,
            \*   the one whose sha its manifest records
  rollouts, \* [lane -> Seq of lines]
  dirs,     \* [stage -> [slot -> [made, file, manifest, says]]]
  job,      \* [stage -> the command that runs: [at, draft, want, slot]]
  kills

vars == <<sol, rollouts, dirs, job, kills>>

Empty == [made |-> "no", file |-> NoRows, manifest |-> "absent", says |-> NoRows]
Idle == [at |-> "idle", draft |-> NoRows, want |-> NoRows, slot |-> 1]

Init ==
  /\ sol = [l \in Lanes |-> [file |-> 1, recorded |-> 1]]
  /\ rollouts = [l \in Lanes |-> <<>>]
  /\ dirs = [s \in Stages |-> [d \in Slots |-> Empty]]
  /\ job = [s \in Stages |-> Idle]
  /\ kills = 0
-----------------------------------------------------------------------------
(* Upstream: a new version of the solutions, its manifest after it; samples. *)

Mine(l) ==
  /\ sol[l].file = sol[l].recorded /\ sol[l].file < Len(Solutions[l])
  /\ sol' = [sol EXCEPT ![l].file = @ + 1]
  /\ UNCHANGED <<rollouts, dirs, job, kills>>

Record(l) ==
  /\ sol[l].recorded < sol[l].file
  /\ sol' = [sol EXCEPT ![l].recorded = sol[l].file]
  /\ UNCHANGED <<rollouts, dirs, job, kills>>

\* A directory that holds a publication: its manifest parses and its file has
\* the sha the manifest says.
IsComplete(s, d) ==
  dirs[s][d].manifest = "whole" /\ dirs[s][d].file = dirs[s][d].says.content

Sample(l, line) ==
  /\ Len(rollouts[l]) < MaxLines[l]
  /\ \E d \in Slots : IsComplete(l, d)
  /\ rollouts' = [rollouts EXCEPT ![l] = Append(@, line)]
  /\ UNCHANGED <<sol, dirs, job, kills>>
-----------------------------------------------------------------------------
(* The guards on the solutions. *)

Rows(l, v) == {Solutions[l][v].rows[i] : i \in DOMAIN Solutions[l][v].rows}
UidsIn(rows) == {row.uid : row \in rows}

ChainHolds(l) == sol[l].file = sol[l].recorded
SplitPinned(l, v) == Solutions[l][v].split \in AcceptedSplits
TrainSplitOnly(rows) == UidsIn(rows) \subseteq TrainUids
NotInEval(rows) ==
  \A row \in rows : row.paper # NoPaper /\ row.uid \notin EvalUids /\ row.paper \notin EvalPapers
NoSharedStatement(rows) == \A row \in rows : row.statement \notin EvalStatements

\* The anchors are no train uids; not being in the eval side stands in for it.
Member(l, rows) == IF l = "hinted" THEN TrainSplitOnly(rows) ELSE NotInEval(rows)

Usable(l) ==
  /\ ChainHolds(l) /\ SplitPinned(l, sol[l].file)
  /\ Rows(l, sol[l].file) # {} /\ Member(l, Rows(l, sol[l].file))

Working(s, at) == job[s].at = at
Set(s, new) == job' = [job EXCEPT ![s] = new]

\* make-regen-bundle and make-anchor-bundle: per row a prompt, the statement and
\* the mined solution as a hint, and no answer.
Prompts(l, v) == {[uid |-> row.uid, statement |-> row.statement, hint |-> v] : row \in Rows(l, v)}

Bundle(l, v) == [content |-> Prompts(l, v), sig |-> [solutions |-> v]]

MakeBundle(l) ==
  /\ Working(l, "idle") /\ Usable(l) /\ NoSharedStatement(Rows(l, sol[l].file))
  /\ Set(l, [Idle EXCEPT !.at = "built", !.want = Bundle(l, sol[l].file)])
  /\ UNCHANGED <<sol, rollouts, dirs, kills>>

MakeRegenBundle == MakeBundle("hinted")
MakeAnchorBundle == MakeBundle("anchor")
-----------------------------------------------------------------------------
(* build-dataset. The draft holds what was read: the version of the          *)
(* solutions, the bundle, how many lines of the rollouts were loaded, and    *)
(* how many were there when the file was hashed.                             *)

SameSolutions(manifest, v) == manifest.sig.solutions = v
BundleFits(d, v) ==
  /\ IsComplete("hinted", d)
  /\ SameSolutions(dirs["hinted"][d].says, v)
  /\ UidsIn(dirs["hinted"][d].file) = UidsIn(Rows("hinted", v))

ReadBundle(d) ==
  /\ Working("dataset", "idle") /\ Usable("hinted") /\ BundleFits(d, sol["hinted"].file)
  /\ Set("dataset", [Idle EXCEPT !.at = "bundle",
       !.draft = [hinted |-> [solutions |-> sol["hinted"].file, loaded |-> 0, hashed |-> 0],
                  bundle |-> dirs["hinted"][d].says]])
  /\ UNCHANGED <<sol, rollouts, dirs, kills>>

\* Of the first n lines with the same uid and sample the last counts.
Drawn(lines, n, u, i) == {j \in 1..n : lines[j].uid = u /\ lines[j].sample = i}
LastLine(found) == CHOOSE j \in found : \A h \in found : h <= j
Samples(lines, n, u) ==
  [i \in {lines[j].sample : j \in {h \in 1..n : lines[h].uid = u}} |->
     lines[LastLine(Drawn(lines, n, u, i))].output]

Verifies(output, answer) == output = answer
Verified(samples, answer) ==
  {i \in DOMAIN samples \cap 0..(K - 1) : Verifies(samples[i], answer)}
LastOf(found) == {i \in found : \A h \in found : h <= i}
FirstOf(found) == {i \in found : \A h \in found : i <= h}

Bucket(label) ==
  CASE label = "band" -> "band"
    [] label \in {"collapse", "misdirection"} -> "collapse"
    [] OTHER -> "none"
Tier(u) ==
  IF u \in Corpus THEN "band" ELSE IF u \in DOMAIN Pool THEN Bucket(Pool[u]) ELSE "none"

SftRow(l, row, i, samples) ==
  [uid |-> row.uid, lane |-> l, statement |-> row.statement, sample |-> i, output |-> samples[i]]
Harvest(l, row, samples) ==
  {SftRow(l, row, i, samples) : i \in FirstOf(Verified(samples, row.answer))}

\* A record without samples, without one that verifies, or off tier is counted
\* in the manifest and left out. The legacy anchors' share of the blend is 0.
Wanted(l, row) == l = "anchor" \/ Tier(row.uid) # "none"
Kept(l, v, lines, n) ==
  UNION {Harvest(l, row, Samples(lines, n, row.uid)) : row \in {r \in Rows(l, v) : Wanted(l, r)}}

LoadRollouts ==
  /\ Working("dataset", "bundle") /\ rollouts["hinted"] # <<>>
  /\ Set("dataset", [job["dataset"] EXCEPT !.at = "loaded",
       !.draft.hinted.loaded = Len(rollouts["hinted"])])
  /\ UNCHANGED <<sol, rollouts, dirs, kills>>

KeptOf(l, read) == Kept(l, read.solutions, rollouts[l], read.loaded)
Hinted(draft) == KeptOf("hinted", draft.hinted)

HashRollouts ==
  /\ Working("dataset", "loaded") /\ Hinted(job["dataset"].draft) # {}
  /\ Set("dataset", [job["dataset"] EXCEPT !.at = "hinted",
       !.draft.hinted.hashed = Len(rollouts["hinted"])])
  /\ UNCHANGED <<sol, rollouts, dirs, kills>>

NoHintInPrompts(rows) == \A row \in rows : row.statement \notin Leaky

\* Without --anchor-solutions the data set is the hinted rows.
BuildHinted ==
  /\ Working("dataset", "hinted") /\ NoHintInPrompts(Hinted(job["dataset"].draft))
  /\ LET draft == job["dataset"].draft
     IN Set("dataset", [job["dataset"] EXCEPT !.at = "built",
          !.want = [content |-> Hinted(draft), sig |-> draft]])
  /\ UNCHANGED <<sol, rollouts, dirs, kills>>

\* With them the hinted rows must be those of the first stage's data set, the
\* reference, whose hash is one of the inputs.
LoadAnchors(d) ==
  /\ Working("dataset", "hinted")
  /\ dirs["dataset"][d].file = Hinted(job["dataset"].draft)
  /\ Usable("anchor") /\ NoSharedStatement(Rows("anchor", sol["anchor"].file))
  /\ rollouts["anchor"] # <<>>
  /\ LET draft == job["dataset"].draft
     IN Set("dataset", [job["dataset"] EXCEPT !.at = "anchors",
          !.draft = [hinted |-> draft.hinted, bundle |-> draft.bundle,
                     reference |-> dirs["dataset"][d].file,
                     anchor |-> [solutions |-> sol["anchor"].file,
                                 loaded |-> Len(rollouts["anchor"]), hashed |-> 0]]])
  /\ UNCHANGED <<sol, rollouts, dirs, kills>>

Anchors(draft) == KeptOf("anchor", draft.anchor)

NoCollision(rows, others) == UidsIn(rows) \cap UidsIn(others) = {}

BuildBoth ==
  /\ Working("dataset", "anchors")
  /\ LET draft == [job["dataset"].draft EXCEPT !.anchor.hashed = Len(rollouts["anchor"])]
         rows == Hinted(draft) \cup Anchors(draft)
     IN /\ NoCollision(Hinted(draft), Anchors(draft)) /\ NoHintInPrompts(rows)
        /\ Set("dataset", [job["dataset"] EXCEPT !.at = "built",
             !.draft = draft, !.want = [content |-> rows, sig |-> draft]])
  /\ UNCHANGED <<sol, rollouts, dirs, kills>>

\* Any later guard that fails ends the command; nothing was published.
Refuse ==
  /\ \/ Working("dataset", "bundle") /\ rollouts["hinted"] = <<>>
     \/ Working("dataset", "loaded") /\ Hinted(job["dataset"].draft) = {}
     \/ Working("dataset", "hinted")
     \/ /\ Working("dataset", "anchors")
        /\ LET draft == job["dataset"].draft
           IN ~NoCollision(Hinted(draft), Anchors(draft))
                \/ ~NoHintInPrompts(Hinted(draft) \cup Anchors(draft))
  /\ Set("dataset", Idle)
  /\ UNCHANGED <<sol, rollouts, dirs, kills>>
-----------------------------------------------------------------------------
(* Publishing. *)

SameInputs(s, d) == dirs[s][d].says.sig = job[s].want.sig

\* The directory to write to, if any: the requested one while it is incomplete;
\* with --force-new-dir the first sibling that does not exist.
FirstFree(s) ==
  {d \in Slots : dirs[s][d].made = "no" /\ d > 1
                   /\ \A h \in Slots : h > 1 /\ h < d => dirs[s][h].made = "yes"}
ResolveInPlace(s, force) ==
  IF IsComplete(s, 1) /\ SameInputs(s, 1) THEN {} ELSE IF force THEN FirstFree(s) ELSE {1}
ResolveDir(s, force) ==
  IF ~IsComplete(s, 1) THEN {1}
  ELSE IF SameInputs(s, 1) THEN {}
  ELSE IF force THEN FirstFree(s) ELSE {}

Resolve(s) ==
  /\ Working(s, "built")
  /\ \E force \in BOOLEAN : \E d \in ResolveDir(s, force) :
       Set(s, [job[s] EXCEPT !.at = "resolved", !.slot = d])
  /\ UNCHANGED <<sol, rollouts, dirs, kills>>

\* The publication is there already, or another one is and refuses this one.
Return(s) ==
  /\ Working(s, "built") /\ \E force \in BOOLEAN : ResolveDir(s, force) = {}
  /\ Set(s, Idle)
  /\ UNCHANGED <<sol, rollouts, dirs, kills>>

\* The temporary file is written into the new directory, read back and checked.
MakeDir(s) ==
  /\ Working(s, "resolved")
  /\ dirs' = [dirs EXCEPT ![s][job[s].slot].made = "yes"]
  /\ Set(s, [job[s] EXCEPT !.at = "made"])
  /\ UNCHANGED <<sol, rollouts, kills>>

Replace(s) ==
  /\ Working(s, "made")
  /\ dirs' = [dirs EXCEPT ![s][job[s].slot].file = job[s].want.content]
  /\ Set(s, [job[s] EXCEPT !.at = "placed"])
  /\ UNCHANGED <<sol, rollouts, kills>>

\* The manifest is written in place: it is empty first.
OpenManifest(s) ==
  /\ Working(s, "placed")
  /\ dirs' = [dirs EXCEPT ![s][job[s].slot].manifest = "torn"]
  /\ Set(s, [job[s] EXCEPT !.at = "opened"])
  /\ UNCHANGED <<sol, rollouts, kills>>

WriteManifest(s) ==
  /\ Working(s, "opened")
  /\ dirs' = [dirs EXCEPT ![s][job[s].slot].manifest = "whole",
                          ![s][job[s].slot].says = job[s].want]
  /\ Set(s, Idle)
  /\ UNCHANGED <<sol, rollouts, kills>>

Kill(s) ==
  /\ job[s].at # "idle" /\ kills < MaxKills
  /\ kills' = kills + 1 /\ Set(s, Idle)
  /\ UNCHANGED <<sol, rollouts, dirs>>

Step(s) ==
  \/ Resolve(s) \/ Return(s) \/ MakeDir(s) \/ Replace(s)
  \/ OpenManifest(s) \/ WriteManifest(s) \/ Kill(s)

Next ==
  \/ \E l \in Lanes :
       \/ Mine(l) \/ Record(l)
       \/ \E line \in Lines[l] : Sample(l, line)
  \/ \E d \in Slots : ReadBundle(d) \/ LoadAnchors(d)
  \/ MakeRegenBundle \/ MakeAnchorBundle
  \/ LoadRollouts \/ HashRollouts \/ BuildHinted \/ BuildBoth \/ Refuse
  \/ \E s \in Stages : Step(s)

Spec == Init /\ [][Next]_vars
-----------------------------------------------------------------------------
\* A directory shows what its manifest and its file agree on.
Shown ==
  [x \in Stages \X Slots |->
     IF IsComplete(x[1], x[2]) THEN dirs[x[1]][x[2]].says ELSE NoRows]

P == INSTANCE Publish WITH Dir <- Stages \X Slots, Nothing <- NoRows, shown <- Shown

\* Whatever is killed and run again, a complete publication is never touched.
ImplementsPublish == P!Spec

\* Every row of the lane is the first sample that verifies once n lines are
\* there, no record that has one is left out, and the answer is the solutions'.
RightIn(samples, r) == {i \in DOMAIN samples : i \in 0..(K - 1) /\ samples[i] = r.answer}
FirstVerified(l, v, rows, lines, n) ==
  /\ \A row \in rows : \E r \in Rows(l, v) :
       LET right == RightIn(Samples(lines, n, r.uid), r)
       IN /\ r.uid = row.uid /\ r.statement = row.statement
          /\ row.sample \in right /\ \A i \in right : row.sample <= i
  /\ \A r \in Rows(l, v) : r.uid \notin UidsIn(rows) =>
       (l = "hinted" /\ Tier(r.uid) = "none") \/ RightIn(Samples(lines, n, r.uid), r) = {}

\* A data set is what its manifest says: rows of the solutions it names, whose
\* bundle was made of the same version, first to verify among the samples that
\* were there when the rollouts were hashed or before, one per record over both
\* lanes, none from the eval side. A command opens the solutions once to hash them
\* and once to read them (v3.py:1890 and 1895, 2042 and 2053); they are one step
\* here, so solutions mined again between the two are not covered.
LaneRows(l, rows) == {row \in rows : row.lane = l}
AsSaid(said, rows, read) ==
  /\ said.bundle.sig.solutions = said.hinted.solutions
  /\ \A l \in DOMAIN said \cap Lanes : \E n \in 1..said[l].hashed :
       FirstVerified(l, said[l].solutions, LaneRows(l, rows), read[l], n)
  /\ \A row, other \in rows : row.uid = other.uid => row = other
  /\ \A row \in rows : row.statement \notin Leaky /\ row.uid \notin EvalUids
Accountable ==
  \A d \in Slots : IsComplete("dataset", d) =>
    AsSaid(dirs["dataset"][d].says.sig, dirs["dataset"][d].file, rollouts)

\* Why a complete publication is never touched: a command goes to work on a
\* directory without a whole manifest, and only the end of its own writes one.
IsCell(c) == c = [f \in {"made", "file", "manifest", "says"} |-> c[f]]
IsJob(j) == j = [f \in {"at", "draft", "want", "slot"} |-> j[f]]
Shapes ==
  /\ dirs = [s \in Stages |-> [d \in Slots |-> dirs[s][d]]]
  /\ job = [s \in Stages |-> job[s]]
  /\ \A s \in Stages : IsJob(job[s]) /\ job[s].slot \in Slots
  /\ \A s \in Stages : \A d \in Slots : IsCell(dirs[s][d])

WholeIsComplete(c) == c.manifest = "whole" => c.file = c.says.content /\ c.made = "yes"
Writing(j, c) ==
  /\ j.at \in {"resolved", "made", "placed", "opened"} => c.manifest # "whole"
  /\ j.at \in {"made", "placed", "opened"} => c.made = "yes"
  /\ j.at \in {"placed", "opened"} => c.file = j.want.content
IndInv ==
  /\ Shapes
  /\ \A s \in Stages : \A d \in Slots : WholeIsComplete(dirs[s][d])
  /\ \A s \in Stages : Writing(job[s], dirs[s][job[s].slot])

\* Why a data set is what its manifest says: what the command has read of a lane
\* are lines that are still there, of solutions that passed the guards, and what
\* it has built or published was right for as many lines as were hashed.
IsRead(l, r, lines) ==
  /\ r = [f \in {"solutions", "loaded", "hashed"} |-> r[f]]
  /\ r.solutions \in DOMAIN Solutions[l] /\ Member(l, Rows(l, r.solutions))
  /\ r.loaded \in 0..Len(lines) /\ r.hashed \in 0..Len(lines)
Fields(lanes) == lanes \cup {"bundle"} \cup {f \in {"reference"} : "anchor" \in lanes}
IsDraft(draft, lanes, read) ==
  /\ draft = [f \in Fields(lanes) |-> draft[f]]
  /\ SameSolutions(draft.bundle, draft.hinted.solutions)
  /\ \A l \in lanes : IsRead(l, draft[l], read[l])
Hashed(r) == r.loaded \in 1..r.hashed

IsRight(said, rows, read) ==
  /\ AsSaid(said, rows, read)
  /\ \A l \in DOMAIN said \cap Lanes : said[l].hashed \in 0..Len(read[l])
Building(j, read) ==
  /\ j.at \in {"bundle", "loaded", "hinted"} => IsDraft(j.draft, {"hinted"}, read)
  /\ j.at = "anchors" => IsDraft(j.draft, Lanes, read) /\ j.draft.anchor.loaded > 0
  /\ j.at = "loaded" => j.draft.hinted.loaded > 0
  /\ j.at \in {"hinted", "anchors"} => Hashed(j.draft.hinted)
  /\ j.at \in {"built", "resolved", "made", "placed", "opened"} =>
       IsRight(j.want.sig, j.want.content, read)
DataInv ==
  /\ \A l \in Lanes : rollouts[l] \in Seq(Lines[l]) /\ sol[l].file \in DOMAIN Solutions[l]
  /\ rollouts = [l \in Lanes |-> rollouts[l]] /\ sol = [l \in Lanes |-> sol[l]]
  /\ \A l \in Lanes : sol[l] = [f \in {"file", "recorded"} |-> sol[l][f]]
  /\ Building(job["dataset"], rollouts)
  /\ \A d \in Slots : dirs["dataset"][d].manifest = "whole" =>
       IsRight(dirs["dataset"][d].says.sig, dirs["dataset"][d].says.content, rollouts)
=============================================================================
