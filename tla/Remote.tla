------------------------------- MODULE Remote -------------------------------
(* run_remote_train.sh on the rented box: one adapter is trained, converted, *)
(* hashed and published for each seed of the run configuration. The loop may *)
(* be killed before any step and is then run again; files may be copied to   *)
(* the box while it runs, and the base weights may be provisioned anew       *)
(* between two runs. The manifest it leaves is later compared with that of   *)
(* another run.                                                              *)
EXTENDS Trainer, Naturals, Sequences, FiniteSets, SequencesExt

CONSTANTS
  Seed,
  Versions,   \* [data, config, receipt |-> what copies bring]: a config is
              \* [scheme, source, seeds], a receipt [data]
  Bases,      \* directories of base weights: [scheme, source]
  Null,       \* a key with the value null
  Others,     \* manifests of other runs: sets of entries
  SmokeSeed,
  MaxKills, MaxChanges

ASSUME SmokeAssumption == SmokeSeed \notin Seed
ASSUME VersionsAssumption == \A config \in Versions.config : config.seeds \in Seq(Seed)
ASSUME BoundsAssumption == MaxKills \in Nat /\ MaxChanges \in Nat
\* VALID_BASE_SCHEMES, and what a directory of base weights may be.
ASSUME KindsAssumption ==
  /\ \A config \in Versions.config : config.scheme \in {Absent, Dequant, Fp16}
  /\ \A b \in Bases : b.scheme \in {Dequant, Fp16}

VARIABLES
  box,      \* [data, config, receipt]
  base,     \* the directory of base weights
  loop,     \* [at, seeds, todo, config]
  adapter,  \* [Seed -> [n, base, whole] or Absent]; each training brings another n
  tmp,      \* [Seed -> what was converted, Torn or Absent]
  lines,    \* artifact_shas.txt: {<<seed, what was hashed>>}
  final,    \* [Seed -> the published file, or Absent]
  manifest, \* {[seed, scheme, source, smoke, base]}; base is what was loaded
  told,     \* the seeds of the loop that status.json calls done, or Absent
  kills, changes

Adapters == [n : {0, 1}, base : Bases, whole : BOOLEAN]
ASSUME AbsentAssumption == Absent \notin Adapters

vars == <<box, base, loop, adapter, tmp, lines, final, manifest, told, kills, changes>>
artifacts == <<adapter, tmp, lines, final, manifest>>

Off == [at |-> "off", seeds |-> <<>>, todo |-> <<>>, config |-> Absent]

Init ==
  /\ box \in {[data |-> d, config |-> c, receipt |-> r] :
                d \in Versions.data, c \in Versions.config, r \in Versions.receipt}
  /\ base \in Bases
  /\ loop = Off
  /\ adapter = [s \in Seed |-> Absent]
  /\ tmp = [s \in Seed |-> Absent]
  /\ lines = {}
  /\ final = [s \in Seed |-> Absent]
  /\ manifest = {}
  /\ told = Absent
  /\ kills = 0 /\ changes = 0
-----------------------------------------------------------------------------
(* The operator. *)

Change == changes < MaxChanges /\ changes' = changes + 1

\* A copy cuts a file first and completes it later.
Arrive(file, version) ==
  /\ Change /\ version \in Versions[file] \cup {Torn}
  /\ box' = [box EXCEPT ![file] = version]
  /\ UNCHANGED <<base, loop, artifacts, told, kills>>

Provision(b) ==
  /\ Change /\ loop.at = "off" /\ b # base
  /\ base' = b
  /\ UNCHANGED <<box, loop, artifacts, told, kills>>

Replaced(entries, entry) == {e \in entries : e.seed # entry.seed} \cup {entry}

\* The trainer with --smoke needs no file of the box.
Smoke ==
  /\ loop.at = "off"
  /\ manifest' = Replaced(manifest, [seed |-> SmokeSeed, scheme |-> Absent, source |-> Absent,
                                     smoke |-> TRUE, base |-> base])
  /\ UNCHANGED <<box, base, loop, adapter, tmp, lines, final, told, kills, changes>>

Kill ==
  /\ loop.at # "off" /\ kills < MaxKills
  /\ kills' = kills + 1 /\ loop' = Off
  /\ UNCHANGED <<box, base, artifacts, told, changes>>
-----------------------------------------------------------------------------
(* The loop. set -e: a command that fails ends it. *)

At(step) == loop.at = step
Goto(step) == loop' = [loop EXCEPT !.at = step]
s0 == Head(loop.todo)
Rest == UNCHANGED <<box, base, kills, changes>>

EntryIsThere(s) == \E e \in manifest : e.seed = s
IsDone(s) ==
  EntryIsThere(s) /\ final[s] # Absent /\ \E line \in lines : line[1] = s

Start ==
  /\ At("off") /\ IsWhole(box.config)
  /\ loop' = [at |-> "pick", seeds |-> box.config.seeds, todo |-> box.config.seeds, config |-> Absent]
  /\ Rest /\ UNCHANGED <<artifacts, told>>

Skip ==
  /\ At("pick") /\ loop.todo # <<>> /\ IsDone(s0)
  /\ loop' = [loop EXCEPT !.todo = Tail(@)]
  /\ told' = Absent
  /\ Rest /\ UNCHANGED artifacts

Train ==
  /\ At("pick") /\ loop.todo # <<>> /\ ~IsDone(s0)
  /\ Goto("check") /\ told' = Absent
  /\ Rest /\ UNCHANGED artifacts

VerifyReceipt ==
  /\ At("check")
  /\ IF ReceiptHolds(box) THEN Goto("load") ELSE loop' = Off
  /\ Rest /\ UNCHANGED <<artifacts, told>>

\* The configuration and the rows are read, the directory is compared.
Load ==
  /\ At("load")
  /\ IF IsWhole(box.data) /\ IsWhole(box.config) /\ BaseFits(box.config, base)
     THEN loop' = [loop EXCEPT !.at = "loaded", !.config = box.config]
     ELSE loop' = Off
  /\ Rest /\ UNCHANGED <<artifacts, told>>

SaveBegins ==
  /\ At("loaded") /\ Goto("saving")
  /\ adapter' = [adapter EXCEPT ![s0] =
       [n |-> IF @ = Absent THEN 0 ELSE 1 - @.n, base |-> base, whole |-> FALSE]]
  /\ Rest /\ UNCHANGED <<tmp, lines, final, manifest, told>>

SaveEnds ==
  /\ At("saving") /\ Goto("saved")
  /\ adapter' = [adapter EXCEPT ![s0].whole = TRUE]
  /\ Rest /\ UNCHANGED <<tmp, lines, final, manifest, told>>

AppendManifest ==
  LET source == loop.config.source IN
  /\ At("saved") /\ Goto("trained")
  /\ manifest' = Replaced(manifest,
       [seed |-> s0, scheme |-> SchemeOf(loop.config),
        source |-> IF source = Absent THEN Null ELSE source,
        smoke |-> FALSE, base |-> adapter[s0].base])
  /\ Rest /\ UNCHANGED <<adapter, tmp, lines, final, told>>

ConvertBegins ==
  /\ At("trained") /\ Goto("converting")
  /\ tmp' = [tmp EXCEPT ![s0] = Torn]
  /\ Rest /\ UNCHANGED <<adapter, lines, final, manifest, told>>

ConvertEnds ==
  /\ At("converting") /\ Goto("converted")
  /\ tmp' = [tmp EXCEPT ![s0] = adapter[s0]]
  /\ Rest /\ UNCHANGED <<adapter, lines, final, manifest, told>>

Emptied(shas, s) == {}
Without(shas, s) == {line \in shas : line[1] # s}

\* The file that was converted is hashed; a line of an earlier try is removed.
Strip ==
  /\ At("converted") /\ Goto("stripped")
  /\ lines' = Without(lines, s0)
  /\ Rest /\ UNCHANGED <<adapter, tmp, final, manifest, told>>

Record ==
  /\ At("stripped") /\ Goto("lined")
  /\ lines' = lines \cup {<<s0, tmp[s0]>>}
  /\ Rest /\ UNCHANGED <<adapter, tmp, final, manifest, told>>

Move ==
  /\ At("lined")
  /\ final' = [final EXCEPT ![s0] = tmp[s0]]
  /\ tmp' = [tmp EXCEPT ![s0] = Absent]
  /\ loop' = [loop EXCEPT !.at = "pick", !.todo = Tail(@), !.config = Absent]
  /\ Rest /\ UNCHANGED <<adapter, lines, manifest, told>>

WriteDone ==
  /\ At("pick") /\ loop.todo = <<>>
  /\ told' = loop.seeds /\ loop' = Off
  /\ Rest /\ UNCHANGED artifacts

Loop ==
  \/ Start \/ Skip \/ Train \/ VerifyReceipt \/ Load \/ SaveBegins \/ SaveEnds \/ AppendManifest
  \/ ConvertBegins \/ ConvertEnds \/ Strip \/ Record \/ Move \/ WriteDone

Operator ==
  \/ \E file \in DOMAIN box : \E version \in Versions[file] \cup {Torn} : Arrive(file, version)
  \/ (\E b \in Bases : Provision(b)) \/ Smoke \/ Kill

Next == Loop \/ Operator

Spec == Init /\ [][Next]_vars /\ WF_vars(Loop)
-----------------------------------------------------------------------------
(* --compare-runs: the schemes two manifests name. *)

Ambiguous == "ambiguous"

RealEntries(entries) == {e \in entries : ~(e.smoke /\ e.scheme = Absent)}
SchemesOf(entries) == {e.scheme : e \in RealEntries(entries)}
SourcesOf(entries) == {e.source : e \in RealEntries(entries)} \ {Absent}

AnyScheme(entries) ==
  LET named == SchemesOf(entries) \ {Absent} IN
  IF named = {} THEN Absent ELSE CHOOSE scheme \in named : TRUE
\* An entry without a scheme beside one that has one, or two schemes.
ExtractScheme(entries) ==
  IF SchemesOf(entries) \subseteq {Absent} THEN Absent
  ELSE IF Cardinality(SchemesOf(entries)) > 1 THEN Ambiguous
  ELSE CHOOSE scheme \in SchemesOf(entries) : TRUE
ExtractSource(entries) ==
  IF SourcesOf(entries) \subseteq {Null} THEN Null
  ELSE IF Cardinality(SourcesOf(entries)) > 1 THEN Ambiguous
  ELSE CHOOSE source \in SourcesOf(entries) : TRUE

Resolved(scheme) == IF scheme = Absent THEN Fp16 ELSE scheme

\* What an entry says of the weights it was trained on is true, a source only of
\* dequantized ones: of the entries of this box an invariant, of the other
\* manifests, left by the same trainer or by one from before base_scheme, given.
Honest(e) ==
  /\ e.base.scheme = Resolved(e.scheme)
  /\ e.scheme = Dequant => e.source \in {Null, Absent, e.base.source}
AllHonest(entries) == IsFiniteSet(entries) /\ \A e \in RealEntries(entries) : Honest(e)

ASSUME OthersAssumption == \A other \in Others : AllHonest(other)

\* Without --allow-cross-scheme.
SameBaseScheme(a, b) ==
  /\ Ambiguous \notin {ExtractScheme(a), ExtractScheme(b), ExtractSource(a), ExtractSource(b)}
  /\ Resolved(ExtractScheme(a)) = Resolved(ExtractScheme(b))
  /\ Null \in {ExtractSource(a), ExtractSource(b)} \/ ExtractSource(a) = ExtractSource(b)
-----------------------------------------------------------------------------
(* Properties. *)

Published(s) ==
  /\ final[s] # Absent /\ final[s] = adapter[s] /\ final[s].whole
  /\ {line \in lines : line[1] = s} = {<<s, final[s]>>}

\* "the sha line existing implies a COMPLETE, non-partial file was hashed
\* before the final name ever appeared": a seed that a rerun would skip has the
\* whole conversion of its adapter under the final name and its one line, and
\* a status of done is true of every seed of the loop, after any kills.
DoneIsWhole ==
  /\ \A s \in Seed : IsDone(s) => Published(s)
  /\ told # Absent => \A s \in ToSet(told) : Published(s)

\* "runs from different base schemes/sources must never be silently compared":
\* when two manifests match, every adapter of both was trained on one kind of
\* base weights, and where both name it from one quantized file, whichever
\* configurations, base directories and smoke runs came between two seeds.
Comparable ==
  \A other \in Others : SameBaseScheme(manifest, other) =>
    \A mine \in RealEntries(manifest), theirs \in RealEntries(other) :
      /\ mine.base.scheme = theirs.base.scheme
      /\ mine.scheme = Dequant /\ {mine.source, theirs.source} \cap {Null, Absent} = {} =>
           mine.base.source = theirs.base.source

Consistent == ReceiptHolds(box) /\ IsWhole(box.config) /\ BaseFits(box.config, base)

\* "Crash-safe by re-run": once the files and the base stay consistent, a loop
\* that is killed at most MaxKills times and run again publishes every seed.
Finishes ==
  <>[]Consistent =>
    <>(Consistent /\ told # Absent /\ \A s \in ToSet(box.config.seeds) : Published(s))

\* Why: what was published once has its entry and its line for good, so that
\* no rerun works on it again, and the seed in work is not published.
Steps == {"check", "load", "loaded", "saving", "saved", "trained", "converting", "converted",
          "stripped", "lined"}
TypeOK ==
  /\ box \in [data : Versions.data \cup {Torn}, config : Versions.config \cup {Torn},
             receipt : Versions.receipt \cup {Torn}]
  /\ base \in Bases
  /\ loop \in [at : Steps \cup {"off", "pick"}, seeds : Seq(Seed), todo : Seq(Seed),
              config : Versions.config \cup {Absent}]
  /\ adapter \in [Seed -> Adapters \cup {Absent}]
  /\ tmp \in [Seed -> Adapters \cup {Absent, Torn}]
  /\ final \in [Seed -> Adapters \cup {Absent}]
  /\ told \in Seq(Seed) \cup {Absent}

LineOf(s) == {line \in lines : line[1] = s}
InWork(s) ==
  /\ final[s] = Absent
  /\ loop.at \in {"saving", "saved", "trained", "converting", "converted", "stripped", "lined"} =>
       adapter[s] # Absent
  /\ loop.at \in {"saved", "trained", "converting", "converted", "stripped", "lined"} =>
       adapter[s].whole
  /\ loop.at \in {"trained", "converting", "converted", "stripped", "lined"} => EntryIsThere(s)
  /\ loop.at \in {"converted", "stripped", "lined"} => tmp[s] = adapter[s]
  /\ loop.at = "stripped" => LineOf(s) = {}
  /\ loop.at = "lined" => LineOf(s) = {<<s, tmp[s]>>}

IndInv ==
  /\ TypeOK
  /\ \A s \in Seed : final[s] # Absent => Published(s) /\ EntryIsThere(s)
  /\ loop.at \in Steps => loop.todo # <<>> /\ InWork(s0)
  /\ loop.at # "off" =>
       \A s \in ToSet(loop.seeds) : s \in ToSet(loop.todo) \/ final[s] # Absent
  /\ told # Absent => \A s \in ToSet(told) : final[s] # Absent

\* Why manifests can be compared: from the check of the directory until the entry
\* is written, configuration, directory and adapter agree.
BaseInv ==
  /\ AllHonest(manifest)
  /\ loop.at \in {"loaded", "saving", "saved"} =>
       loop.config \in Versions.config /\ BaseFits(loop.config, base)
  /\ loop.at \in {"saving", "saved"} => adapter[s0].base = base
=============================================================================
