------------------------------ MODULE Weights ------------------------------
(* The base weights. A quantized file is fetched and converted into a        *)
(* directory of full weights, a check of that directory leaves a receipt,    *)
(* and a gate compares what the directory generates with what a server of    *)
(* the quantized file generates. Conversions may run side by side and be     *)
(* killed, the file may be fetched again, the directory may be damaged, and  *)
(* the server may be restarted with another model.                           *)
EXTENDS Naturals, Sequences, FiniteSets, SequencesExt

CONSTANTS
  File,       \* versions of the quantized file
  Header,     \* [File -> [arch, complete, window, tensors: [name -> [type, size]],
              \*   fields: [Field -> value], tokens]]
  Pin,        \* EXPECTED_BASE_GGUF_SHA256
  HfName,     \* [tensor name with a role -> its name in the directory], a name
  Names,      \*   being its place in the order of all names, 1..Names
  Total,      \* EXPECTED_DEQUANT_TENSOR_TOTAL
  ShardMax,
  Field, Exempt, Optional, Default, \* of the configuration; Default is a function
  Sidecar,    \* the sidecar directories: [config: [Field -> value], tokens]
  Absent,     \* no value, no file, no directory
  Model,      \* what a server may serve: {[alias, weights]}
  Alias,      \* the alias the gate expects
  Spoilt,     \* the weights of a damaged directory
  Anchors,    \* the number of prompts
  Modes,      \* of VALID_MODES, those the gate is run with
  Text,       \* [File \cup {Spoilt, ..} -> [1..Anchors -> the text generated]]
  NoText,     \* the empty text
  HfContext,  \* HF_PINNED_MAX_POSITION_EMBEDDINGS
  Conv, MaxDamages

ASSUME PinnedFile == Pin \in File /\ Absent \notin File
ASSUME ShardAssumption == ShardMax \in Nat \ {0}
ASSUME NamesAssumption == Names \in Nat /\ HfName \in [DOMAIN HfName -> 1..Names]
ASSUME FieldAssumption == Exempt \cup Optional \cup DOMAIN Default \subseteq Field
ASSUME ModesAssumption == Modes \subseteq {"raw", "chat", "both"} /\ Anchors \in Nat
\* The operator serves the pinned file alone under this alias (RUNBOOK.md:202); the
\* gate checks the alias of each answer, which is all that it can see.
ASSUME AliasAssumption == \A m \in Model : m.alias = Alias => m.weights = Pin

VARIABLES
  gguf,       \* the version at the path of the file
  out,        \* the directory, or Absent
  conv,       \* [Conv -> [at, sha, expected, read, sidecar, raced, tmp]]
  receipt,    \* the last receipt: [scheme, verified, of], or Absent
  check,      \* what a check against a configuration has compared: the
              \*   configuration, and if the file was exchanged since; or Absent
  gate,       \* [at, mode, model, calls, results]
  gateReport, \* of the last run of the gate: [verdict, mode, model], or Absent
  damages

weightsVars == <<gguf, out, conv, receipt, check, gate, gateReport, damages>>

NoManifest == [source |-> Absent, expected |-> Absent, total |-> 0, tensors |-> {}, shards |-> <<>>,
               index |-> Absent, config |-> Absent, tokens |-> Absent]
NewDir == [shards |-> <<>>, index |-> Absent, config |-> Absent, tokens |-> Absent,
           manifest |-> NoManifest, raced |-> FALSE]
NoJob == [at |-> "idle", sha |-> Absent, expected |-> Absent, read |-> Absent,
          sidecar |-> Absent, raced |-> FALSE, tmp |-> Absent]
NoGate == [at |-> "off", mode |-> "raw", model |-> Absent, calls |-> <<>>, results |-> <<>>]

WeightsInit ==
  /\ gguf \in File
  /\ out = Absent
  /\ conv = [j \in Conv |-> NoJob]
  /\ receipt = Absent /\ check = Absent
  /\ gate = NoGate
  /\ gateReport = Absent
  /\ damages = 0

\* The file is fetched again; a reader that has it open keeps what it opened, and
\* one that opens it a second time gets the other file.
Fetch(g) ==
  /\ g # gguf /\ gguf' = g
  /\ conv' = [j \in Conv |-> IF conv[j].at = "hashed" THEN [conv[j] EXCEPT !.raced = TRUE]
                             ELSE conv[j]]
  /\ check' = IF check = Absent THEN Absent ELSE [check EXCEPT !.raced = TRUE]
  /\ UNCHANGED <<out, receipt, gate, gateReport, damages>>
-----------------------------------------------------------------------------
(* What a conversion requires of the file and of the sidecars. *)

Tensors(g) == Header[g].tensors
HfNames(g) == {HfName[n] : n \in DOMAIN Tensors(g)}

Mapped(g) ==
  /\ DOMAIN Tensors(g) \subseteq DOMAIN HfName
  /\ \A m, n \in DOMAIN Tensors(g) : HfName[m] = HfName[n] => m = n
Hparams(g) == Header[g].arch = "qwen3" /\ Header[g].complete
NoWindow(g) == ~Header[g].window
HasVocab(g) == "embed" \in DOMAIN Tensors(g)
Readable(g) == Hparams(g) /\ NoWindow(g) /\ Mapped(g) /\ HasVocab(g)

Reconstructed(g) == Header[g].fields
Effective(config, f) ==
  IF config[f] = Absent /\ f \in DOMAIN Default THEN Default[f] ELSE config[f]
Matches(f, mine, theirs) == mine = theirs
CrossValid(config, g) ==
  \A f \in Field \ Exempt :
    \/ f \in Optional /\ Reconstructed(g)[f] = Absent
    \/ Matches(f, Reconstructed(g)[f], Effective(config, f))
TokensFit(s, g) == Header[g].tokens # Absent /\ s.tokens \in {Absent, Header[g].tokens}
SidecarFits(s, g) == s # Absent => CrossValid(s.config, g) /\ TokensFit(s, g)

Dequantizes(g, n) == Tensors(g)[n].type \in {"F32", "Q4_K", "Q6_K"}
Dequantized(g, n) == [from |-> g, tensor |-> n]

Fits(g, names) ==
  LET size(h) == Tensors(g)[CHOOSE n \in DOMAIN Tensors(g) : HfName[n] = h].size
  IN FoldSet(LAMBDA h, sum : sum + size(h), 0, names) <= ShardMax

\* Names in order, a new shard where the next tensor no longer fits.
Pack(g, packed, n) ==
  LET last == packed[Len(packed)] IN
  IF n \notin HfNames(g) THEN packed
  ELSE IF last # {} /\ ~Fits(g, last \cup {n}) THEN Append(packed, {n})
  ELSE [packed EXCEPT ![Len(packed)] = last \cup {n}]

Shards ==
  [g \in File |->
    LET packed[n \in 0..Names] == IF n = 0 THEN <<{}>> ELSE Pack(g, packed[n - 1], n)
    IN packed[Names]]

InShard(g, i) == {n \in DOMAIN Tensors(g) : HfName[n] \in Shards[g][i]}
ShardOf(g, i) == {Dequantized(g, n) : n \in InShard(g, i)}
Index(g) == [h \in HfNames(g) |-> CHOOSE i \in DOMAIN Shards[g] : h \in Shards[g][i]]

\* A hash is the content it is of. The count of the census, the hash of each
\* tensor, and the hashes of all files but the manifest.
Manifest(job) ==
  [source |-> job.sha, expected |-> job.expected,
   total |-> Cardinality(DOMAIN Tensors(job.read)),
   tensors |-> UNION {job.tmp.shards[i] : i \in DOMAIN job.tmp.shards},
   shards |-> job.tmp.shards, index |-> job.tmp.index,
   config |-> job.tmp.config, tokens |-> job.tmp.tokens]
-----------------------------------------------------------------------------
(* A conversion writes into a directory of its own beside the destination    *)
(* and renames it at the end.                                                *)

At(j, at) == conv[j].at = at
SetConv(j, job) == conv' = [conv EXCEPT ![j] = job]
RestOfConv == UNCHANGED <<gguf, out, receipt, check, gate, gateReport, damages>>

\* Without a hash there is nothing to expect.
Hash(j, expected, skip) ==
  /\ At(j, "idle") /\ out = Absent
  /\ skip => expected = Absent
  /\ expected \in {Absent, gguf}
  /\ SetConv(j, [NoJob EXCEPT !.at = "hashed", !.sha = IF skip THEN Absent ELSE gguf,
                              !.expected = expected])
  /\ RestOfConv

Open(j, s) ==
  /\ At(j, "hashed") /\ Readable(gguf) /\ SidecarFits(s, gguf)
  /\ SetConv(j, [conv[j] EXCEPT !.at = "open", !.read = gguf, !.sidecar = s,
                                !.tmp = [NewDir EXCEPT !.raced = conv[j].raced]])
  /\ RestOfConv

Refuse(j) ==
  /\ At(j, "hashed")
  /\ ~Readable(gguf) \/ \E s \in Sidecar : ~SidecarFits(s, gguf)
  /\ SetConv(j, NoJob) /\ RestOfConv

WriteShard(j) ==
  LET i == Len(conv[j].tmp.shards) + 1 IN
  /\ At(j, "open") /\ i \in DOMAIN Shards[conv[j].read]
  /\ \A n \in InShard(conv[j].read, i) : Dequantizes(conv[j].read, n)
  /\ SetConv(j, [conv[j] EXCEPT !.tmp.shards = Append(@, ShardOf(conv[j].read, i))])
  /\ RestOfConv

\* The index, the configuration and the tokenizer.
WriteRest(j) ==
  LET s == conv[j].sidecar IN
  /\ At(j, "open") /\ Len(conv[j].tmp.shards) = Len(Shards[conv[j].read])
  /\ SetConv(j, [conv[j] EXCEPT !.at = "rest", !.tmp.index = Index(conv[j].read),
       !.tmp.config = IF s = Absent THEN Reconstructed(conv[j].read) ELSE s.config,
       !.tmp.tokens = IF s = Absent THEN Absent ELSE s.tokens])
  /\ RestOfConv

WriteDequantManifest(j) ==
  /\ At(j, "rest")
  /\ SetConv(j, [conv[j] EXCEPT !.at = "written", !.tmp.manifest = Manifest(conv[j])])
  /\ RestOfConv

NotFinished(j) == At(j, "rest")
Finished(j) == At(j, "written")

Replace(j) ==
  /\ Finished(j) /\ out = Absent
  /\ out' = conv[j].tmp
  /\ SetConv(j, NoJob)
  /\ UNCHANGED <<gguf, receipt, check, gate, gateReport, damages>>

\* An exception: a type it cannot dequantize, a destination that is there by
\* now. The directory of its own is removed.
Abort(j) ==
  /\ \/ LET i == Len(conv[j].tmp.shards) + 1 IN
        /\ At(j, "open") /\ i \in DOMAIN Shards[conv[j].read]
        /\ \E n \in InShard(conv[j].read, i) : ~Dequantizes(conv[j].read, n)
     \/ Finished(j) /\ out # Absent
  /\ SetConv(j, NoJob) /\ RestOfConv

KillConversion(j) ==
  /\ conv[j].at # "idle"
  /\ SetConv(j, NoJob) /\ RestOfConv
-----------------------------------------------------------------------------
(* The directory is checked against its manifest, the file and the pin.      *)

Compared == Field \ (Exempt \cup Optional \cup DOMAIN Default)

Damages(d) ==
  {[d EXCEPT !.shards = [i \in DOMAIN d.shards \ {lost} |-> d.shards[i]]] : lost \in DOMAIN d.shards}
    \cup {[d EXCEPT !.shards[i] = {}] : i \in DOMAIN d.shards}
    \cup {[d EXCEPT !.shards = [i \in DOMAIN d.shards \cup {0} |-> IF i = 0 THEN {} ELSE d.shards[i]]]}
    \cup {[d EXCEPT !.config[f] = Absent] : f \in Compared}

Damage ==
  /\ out # Absent /\ out.manifest # NoManifest /\ out.config # Absent
  /\ damages < MaxDamages /\ damages' = damages + 1
  /\ out' \in Damages(out) \ {out}
  /\ UNCHANGED <<gguf, conv, receipt, check, gate, gateReport>>

RehashNames(recorded, files) == DOMAIN recorded \subseteq DOMAIN files
Rehash(recorded, files) ==
  /\ DOMAIN recorded \subseteq DOMAIN files
  /\ \A i \in DOMAIN recorded : files[i] = recorded[i]
NoOrphan(recorded, files) == DOMAIN files \subseteq DOMAIN recorded
SourcePinned(m, skip) == m.source = Pin /\ (skip \/ gguf = m.source)
CensusHolds(m) == m.total = Total /\ Cardinality(m.tensors) = m.total

CheckDequantManifest(d, skip) ==
  LET m == d.manifest IN
  /\ m # NoManifest
  /\ SourcePinned(m, skip) /\ m.expected \in {Absent, Pin}
  /\ CensusHolds(m)
  /\ Rehash(m.shards, d.shards) /\ d.index = m.index
  /\ d.config = m.config /\ d.tokens = m.tokens
  /\ NoOrphan(m.shards, d.shards)
  /\ d.config # Absent

\* Nothing is written when a check fails: an older receipt stays.
Receive(scheme, skip, of) ==
  /\ receipt' = [scheme |-> scheme, verified |-> ~skip, of |-> of]
  /\ UNCHANGED <<gguf, out, conv, gate, gateReport, damages>>

VerifyDequant(skip) ==
  /\ out # Absent /\ CheckDequantManifest(out, skip)
  /\ Receive("dequant", skip, out) /\ UNCHANGED check

\* The other mode: the header of the file against a configuration and its
\* tokens, where both contexts are pinned to different values.
Compare(g, s) ==
  /\ Header[g].arch = "qwen3"
  /\ \A f \in Compared : Header[g].fields[f] # Absent /\ Header[g].fields[f] = s.config[f]
  /\ \A f \in Optional : Absent \in {Header[g].fields[f], s.config[f]} \/ Header[g].fields[f] = s.config[f]
  /\ \A f \in Exempt : Header[g].fields[f] = Header[Pin].fields[f] /\ s.config[f] = HfContext
  /\ Header[g].tokens # Absent /\ Header[g].tokens = s.tokens

\* The header is read and compared, then the file is opened again and hashed.
CompareFp16(s) ==
  /\ check = Absent /\ Compare(gguf, s)
  /\ check' = [config |-> s.config, tokens |-> s.tokens, raced |-> FALSE]
  /\ UNCHANGED <<gguf, out, conv, receipt, gate, gateReport, damages>>

\* Slip: the hash is recorded and not compared.
HashRecorded(skip) == TRUE
HashPinned(skip) == skip \/ gguf = Pin

VerifyFp16(skip) ==
  /\ check # Absent /\ HashPinned(skip)
  /\ Receive("fp16", skip, check) /\ check' = Absent

\* The hash is another one, or the process is killed.
AbandonFp16 ==
  /\ check # Absent /\ check' = Absent
  /\ UNCHANGED <<gguf, out, conv, receipt, gate, gateReport, damages>>
-----------------------------------------------------------------------------
(* The gate. The server may be restarted with another model between any two  *)
(* calls. A campaign that uses it is looked for before each call; a refused  *)
(* or failed call ends the run without a report (exit code 2).               *)

Data == [g \in File |-> {Dequantized(g, n) : n \in DOMAIN Tensors(g)}]
WeightsOf(d) ==
  LET data == UNION {d.shards[i] : i \in DOMAIN d.shards}
      whole == {g \in File : data = Data[g]}
  IN IF whole = {} THEN Spoilt ELSE CHOOSE g \in whole : TRUE

GateTakes(d) ==
  /\ d # Absent /\ d.manifest # NoManifest
  /\ d.manifest.source = Pin /\ d.manifest.expected \in {Absent, Pin}
  /\ d.config # Absent /\ d.tokens # Absent

Channels == [raw |-> <<"raw">>, chat |-> <<"chat">>, both |-> <<"raw", "chat">>]
\* Prompt by prompt, each over the channels of the mode.
CallsOf(mode) ==
  LET width == Len(Channels[mode])
  IN [i \in 1..(Anchors * width) |->
        [prompt |-> 1 + ((i - 1) \div width), channel |-> Channels[mode][1 + ((i - 1) % width)]]]

SetGate(g) == gate' = g
RestOfGate == UNCHANGED <<gguf, out, conv, receipt, check>>

StartGate(mode) ==
  /\ gate.at = "off" /\ GateTakes(out)
  /\ SetGate([NoGate EXCEPT !.at = "ready", !.mode = mode, !.calls = CallsOf(mode),
                            !.model = WeightsOf(out)])
  /\ gateReport' = Absent /\ RestOfGate /\ UNCHANGED damages

\* What a call brings: both texts, theirs from the model m that is served when
\* the server answers.
Call(m) ==
  LET c == Head(gate.calls)
      result == [channel |-> c.channel,
                 theirs |-> Text[m.weights][c.prompt], ours |-> Text[gate.model][c.prompt]]
  IN
  /\ gate.at = "ready" /\ gate.calls # <<>> /\ m.alias = Alias
  /\ SetGate([gate EXCEPT !.calls = Tail(@), !.results = Append(@, result)])
  /\ RestOfGate /\ UNCHANGED <<gateReport, damages>>

CallFails ==
  /\ gate.at = "ready" /\ gate.calls # <<>>
  /\ SetGate(NoGate)
  /\ RestOfGate /\ UNCHANGED <<gateReport, damages>>

Equal(result) == result.theirs = result.ours
Raw(results) == {results[i] : i \in {x \in DOMAIN results : results[x].channel = "raw"}}
SomeEqual(results) == Raw(results) = {} \/ \E r \in Raw(results) : Equal(r)
\* A run of the chat channel alone has no raw result that could differ.
AllEqual(results) == \A r \in Raw(results) : Equal(r)
SawText(results) ==
  \E i \in DOMAIN results : results[i].theirs # NoText \/ results[i].ours # NoText

Finish ==
  /\ gate.at = "ready" /\ gate.calls = <<>>
  /\ gateReport' = IF SawText(gate.results)
               THEN [verdict |-> IF AllEqual(gate.results) THEN "PASS" ELSE "FAIL",
                     mode |-> gate.mode, model |-> gate.model]
               ELSE gateReport
  /\ SetGate(NoGate) /\ RestOfGate /\ UNCHANGED damages
-----------------------------------------------------------------------------
Convert(j) ==
  \/ \E expected \in {Pin, Absent}, skip \in BOOLEAN : Hash(j, expected, skip)
  \/ \E s \in Sidecar \cup {Absent} : Open(j, s)
  \/ Refuse(j) \/ WriteShard(j) \/ WriteRest(j) \/ WriteDequantManifest(j)
  \/ Replace(j) \/ Abort(j) \/ KillConversion(j)

Gate ==
  \/ \E mode \in Modes : StartGate(mode)
  \/ (\E m \in Model : Call(m)) \/ CallFails \/ Finish

WeightsNext ==
  \/ \E g \in File : Fetch(g)
  \/ \E j \in Conv : Convert(j)
  \/ Damage
  \/ \E skip \in BOOLEAN : VerifyDequant(skip) \/ VerifyFp16(skip)
  \/ (\E s \in Sidecar : CompareFp16(s)) \/ AbandonFp16
  \/ Gate

WeightsSpec == WeightsInit /\ [][WeightsNext]_weightsVars
-----------------------------------------------------------------------------
(* Properties. *)

\* Every tensor of the file once, in the shard the index says, no shard larger
\* than it may be, and a configuration that says what the file says.
FaithfulTo(d, g) ==
  /\ WeightsOf(d) = g
  /\ DOMAIN d.index = HfNames(g)
  /\ \A n \in DOMAIN Tensors(g) : \A i \in DOMAIN d.shards :
       Dequantized(g, n) \in d.shards[i] <=> d.index[HfName[n]] = i
  /\ \A i \in DOMAIN d.shards :
       Cardinality(d.shards[i]) > 1 => Fits(g, {HfName[t.tensor] : t \in d.shards[i]})
  /\ \A f \in Field \ Exempt : Header[g].fields[f] \in {Absent, Effective(d.config, f)}

\* gguf_to_hf.convert "never writes a partial out_dir": however conversions
\* race, fail and are killed, the directory appears once, complete, and then
\* only damage changes it.
OutStands ==
  [][\/ out' = out \/ Damage
     \/ out = Absent /\ out'.manifest # NoManifest /\ \E g \in File : FaithfulTo(out', g)]_weightsVars

\* verify_base_identity: a receipt that says the source was verified is about
\* the weights of the pinned file, or about a configuration whose fields are
\* those of the pinned file, whatever was fetched, converted or damaged before.
\* Exempt are the two windows in which one program opens the file a second time:
\* a file exchanged after a conversion has hashed and before it has opened it, and
\* one exchanged after a check has compared the header and before it hashes. The
\* receipt of a configuration says nothing of the fields that may be absent.
ReceiptTrue ==
  receipt # Absent /\ receipt.verified /\ ~receipt.of.raced =>
    IF receipt.scheme = "dequant" THEN FaithfulTo(receipt.of, Pin)
    ELSE \A f \in Compared \cup Optional :
           Absent \in {Header[Pin].fields[f], receipt.of.config[f]}
             \/ Header[Pin].fields[f] = receipt.of.config[f]

\* verify_dequant_parity: a PASS of the raw channel is about weights that
\* generate on every prompt what the pinned file generates, whichever servers
\* came and went during the run.
GateTrue ==
  gateReport # Absent /\ gateReport.verdict = "PASS" /\ gateReport.mode # "chat" =>
    \A p \in 1..Anchors : Text[gateReport.model][p] = Text[Pin][p]
=============================================================================
