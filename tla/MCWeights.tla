----------------------------- MODULE MCWeights -----------------------------
EXTENDS Weights, TLC

CONSTANTS pin, other, odd, none, spoilt, t0, t1, t2, j1, j2

\* Three tensors; the last does not fit into the shard of the others.
MCTensors(type) == ("embed" :> [type |-> "Q6_K", size |-> 1]) @@
                   ("q" :> [type |-> type, size |-> 1]) @@
                   ("norm" :> [type |-> "F32", size |-> 2])
MCFields(heads) == [heads |-> heads, eos |-> none, act |-> "silu", context |-> "long"]
MCHead(type, heads) ==
  [arch |-> "qwen3", complete |-> TRUE, window |-> FALSE, tensors |-> MCTensors(type),
   fields |-> MCFields(heads), tokens |-> "t"]
MCHeader == (pin :> MCHead("Q4_K", 2)) @@ (other :> MCHead("Q4_K", 4)) @@ (odd :> MCHead("Q8_0", 2))
MCHfName == ("embed" :> 1) @@ ("q" :> 3) @@ ("norm" :> 2)
MCDefault == [act |-> "silu"]
MCSymmetry == Permutations({j1, j2})
\* The configurations of the two files.
MCSidecar == {[config |-> [heads |-> h, eos |-> 7, act |-> none, context |-> "short"], tokens |-> "t"]
                : h \in {2, 4}}
MCModel == {[alias |-> "base", weights |-> pin], [alias |-> "lora", weights |-> other]}
\* The damaged weights differ on the second prompt only.
MCText == (pin :> <<t1, t2>>) @@ (other :> <<t2, t1>>) @@ (odd :> <<t0, t0>>) @@ (spoilt :> <<t1, t1>>)

\* Bound (state constraint): a configuration is compared and the gate runs while
\* no conversion does, and two conversions run at once before the first receipt.
Busy == {j \in Conv : conv[j].at # "idle"}
Apart ==
  /\ check # Absent \/ gate # NoGate \/ gateReport # Absent => Busy = {}
  /\ receipt # Absent => Cardinality(Busy) < 2
=============================================================================
