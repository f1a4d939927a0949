------------------------------ MODULE MCRemote ------------------------------
EXTENDS Remote, TLC

CONSTANTS d1, d2, gguf, older, revision, none, null

MCConfig(scheme, source) == [scheme |-> scheme, source |-> source, seeds |-> <<1, 2>>]
MCVersions ==
  [data |-> {d1, d2}, receipt |-> {[data |-> d1]},
   config |-> {MCConfig("dequant", gguf), MCConfig("fp16", revision)}]
MCBases == {[scheme |-> "fp16", source |-> revision], [scheme |-> "dequant", source |-> gguf],
            [scheme |-> "dequant", source |-> older]}
MCEntry(seed, scheme, source, b) ==
  [seed |-> seed, scheme |-> scheme, source |-> source, smoke |-> FALSE, base |-> b]
\* A run of the quantized file, one from before base_scheme, and a mixed one.
MCOthers ==
  LET new == MCEntry(1, "dequant", gguf, [scheme |-> "dequant", source |-> gguf])
      old == MCEntry(2, none, none, [scheme |-> "fp16", source |-> revision])
  IN {{new}, {old}, {new, old}}
=============================================================================
