------------------------------ MODULE MCUpload ------------------------------
EXTENDS Upload, TLC

CONSTANTS good, plain, leaky, gguf, revision, none

MCRow(v3, uid, verified, tier) ==
  [v3 |-> v3, uid |-> uid, rollout |-> 1, verified |-> verified, tier |-> tier,
   paper |-> "p", hinted |-> FALSE]
\* The anchor of leaky is on the eval side of the v3 split and names a paper of
\* its own; so is the row of plain, which is not in the eval set. The anchor of
\* good is in the eval set, and not on the eval side of the v3 split.
MCRows ==
  (good :> <<MCRow(TRUE, "t", TRUE, "band"), MCRow(TRUE, "a", TRUE, "anchor")>>) @@
  (plain :> <<MCRow(FALSE, "e", TRUE, "band")>>) @@
  (leaky :> <<MCRow(TRUE, "t", TRUE, "band"), MCRow(TRUE, "e", TRUE, "anchor")>>)
MCCorpus == [d \in Dataset |-> "corpus"]
MCIdentity ==
  {[pass |-> TRUE, scheme |-> "dequant", verified |-> TRUE, source |-> gguf, manifest |-> "m"],
   [pass |-> TRUE, scheme |-> "dequant", verified |-> FALSE, source |-> gguf, manifest |-> "m"]}
MCSourceOf == [dequant |-> gguf, fp16 |-> revision]
MCSeedLists == {<<1, 2>>}
=============================================================================
