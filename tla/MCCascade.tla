----------------------------- MODULE MCCascade -----------------------------
EXTENDS Cascade

CONSTANTS r1, r2, r3
MCInput == <<r1, r2, r3>>
MCClass == (r1 :> "plain") @@ (r2 :> "dangling") @@ (r3 :> "bare")
MCStages == <<[build |-> "codex", advisory |-> "no"], [build |-> "claude", advisory |-> "yes"]>>
MCAnswers == {[verdict |-> "pass", ic |-> "no"], [verdict |-> "error", ic |-> "yes"]}
=============================================================================
