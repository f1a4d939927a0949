------------------------------ MODULE Publish ------------------------------
(* What a directory of published data promises: it shows nothing until it    *)
(* shows one complete publication, and that one for good.                    *)
CONSTANTS Dir, Nothing

VARIABLE shown    \* [Dir -> a publication, or Nothing]

Init == shown = [d \in Dir |-> Nothing]

Complete(d) ==
  /\ shown[d] = Nothing
  /\ shown'[d] # Nothing
  /\ shown' = [shown EXCEPT ![d] = shown'[d]]

Next == \E d \in Dir : Complete(d)

Spec == Init /\ [][Next]_shown
=============================================================================
