------------------------------ MODULE MCPassK ------------------------------
(* Record 1 comes labelled, 2 is unscorable, 3 and 4 have one statement. *)
EXTENDS PassK

MCQuestionOf == [r \in Record |-> IF r < 3 THEN "q0" ELSE IF r < 5 THEN "q1" ELSE "q2"]

=============================================================================
