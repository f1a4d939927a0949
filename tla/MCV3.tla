------------------------------- MODULE MCV3 -------------------------------
EXTENDS V3, TLC

CONSTANTS u1, u2, u3, p1, p2

Row(u, s, a, p) == [uid |-> u, statement |-> s, answer |-> a, paper |-> p]
Line(u, i, o) == [uid |-> u, sample |-> i, output |-> o]

\* Mined again, u1 has another answer and u2 a statement that contains one of
\* the eval set; u2 is among the anchors too, and u3 is of the eval side.
MCSolutions ==
  ("hinted" :> <<[split |-> "v3", rows |-> <<Row(u1, "s1", "a", p1), Row(u2, "s2", "a", p1)>>],
                 [split |-> "v3", rows |-> <<Row(u1, "s1", "b", p1), Row(u2, "leak", "a", p1)>>]>>) @@
  ("anchor" :> <<[split |-> "v3", rows |-> <<Row(u2, "s2", "a", p2), Row(u3, "s3", "a", p2)>>],
                 [split |-> "v3", rows |-> <<Row(u2, "s2", "a", p2)>>]>>)
MCPool == u2 :> "misdirection"
MCLines ==
  ("hinted" :> {Line(u1, 0, "b"), Line(u1, 1, "b"), Line(u2, 0, "a")}) @@
  ("anchor" :> {Line(u2, 0, "a")})
MCMaxLines == ("hinted" :> 2) @@ ("anchor" :> 1)
=============================================================================
