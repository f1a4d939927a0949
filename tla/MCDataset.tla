----------------------------- MODULE MCDataset -----------------------------
EXTENDS Dataset, TLC

CONSTANTS u1, u2, u3, u4, p1, p2, p3, f1, f2, base, t1

Row(u, p, label, right) == [uid |-> u, paper |-> p, label |-> label, right |-> right]

\* u3 has no arXiv id in the first tier and one of an eval paper in the second.
MCTierRows ==
  <<<<Row(u1, p1, "band", 1), Row(u2, p2, "band", 1), Row(u3, NoPaper, "band", 1)>>,
    <<Row(u3, p2, "band", 1), Row(u1, p1, "solved", 2)>>>>
MCPaperOf == (u1 :> p1) @@ (u2 :> p2) @@ (u3 :> p3) @@ (u4 :> p3)
MCStatement == [u \in Uid |-> u]
MCScore == [u \in Uid |-> <<1, 1, 0>>]
MCRouted == (u1 :> f1) @@ (u2 :> f1) @@ (u3 :> f1) @@ (u4 :> f2)
MCSourceRows == [u \in Uid |-> IF u = u4 THEN <<[label |-> "solved", right |-> 1]>> ELSE <<>>]
Pass(s1, s2, s3, s4) == (u1 :> s1) @@ (u2 :> s2) @@ (u3 :> s3) @@ (u4 :> s4)
MCFirstPass ==
  (f1 :> Pass(<<"correct", "wrong">>, <<>>, <<"wrong", "wrong">>, <<>>)) @@
  (f2 :> Pass(<<>>, <<>>, <<"correct", "wrong">>, <<"wrong", "correct">>))
MCRank == [u \in Uid |-> <<2, 1>>]
MCSolves == (base :> {u2}) @@ (t1 :> {u2, u3})
MCEndpoint == [x \in DOMAIN Solves |-> "local"]
=============================================================================
