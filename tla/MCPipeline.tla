----------------------------- MODULE MCPipeline -----------------------------
EXTENDS Pipeline

CONSTANTS r1, r2, r3, p1, c1, c2, c3
MCInput == <<r1, r2, r3>>
MCPaper == (r1 :> p1) @@ (r2 :> p1) @@ (r3 :> NoPaper)
=============================================================================
