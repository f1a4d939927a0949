SPECIFICATION Spec
CONSTANTS
  u1 = u1
  u2 = u2
  u3 = u3
  u4 = u4
  p1 = p1
  p2 = p2
  p3 = p3
  f1 = f1
  f2 = f2
  base = base
  t1 = t1
  Uid = {u1, u2, u3, u4}
  Papers = {p1, p2, p3}
  NoPaper = NoPaper
  K = 2
  TierRows <- MCTierRows
  HeldPapers = {p2}
  Blank = {}
  Unscorable = {}
  Base = base
  Tuned = {t1}
  Solves <- MCSolves
  Endpoint <- MCEndpoint
  AllowCross = "no"
  Ruled = {u1, u4}
  Corpus = {u1, u2, u3}
  PaperOf <- MCPaperOf
  Statement <- MCStatement
  EvalPapers = {p2}
  Roster = {u4}
  Sources = {u4}
  SourceRows <- MCSourceRows
  Score <- MCScore
  Files = {f1, f2}
  Routed <- MCRouted
  Globbed = {f2}
  FirstPass <- MCFirstPass
  Verdicts = {"correct"}
  Policy = "capk"
  Cap = 2
  Rank <- MCRank
  MaxAppends = 1
  MaxKills = 1
INVARIANTS HeldOut Traced
CHECK_DEADLOCK FALSE
