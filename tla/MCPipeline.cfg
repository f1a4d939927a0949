SPECIFICATION PipelineSpec
CONSTANTS
  r1 = r1
  r2 = r2
  r3 = r3
  p1 = p1
  NoPaper = NoPaper
  c1 = c1
  c2 = c2
  c3 = c3
  Input <- MCInput
  Paper <- MCPaper
  Computed = {}
  Fleet = {c1, c2, c3}
  Target = c1
  Samples = 2
  Uphold = 2
  Verdicts = {"well_posed", "ill_posed"}
  Scores = {"band", "drop"}
  MaxReruns = 1
  MaxPauses = 1
INVARIANT FinalEarned
PROPERTY VerdictStands
CHECK_DEADLOCK FALSE
