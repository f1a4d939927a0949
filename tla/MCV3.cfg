SPECIFICATION Spec
CONSTANTS
  u1 = u1
  u2 = u2
  u3 = u3
  p1 = p1
  p2 = p2
  Solutions <- MCSolutions
  AcceptedSplits = {"v3"}
  TrainUids = {u1, u2}
  EvalUids = {u3}
  EvalPapers = {}
  NoPaper = NoPaper
  EvalStatements = {}
  Leaky = {"leak"}
  Corpus = {u1}
  Pool <- MCPool
  K = 2
  Lines <- MCLines
  NoRows = NoRows
  MaxLines <- MCMaxLines
  MaxSlots = 2
  MaxKills = 1
INVARIANTS Accountable
PROPERTY ImplementsPublish
CHECK_DEADLOCK FALSE
