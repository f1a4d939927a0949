SPECIFICATION WeightsSpec
CONSTANTS
  pin = pin
  other = other
  odd = odd
  none = none
  spoilt = spoilt
  t0 = t0
  t1 = t1
  t2 = t2
  File = {pin, other, odd}
  Header <- MCHeader
  Pin = pin
  HfName <- MCHfName
  Names = 3
  Total = 3
  ShardMax = 3
  Field = {"heads", "eos", "act", "context"}
  Exempt = {"context"}
  Optional = {"eos"}
  Default <- MCDefault
  Sidecar <- MCSidecar
  Absent = none
  Model <- MCModel
  Alias = "base"
  Spoilt = spoilt
  Anchors = 2
  Modes = {"raw", "chat", "both"}
  Text <- MCText
  NoText = t0
  HfContext = "short"
  j1 = j1
  j2 = j2
  Conv = {j1, j2}
  MaxDamages = 1
SYMMETRY MCSymmetry
CONSTRAINT Apart
INVARIANTS ReceiptTrue GateTrue
PROPERTY OutStands
CHECK_DEADLOCK FALSE
