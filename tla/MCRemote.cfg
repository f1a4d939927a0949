SPECIFICATION Spec
CONSTANTS
  d1 = d1
  d2 = d2
  gguf = gguf
  older = older
  revision = revision
  none = none
  null = null
  Absent = none
  Torn = Torn
  Null = null
  Dequant = "dequant"
  Fp16 = "fp16"
  Seed = {1, 2}
  SmokeSeed = 0
  Versions <- MCVersions
  Bases <- MCBases
  Others <- MCOthers
  MaxKills = 2
  MaxChanges = 3
INVARIANTS DoneIsWhole Comparable
PROPERTY Finishes
CHECK_DEADLOCK FALSE
