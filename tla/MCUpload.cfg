SPECIFICATION UploadSpec
CONSTANTS
  good = good
  plain = plain
  leaky = leaky
  gguf = gguf
  revision = revision
  none = none
  Absent = none
  Torn = Torn
  Dequant = "dequant"
  Fp16 = "fp16"
  Dataset = {good, plain, leaky}
  Rows <- MCRows
  Corpus <- MCCorpus
  PinnedCorpus = "corpus"
  TrainSide = {"t"}
  EvalUids = {"e"}
  EvalPapers = {"ep"}
  EvalSetUids = {"a"}
  EvalSetPapers = {"sp"}
  Identity <- MCIdentity
  SeedLists <- MCSeedLists
  SourceOf <- MCSourceOf
INVARIANT TrainedClean
CHECK_DEADLOCK FALSE
