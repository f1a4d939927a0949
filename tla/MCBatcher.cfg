SPECIFICATION Spec
CONSTANTS
    a = a
    aEdited = aEdited
    aSpaced = aSpaced
    b = b
    c = c
    d = d
    e = e
    Malformed = Malformed
    Corrupt = Corrupt
    CampaignSource = CampaignSource
    WatchSource = WatchSource
    Row <- MCRow
    Statement <- MCStatement
    NormalForm <- MCNormalForm
    StatementOf <- MCStatementOf
    KeyOf <- MCKeyOf
    History <- MCHistory
    Journals <- MCJournals
    WatchJournals <- MCWatchJournals
    SliceSize = 2
    Policy = "skip"
    FirstBatch = 2
    MaxBatch = 3
    MaxCrashes = 1
INVARIANTS NoDuplicate Settled LedgerBeforeCursor OneInFlight IndInv
PROPERTIES StageOrder RefinesQueue
