SPECIFICATION Spec
CONSTANTS
    Record = {1, 2, 3, 4, 5}
    Question = {"q0", "q1", "q2"}
    QuestionOf <- MCQuestionOf
    PreLabeled = {1}
    Unscorable = {2}
    K = 2
    MaxConcurrent = 2
    None = None
    MaxTroubles = 2
INVARIANTS
    KillCost
    ScoreFromSamples
    ManifestTold
    NeverStuck
PROPERTIES
    ScoreKept
    IsPaidStage
CHECK_DEADLOCK FALSE
