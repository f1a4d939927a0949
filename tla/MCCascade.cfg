SPECIFICATION FairSpec
CONSTANTS
  r1 = r1
  r2 = r2
  r3 = r3
  Input <- MCInput
  Class <- MCClass
  Stages <- MCStages
  Samples = 2
  Uphold = 1
  Retries = 1
  Tier = "judge"
  Policy = "always"
  Answers <- MCAnswers
  MaxKills = 1
  MaxCrashes = 1
INVARIANTS FailClosed RepliesKept
PROPERTY Finishes
CHECK_DEADLOCK FALSE
