SPECIFICATION Spec
CONSTANTS
  Paper <- MCPaper
  Listing <- MCListing
  Title <- MCTitle
  InScope <- MCInScope
  Exclude <- MCExclude
  Thm <- MCThm
  Key <- MCKey
  NoStatement = {"f"}
  BadField = {}
  Dangling = {"e"}
  Guard = "strict"
  Theorems <- MCTheorems
  Answered = {"a", "c", "d", "e", "f", "g"}
  Members <- MCMembers
  Absent = {4}
  NoTheorem = "none"
  OaiPages = 2
  Fixture <- MCFixture
  Jobs <- MCJobs
  PapersPerRecord = 1
  CandidatesPerPaper = 1
  PerPage = 5
  Safety = 2
  Target = 5
  MaxPapers = 5
  MaxPerPaper = 2
  Budget = 11
  PageSize = 4
  PageFloor = 2
  CleanStreak = 3
  MaxPages = 5
  MaxKills = 1
  MaxPauses = 1
  MaxFaults = 1
INVARIANTS AsUninterrupted NeverOnTheFloor PaidOnce BilledOnce ChunksGone
PROPERTY Converges
