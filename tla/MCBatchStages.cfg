SPECIFICATION Spec
CONSTANTS
    NoRun = NoRun
    NoPid = NoPid
    Pid <- MCPid
    Run <- MCRun
    MaxAttempts = 3
    MaxCrashes = 2
    MaxForeign = 1
INVARIANTS StageEvidence KillResumes
PROPERTIES CascadeNotRepaid PassKNotRepeated Finishes
\* One batch: when it is READY or FROZEN and its processes are gone, nothing is left to do.
CHECK_DEADLOCK FALSE
