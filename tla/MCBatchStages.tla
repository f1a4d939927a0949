--------------------------- MODULE MCBatchStages ---------------------------
(* Small instances of BatchStages for TLC: room for an orphan of every kill. *)
EXTENDS BatchStages

MCPid == 1..(MaxCrashes + 1)
MCRun == 1..(MaxCrashes + 1)

=============================================================================
