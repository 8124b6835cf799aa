---------------------------- MODULE MCAsyncJobs ----------------------------
(* Small instances of AsyncJobs for TLC. *)
EXTENDS AsyncJobs

CONSTANTS host, caller, fetch1, fs1

MCCallers == {caller}
MCFetchJobs == {fetch1}
MCFsJobs == {fs1}
MCDelays == {0, 1}
MCPeriods == {-1}
=============================================================================
