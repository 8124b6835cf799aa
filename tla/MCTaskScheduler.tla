-------------------------- MODULE MCTaskScheduler --------------------------
(* Small instances of TaskScheduler for TLC. *)
EXTENDS TaskScheduler, TLC

CONSTANTS host, worker

MCThreads == {host, worker}
MCSymmetry == Permutations(MCThreads)

\* Timeouts and intervals as a script can ask for them; a negative number
\* passes the IsNumber() test too.
MCDelays == {0, 1}
MCSignedDelays == {-1, 0, 1}
MCSignedPeriods == {-1, 0, 1}
MCPositivePeriods == {1, 2}
=============================================================================
