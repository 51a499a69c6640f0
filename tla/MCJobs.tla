------------------------------- MODULE MCJobs -------------------------------
(* Small instances of Jobs for TLC. *)
EXTENDS Jobs

\* pids do not collide with job ids: 11, 12, ... against 1, 2, ...
MCFirstPID == 11
MCExitCodes == {0, 1}
MCSignals == {130, 143}
MCKillArgs == {<<11>>, <<12, 11>>}
MCWaitArgs == {<<>>, <<1>>, <<12, 11>>}

\* The choices the counterexamples need.
FewExitCodes == {0}
FewSignals == {143}
FewWaitArgs == {<<>>, <<12>>}
FewKillArgs == {<<11>>, <<12>>}
=============================================================================
