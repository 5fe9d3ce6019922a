---------------------------- MODULE MCCrashLog ----------------------------
(***************************************************************************)
(* CrashLog for TLC: the main thread and one worker, lines of two bytes in *)
(* a file that is rotated beyond one byte.                                 *)
(***************************************************************************)
EXTENDS CrashLog

\* Three lines are a rotation and a race of checkpoints, two entries a crash
\* after a native checkpoint or another crash; not both in one behaviour.
Bounded == lines =< 1 \/ entries =< 1

============================================================================
