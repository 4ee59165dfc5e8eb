---------------------------- MODULE MCSweepMonitor ----------------------------
(***************************************************************************)
(* What the comments of the monitor say of its end.                        *)
(***************************************************************************)
EXTENDS SweepMonitor

\* monitor_m6_2_sweep.py: "a stale leftover from a previous (e.g. preempted)
\* sweep doesn't trip the --interval auto-exit prematurely".
NoStaleCompletion ==
  exit = "completed" => artifact.by >= StartOf(seen).by
=============================================================================
