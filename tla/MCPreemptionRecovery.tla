----------------------- MODULE MCPreemptionRecovery -----------------------
(***************************************************************************)
(* Instance of PreemptionRecovery for TLC: a schedule that begins with an  *)
(* anchor call, as a sweep does, and in which each dispatcher is called    *)
(* before and after the other one; and what the quickstart of the feature  *)
(* says of a recovery, which a run of its own refutes.                     *)
(***************************************************************************)
EXTENDS PreemptionRecovery

MCSchedule == <<"anchor", "block", "anchor", "block">>

\* "non-zero values indicate the sweep survived N Modal worker restarts": a
\* sweep that recovered is not lost to its own closed driver.
RecoveredSweepSurvives == events["block"] + events["anchor"] > 0 => rc # 5
============================================================================
