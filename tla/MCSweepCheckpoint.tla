------------------------- MODULE MCSweepCheckpoint -------------------------
(***************************************************************************)
(* Instances of SweepCheckpoint for TLC.  The dispatch order has two       *)
(* (cell, max_tokens) tuples; the first is a c = 1 cell with fewer         *)
(* cohorts than the second, as in CELLS.  Times are in units of 0.001 h.   *)
(***************************************************************************)
EXTENDS SweepCheckpoint, TLC

CONSTANTS grpc, rest, tuned  \* cohorts

MCOrder ==
  <<[tuple |-> 1, cohort |-> grpc], [tuple |-> 1, cohort |-> rest],
    [tuple |-> 2, cohort |-> grpc], [tuple |-> 2, cohort |-> tuned],
    [tuple |-> 2, cohort |-> rest]>>
MCShortOrder == SubSeq(MCOrder, 1, 4)

MCCohorts == {grpc, rest, tuned}

\* What an anchor block returns: every cohort answers; the last one or two do
\* not; none does.
MCSomeYield == {<<rest, grpc, tuned>>, <<rest, grpc>>, <<rest>>}
MCMayFail == {<<rest, grpc>>, <<>>}

============================================================================
