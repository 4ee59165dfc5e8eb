---------------------------- MODULE SweepLedger ----------------------------
(***************************************************************************)
(* What the checkpoint promises to the operator of a sweep, abstracting    *)
(* from processes, files and crashes: one ledger of finished blocks that   *)
(* grows in dispatch order, each block exactly once, that no crash         *)
(* disturbs, and a sweep that is finished only with the whole ledger.      *)
(***************************************************************************)
EXTENDS Naturals, Sequences

CONSTANT Order  \* the dispatch order of the sweep

VARIABLES
  ledger,    \* the blocks recorded so far
  finished   \* the sweep returned its results

ledgerVars == <<ledger, finished>>

LedgerInit == ledger = <<>> /\ finished = FALSE

\* A fresh start discards what was recorded.
Restart == ledger' = <<>> /\ finished' = FALSE

Record ==
  /\ ~finished
  /\ Len(ledger) < Len(Order)
  /\ ledger' = Append(ledger, Order[Len(ledger) + 1])
  /\ UNCHANGED finished

Finish ==
  /\ ledger = Order
  /\ finished' = TRUE
  /\ UNCHANGED ledger

\* The process that held the results is gone; the ledger stays.
Retire == finished /\ finished' = FALSE /\ UNCHANGED ledger

LedgerNext == Restart \/ Record \/ Finish \/ Retire

LedgerSpec == LedgerInit /\ [][LedgerNext]_ledgerVars

============================================================================
