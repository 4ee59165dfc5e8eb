---------------------------- MODULE DriverLease ----------------------------
(***************************************************************************)
(* What the preemption recovery promises to the rest of a sweep: at any    *)
(* time there is at most one open driver, each new driver speaks to a      *)
(* newer worker than the last, and the sweep as a whole renews its driver  *)
(* at most Budget times (PREEMPTION_RECURRENCE_THRESHOLD).                 *)
(***************************************************************************)
EXTENDS Naturals

CONSTANT Budget

VARIABLES
  lease,   \* the worker the latest driver was opened against
  open,    \* whether that driver is still open
  renewals \* how many times a fresh driver replaced the first one

leaseVars == <<lease, open, renewals>>

LeaseInit == lease = 1 /\ open = TRUE /\ renewals = 0

\* The old driver is closed before a new one exists.
Revoke == /\ open
          /\ open' = FALSE
          /\ UNCHANGED <<lease, renewals>>

Renew == /\ ~open
         /\ renewals < Budget
         /\ lease' \in Nat /\ lease' > lease
         /\ open' = TRUE
         /\ renewals' = renewals + 1

LeaseNext == Revoke \/ Renew

LeaseSpec == LeaseInit /\ [][LeaseNext]_leaseVars
============================================================================
