---------------------------- MODULE BlockRetry ----------------------------
(***************************************************************************)
(* The in-window retry of a block (run_block_with_retry in sweep.py), as   *)
(* the main sweep and the KV-pressure sub-probe use it: each block of a    *)
(* sequence is dispatched, dispatched again if the first attempt failed in *)
(* a transient way, and recorded as one row.                               *)
(*                                                                         *)
(* A dispatcher is a callable of the caller's choice (BlockDispatcher, a   *)
(* Protocol): what it may answer is the constant Outcomes.  Two values of  *)
(* it are defined here: Contract, everything the Protocol allows, and      *)
(* Modal, what the dispatcher over the RPC driver answers.                 *)
(***************************************************************************)
EXTENDS Naturals, Sequences

CONSTANTS
  NumBlocks,         \* blocks to measure
  TransientReasons,  \* _TRANSIENT_FAILURE_REASONS
  PermanentReasons,  \* every other failed_reason
  Outcomes           \* what the dispatcher may answer

NoReason == "none"
Reasons == TransientReasons \cup PermanentReasons

\* A call of a dispatcher returns a BlockDispatchResult, or raises.  "reason"
\* is its failed_reason, or the label _classify_exception gives the exception;
\* "retryable" is what the wrapper decides on.
Outcome ==
  [raised : BOOLEAN, retryable : BOOLEAN, reason : Reasons \cup {NoReason}]

ASSUME RetryAssumption ==
  /\ NumBlocks \in Nat
  /\ TransientReasons \cap PermanentReasons = {}
  /\ NoReason \notin Reasons
  /\ Outcomes \subseteq Outcome
  /\ \A o \in Outcomes :
       IF o.raised THEN o.reason # NoReason
                   ELSE o.retryable <=> o.reason \in TransientReasons

Contract ==
  {o \in Outcome :
     IF o.raised THEN o.reason # NoReason
                 ELSE o.retryable <=> o.reason \in TransientReasons}

VARIABLES
  pc,              \* "first", "second" or "coded": the attempt to come; or "done"
  clock,           \* ticks with every attempt
  retry_attempted, \* the flag of the block under way
  block_start,     \* block_start_utc of the block under way
  tries,           \* history: the attempts of the block under way
  rows             \* the rows recorded, each with the history of its attempts

vars == <<pc, clock, retry_attempted, block_start, tries, rows>>

Try == [outcome : Outcomes, at : Nat]
Row == [failed_reason : Reasons \cup {NoReason}, retry_attempted : BOOLEAN,
        block_start : Nat, block_end : Nat, tries : Seq(Try)]

----------------------------------------------------------------------------
(* The Modal dispatcher: n RPCs, aggregated into one result.               *)

\* How an RPC ends: with a timing; with a network error, which the per-RPC
\* functions of rpc_driver.py turn into a text ("grpc chat: ..."); or with
\* another exception, labelled with its class name by the dispatcher.
RpcEnds == {"timing", "network", "other"}
Label == [timing |-> NoReason, network |-> "driver_text", other |-> "exception_name"]

\* One timing makes the block a success; else the first failure names it.
Aggregate(ends) ==
  LET timed == \E i \in DOMAIN ends : ends[i] = "timing" IN
  [raised    |-> FALSE,
   reason    |-> IF timed THEN NoReason ELSE Label[ends[1]],
   retryable |-> ~timed /\ Label[ends[1]] \in TransientReasons]

\* What the dispatcher itself raises (PreemptionBudgetExhausted,
\* PreemptionRecoveryFailed, CancelledError) is not transient.
Modal(n) ==
  {Aggregate(ends) : ends \in [1 .. n -> RpcEnds]}
    \cup {[raised |-> TRUE, reason |-> "exception_name", retryable |-> FALSE]}

----------------------------------------------------------------------------
\* Mutant: the window opens when the recorded attempt begins.
NewRowLate(o, start, retried) ==
  [failed_reason |-> o.reason, retry_attempted |-> retried,
   block_start |-> clock, block_end |-> clock + 1,
   tries |-> Append(tries, [outcome |-> o, at |-> clock])]

\* Mutant: the reason of the first attempt is kept.
NewRowFirstReason(o, start, retried) ==
  [failed_reason |-> IF tries = <<>> THEN o.reason ELSE tries[1].outcome.reason,
   retry_attempted |-> retried,
   block_start |-> start, block_end |-> clock + 1,
   tries |-> Append(tries, [outcome |-> o, at |-> clock])]

\* What the wrapper returns and the caller makes a row of.
NewRow(o, start, retried) ==
  [failed_reason |-> o.reason, retry_attempted |-> retried,
   block_start |-> start, block_end |-> clock + 1,
   tries |-> Append(tries, [outcome |-> o, at |-> clock])]

\* The result of this attempt stands; the caller goes on to the next block.
Record(o, start, retried) ==
  /\ rows' = Append(rows, NewRow(o, start, retried))
  /\ tries' = <<>>
  /\ retry_attempted' = FALSE
  /\ pc' = IF Len(rows) + 1 = NumBlocks THEN "done" ELSE "first"

\* The wrapper dispatches the whole block again.
Retry(o, attempt) ==
  /\ pc' = attempt
  /\ retry_attempted' = TRUE
  /\ tries' = Append(tries, [outcome |-> o, at |-> clock])
  /\ UNCHANGED rows

\* A transient exception leads to the second attempt, a transient-coded
\* result to the last one; anything else is final.
FirstAttempt ==
  /\ pc = "first" /\ Len(rows) < NumBlocks
  /\ clock' = clock + 1
  /\ block_start' = clock
  /\ \E o \in Outcomes :
       \/ o.retryable /\ Retry(o, IF o.raised THEN "second" ELSE "coded")
       \/ ~o.retryable /\ Record(o, clock, FALSE)

\* Mutant: the second attempt is tried again for as long as it fails.
SecondAttemptAgain ==
  /\ pc = "second"
  /\ clock' = clock + 1 /\ clock < 8
  /\ UNCHANGED block_start
  /\ \E o \in Outcomes :
       \/ o.retryable /\ Retry(o, IF o.raised THEN "second" ELSE "coded")
       \/ ~o.retryable /\ Record(o, block_start, TRUE)

\* After a transient exception.  An exception is final now, but a
\* transient-coded result still leads to the attempt below.
SecondAttempt ==
  /\ pc = "second"
  /\ clock' = clock + 1
  /\ UNCHANGED block_start
  /\ \E o \in Outcomes :
       \/ ~o.raised /\ o.retryable /\ Retry(o, "coded")
       \/ (o.raised \/ ~o.retryable) /\ Record(o, block_start, TRUE)

\* After a transient-coded result: whatever comes is final.
CodedAttempt ==
  /\ pc = "coded"
  /\ clock' = clock + 1
  /\ UNCHANGED block_start
  /\ \E o \in Outcomes : Record(o, block_start, TRUE)

Init ==
  /\ pc = "first" /\ clock = 0 /\ retry_attempted = FALSE /\ block_start = 0
  /\ tries = <<>> /\ rows = <<>>

Next == FirstAttempt \/ SecondAttempt \/ CodedAttempt

Spec == Init /\ [][Next]_vars

----------------------------------------------------------------------------
\* Type invariant.
TypeOK ==
  /\ pc \in {"first", "second", "coded", "done"}
  /\ clock \in Nat /\ block_start \in Nat
  /\ retry_attempted \in BOOLEAN
  /\ tries \in Seq(Try)
  /\ rows \in Seq(Row) /\ Len(rows) <= NumBlocks

\* What the wrapper knows of the block under way.
AttemptInv ==
  /\ pc \in {"first", "done"} => tries = <<>>
  /\ pc \in {"second", "coded"} => Len(rows) < NumBlocks
  /\ retry_attempted <=> tries # <<>>
  /\ pc = "second" => Len(tries) = 1 /\ tries[1].outcome.raised
  /\ pc = "coded" => /\ Len(tries) \in 1 .. 2
                     /\ ~tries[Len(tries)].outcome.raised
                     /\ Len(tries) = 2 => tries[1].outcome.raised

\* Every attempt of the block under way failed in a retryable way, inside the
\* window that began with the first of them.
WindowInv ==
  /\ \A j \in DOMAIN tries :
       /\ tries[j].outcome.retryable
       /\ block_start <= tries[j].at /\ tries[j].at < clock
  /\ \A i \in DOMAIN rows : rows[i].block_end <= clock
  /\ pc \in {"second", "coded"} =>
       \A i \in DOMAIN rows : rows[i].block_end <= block_start

\* The flag on a row tells a retried block from one measured at once, also
\* when both attempts failed (FR-033; sweep.py:298-305).
RetryFlagHonest ==
  \A i \in DOMAIN rows : rows[i].retry_attempted <=> Len(rows[i].tries) > 1

\* Only a transient failure is ever followed by another attempt, and what a
\* retry returned, good or bad, replaces what came before it.
OnlyTransientRetried ==
  \A i \in DOMAIN rows :
    LET ts == rows[i].tries IN
      /\ ts # <<>>
      /\ \A j \in 1 .. Len(ts) - 1 : ts[j].outcome.retryable
      /\ rows[i].failed_reason = ts[Len(ts)].outcome.reason

\* A block is dispatched three times at most, and three times only after a
\* raised exception and a transient-coded result, in this order.
DispatchesBounded ==
  \A i \in DOMAIN rows :
    LET ts == rows[i].tries IN
      /\ Len(ts) <= 3
      /\ Len(ts) = 3 => ts[1].outcome.raised /\ ~ts[2].outcome.raised

\* A retry stays in the window recorded for its block, and the windows of the
\* blocks follow one another: what verify_iteration_discipline and the cohort
\* comparison rely on (FR-030, FR-033).
RetriesInWindow ==
  /\ \A i \in DOMAIN rows : \A j \in DOMAIN rows[i].tries :
       /\ rows[i].block_start <= rows[i].tries[j].at
       /\ rows[i].tries[j].at < rows[i].block_end
  /\ \A i \in 1 .. Len(rows) - 1 : rows[i].block_end <= rows[i + 1].block_start

\* The inductive invariant: with the state of the block under way it carries
\* the four properties from row to row.
RetryInv ==
  /\ TypeOK /\ AttemptInv /\ WindowInv
  /\ RetryFlagHonest /\ OnlyTransientRetried /\ DispatchesBounded /\ RetriesInWindow
============================================================================
