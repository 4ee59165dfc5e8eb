------------------------ MODULE PreemptionRecovery ------------------------
(***************************************************************************)
(* Mid-sweep recovery from a preempted Modal worker (validate.py): the     *)
(* block dispatcher and the anchor dispatcher, the make_driver factory     *)
(* they share, refresh_rest_grpc_urls polling the handshake Dict, the      *)
(* retry wrapper and the sweep loop that call the dispatchers one after    *)
(* another, and the Modal worker that is preempted, restarts and           *)
(* publishes its URLs key by key.                                          *)
(*                                                                         *)
(* A worker is named by its generation 1, 2, ...; so are its URLs and the  *)
(* driver (gRPC channels and httpx client) opened against them.            *)
(***************************************************************************)
EXTENDS Naturals, Sequences, FiniteSets

CONSTANTS
  Schedule,       \* the dispatcher calls of a sweep, in order
  N,              \* RPCs per block
  Budget,         \* preemption_budget of either dispatcher
  DeathThreshold, \* consecutive_death_threshold of either dispatcher
  MaxGen,         \* bound on the generations of the worker
  MaxInterrupts   \* bound on the operator's interrupts

Dispatchers == {"block", "anchor"}

ASSUME RecoveryAssumption ==
  /\ Schedule \in Seq(Dispatchers)
  /\ N \in Nat \ {0} /\ DeathThreshold \in Nat \ {0}
  /\ Budget \in Nat /\ MaxGen \in Nat \ {0} /\ MaxInterrupts \in Nat

NoUrl == 0
Gens == 1 .. MaxGen
Urls == Gens \cup {NoUrl}

\* The keys of the handshake Dict, in the order in which the server puts
\* them and refresh_rest_grpc_urls gets them.
Keys == <<"grpc", "rest", "tcp", "edge">>

VARIABLES
  up,         \* whether the current worker serves
  gen,        \* generation of the current worker
  dict,       \* the handshake Dict: key |-> URL, as a sequence over Keys
  pc,         \* where the sweep task is
  call,       \* index in Schedule of the call under way or to be made
  results,    \* results gathered so far by the call under way
  seen,       \* values got from the Dict by the poll under way
  cached,     \* state["endpoints"] of the factory
  closed,     \* drivers whose context was closed
  held,       \* dispatcher |-> state.driver
  events,     \* dispatcher |-> state.preemption_events
  streak,     \* dispatcher |-> state.consecutive_death_blocks
  rc,         \* exit code of the sweep; 0 unless an exception escaped it
  log,        \* history: how each finished call ended
  interrupts  \* history: operator interrupts so far

worker == <<up, gen, dict>>
factory == <<seen, cached, closed>>
dispatcher == <<held, events, streak>>
vars == <<worker, pc, call, results, factory, dispatcher, rc, log, interrupts>>

Pcs == {"idle", "gather", "poll", "open", "done", "aborted"}
D == Schedule[call]

\* How a single RPC ends: with a timing; with a failure that carries an
\* endpoint-death fragment (_is_endpoint_death_result); with any other
\* failure; or by raising an exception that is not a network error.
Kinds == {"ok", "death", "error", "raised"}
Result == [by : Gens, kind : Kinds]

\* How a call of a dispatcher ends.
Endings == {"returned", "budget", "recovery", "interrupt"}
Entry == [who : Dispatchers, ending : Endings, used : SUBSET Gens, death : BOOLEAN]

----------------------------------------------------------------------------
(* The worker.  A preempted worker pops its keys one by one, and may be     *)
(* stopped before it popped them all, or any.                              *)
AllOf(g) == [i \in 1 .. Len(Keys) |-> g]
Popped(k) == [i \in 1 .. Len(Keys) |-> IF i <= k THEN NoUrl ELSE dict[i]]

Preempt ==
  /\ up
  /\ up' = FALSE
  /\ \E k \in 0 .. Len(Keys) : dict' = Popped(k)
  /\ UNCHANGED <<gen, pc, call, results, factory, dispatcher, rc, log, interrupts>>

\* Modal restarts the function with the same input: the server clears the
\* Dict, loads the engine, serves, and only then publishes its URLs.
Restart ==
  /\ ~up /\ gen < MaxGen
  /\ up' = TRUE /\ gen' = gen + 1
  /\ dict' = AllOf(NoUrl)
  /\ UNCHANGED <<pc, call, results, factory, dispatcher, rc, log, interrupts>>

Publish ==
  /\ up
  /\ \E i \in 1 .. Len(Keys) :
       /\ dict[i] = NoUrl
       /\ \A j \in 1 .. i - 1 : dict[j] # NoUrl
       /\ dict' = [dict EXCEPT ![i] = gen]
  /\ UNCHANGED <<up, gen, pc, call, results, factory, dispatcher, rc, log, interrupts>>

----------------------------------------------------------------------------
(* Dispatching the RPCs of a block.                                        *)

\* Mutant: a closed client is reported like an unreachable endpoint.
OutcomesClosedIsDeath(g) ==
  IF g \notin closed /\ up /\ g = gen THEN {"ok", "death", "error"} ELSE {"death", "error"}

\* What an RPC of driver g may end with.  A closed httpx client or gRPC
\* channel raises RuntimeError or UsageError, which the per-RPC functions of
\* rpc_driver.py do not catch.  An RPC to a worker that is gone fails, with
\* or without a recognised message; so may an RPC to a live one.
Outcomes(g) ==
  IF g \in closed THEN {"raised"}
  ELSE IF up /\ g = gen THEN {"ok", "death", "error"}
  ELSE {"death", "error"}

IsDeath(r) == r.kind = "death"

\* block_failed_with_endpoint_death and block_has_endpoint_death.
WholeBlockDeath(rs) == Len(rs) = N /\ \A i \in DOMAIN rs : IsDeath(rs[i])
SomeDeath(rs) == \E i \in DOMAIN rs : IsDeath(rs[i])

\* The drivers whose RPCs contribute a timing to the aggregated block.
TimedBy(rs) == {rs[i].by : i \in {j \in DOMAIN rs : rs[j].kind = "ok"}}

\* The condition under which the while loop of a dispatcher recovers.
Triggers(d, rs) ==
  \/ WholeBlockDeath(rs)
  \/ SomeDeath(rs) /\ streak[d] + 1 >= DeathThreshold

\* Mutant: a block without a death does not reset the streak.
StreakSticky(d, rs) == IF SomeDeath(rs) THEN streak[d] + 1 ELSE streak[d]

\* consecutive_death_blocks after a block that does not trigger.
StreakAfter(d, rs) == IF SomeDeath(rs) THEN streak[d] + 1 ELSE 0

\* compute_anchor_block and run_sweep go on to the next call.
NextCall(ending, rs) ==
  /\ log' = Append(log, [who |-> D, ending |-> ending, used |-> TimedBy(rs),
                         death |-> SomeDeath(rs)])
  /\ call' = call + 1
  /\ pc' = "idle"
  /\ rc' = rc

\* What becomes of an exception out of a dispatcher.  run_block_with_retry
\* catches BaseException: none of these is transient, so the block is
\* recorded as failed and the sweep goes on.  Nothing catches it on the
\* anchor path, and _run_modal_backed turns it into an exit code.
ExitCode == [budget |-> 6, recovery |-> 7, interrupt |-> 130]

Raise(ending) ==
  IF D = "block"
    THEN NextCall(ending, <<>>)
    ELSE /\ pc' = "aborted"
         /\ rc' = ExitCode[ending]
         /\ UNCHANGED <<call, log>>

StartCall ==
  /\ pc = "idle" /\ call \in DOMAIN Schedule
  /\ pc' = "gather" /\ results' = <<>>
  /\ UNCHANGED <<worker, call, factory, dispatcher, rc, log, interrupts>>

\* One RPC of the gather ends.  The anchor's gather does not collect
\* exceptions other than grpc.RpcError and httpx.HTTPError.
RpcEnds ==
  /\ pc = "gather" /\ Len(results) < N
  /\ \E kind \in Outcomes(held[D]) :
       /\ D = "anchor" => kind # "raised"
       /\ results' = Append(results, [by |-> held[D], kind |-> kind])
  /\ UNCHANGED <<worker, pc, call, factory, dispatcher, rc, log, interrupts>>

AnchorRpcRaises ==
  /\ pc = "gather" /\ Len(results) < N
  /\ D = "anchor" /\ "raised" \in Outcomes(held[D])
  /\ pc' = "aborted" /\ rc' = 5
  /\ UNCHANGED <<worker, call, results, factory, dispatcher, log, interrupts>>

\* The loop breaks and the dispatcher aggregates the block.
ReturnBlock ==
  /\ pc = "gather" /\ Len(results) = N
  /\ ~Triggers(D, results)
  /\ streak' = [streak EXCEPT ![D] = StreakAfter(D, results)]
  /\ NextCall("returned", results)
  /\ UNCHANGED <<worker, results, factory, held, events, interrupts>>

BudgetExhausted ==
  /\ pc = "gather" /\ Len(results) = N
  /\ Triggers(D, results) /\ events[D] >= Budget
  /\ streak' = [streak EXCEPT ![D] = 0]
  /\ Raise("budget")
  /\ UNCHANGED <<worker, results, factory, held, events, interrupts>>

PreemptionDetected ==
  /\ pc = "gather" /\ Len(results) = N
  /\ Triggers(D, results) /\ events[D] < Budget
  /\ streak' = [streak EXCEPT ![D] = 0]
  /\ pc' = "poll" /\ seen' = <<>>
  /\ UNCHANGED <<worker, call, results, cached, closed, held, events, rc, log, interrupts>>

----------------------------------------------------------------------------
(* make_driver: poll the Dict, close the old driver, open a new one.       *)

\* The Dict entries are four separate gets; grpc and rest must be there and
\* the gRPC URL must differ from the cached one.  "ready" is not read.
Fresh(urls) == urls[1] \notin {NoUrl, cached} /\ urls[2] # NoUrl

GetUrl ==
  /\ pc = "poll" /\ Len(seen) < Len(Keys)
  /\ seen' = Append(seen, dict[Len(seen) + 1])
  /\ UNCHANGED <<worker, pc, call, results, cached, closed, dispatcher, rc, log, interrupts>>

\* The poll sleeps and starts over: the URLs are not fresh, or a get failed.
PollAgain ==
  /\ pc = "poll"
  /\ Len(seen) = Len(Keys) => ~Fresh(seen)
  /\ seen' = <<>>
  /\ UNCHANGED <<worker, pc, call, results, cached, closed, dispatcher, rc, log, interrupts>>

\* Mutant: every poll starts a deadline of its own.
PollForever ==
  /\ pc = "poll" /\ seen = <<>>
  /\ UNCHANGED vars

\* The deadline (600 s) is checked between polls.
PollTimesOut ==
  /\ pc = "poll" /\ seen = <<>>
  /\ Raise("recovery")
  /\ UNCHANGED <<worker, results, factory, dispatcher, interrupts>>

\* Mutant: the old driver context stays open.
CloseNothing ==
  /\ pc = "poll" /\ Len(seen) = Len(Keys)
  /\ Fresh(seen)
  /\ pc' = "open"
  /\ UNCHANGED <<worker, call, results, factory, dispatcher, rc, log, interrupts>>

CloseOldDriver ==
  /\ pc = "poll" /\ Len(seen) = Len(Keys)
  /\ Fresh(seen)
  /\ closed' = closed \cup {cached}
  /\ pc' = "open"
  /\ UNCHANGED <<worker, call, results, seen, cached, dispatcher, rc, log, interrupts>>

\* provide_m6_2_rpc_driver wants all four URLs and probes each of them.
Complete(urls) == \A i \in DOMAIN urls : urls[i] # NoUrl
Answers(urls) == up /\ \A i \in DOMAIN urls : urls[i] = gen

\* Mutant: only the failed half of the block is dispatched again.
OpenDriverKeepingSuccesses ==
  /\ pc = "open" /\ Answers(seen)
  /\ held' = [held EXCEPT ![D] = seen[1]]
  /\ cached' = seen[1]
  /\ events' = [events EXCEPT ![D] = @ + 1]
  /\ results' = SelectSeq(results, LAMBDA r : r.kind = "ok")
  /\ pc' = "gather"
  /\ UNCHANGED <<worker, call, seen, closed, streak, rc, log, interrupts>>

\* The dispatcher that recovered adopts the new driver, counts the recovery
\* and dispatches its whole block again.  The other dispatcher is not told.
OpenDriver ==
  /\ pc = "open" /\ Answers(seen)
  /\ held' = [held EXCEPT ![D] = seen[1]]
  /\ cached' = seen[1]
  /\ events' = [events EXCEPT ![D] = @ + 1]
  /\ results' = <<>>
  /\ pc' = "gather"
  /\ UNCHANGED <<worker, call, seen, closed, streak, rc, log, interrupts>>

\* A missing URL or a probe that fails: the old driver is closed already.  A
\* live worker with complete URLs may fail its probes too.
OpenFails ==
  /\ pc = "open"
  /\ Raise("recovery")
  /\ UNCHANGED <<worker, results, factory, dispatcher, interrupts>>

----------------------------------------------------------------------------
\* Ctrl-C cancels the main task, which is awaiting an RPC, a get of the Dict
\* or a probe: CancelledError comes out of the dispatcher.
Interrupt ==
  /\ interrupts < MaxInterrupts
  /\ pc \in {"poll", "open"} \/ (pc = "gather" /\ Len(results) < N)
  /\ interrupts' = interrupts + 1
  /\ Raise("interrupt")
  /\ UNCHANGED <<worker, results, factory, dispatcher>>

Finish ==
  /\ pc = "idle" /\ call \notin DOMAIN Schedule
  /\ pc' = "done"
  /\ UNCHANGED <<worker, call, results, factory, dispatcher, rc, log, interrupts>>

Init ==
  /\ up = TRUE /\ gen = 1 /\ dict = AllOf(1)
  /\ pc = "idle" /\ call = 1 /\ results = <<>> /\ seen = <<>>
  /\ cached = 1 /\ closed = {}
  /\ held = [d \in Dispatchers |-> 1]
  /\ events = [d \in Dispatchers |-> 0]
  /\ streak = [d \in Dispatchers |-> 0]
  /\ rc = 0 /\ log = <<>> /\ interrupts = 0

Worker == Preempt \/ Restart \/ Publish

MakeDriver == GetUrl \/ PollAgain \/ PollTimesOut \/ CloseOldDriver \/ OpenDriver \/ OpenFails

Sweep ==
  \/ StartCall \/ RpcEnds \/ AnchorRpcRaises \/ ReturnBlock
  \/ BudgetExhausted \/ PreemptionDetected \/ MakeDriver \/ Finish

Next == Worker \/ Sweep \/ Interrupt

\* The event loop keeps running the sweep task, and the poll's deadline is a
\* point in time.  Nothing is assumed of the worker or of the operator.
Spec == Init /\ [][Next]_vars /\ WF_vars(Sweep) /\ SF_vars(PollTimesOut)

----------------------------------------------------------------------------
Other(d) == IF d = "block" THEN "anchor" ELSE "block"

\* Type invariant.
TypeOK ==
  /\ up \in BOOLEAN /\ gen \in Gens
  /\ dict \in [1 .. Len(Keys) -> Urls]
  /\ pc \in Pcs /\ call \in Nat \ {0}
  /\ results \in Seq(Result) /\ Len(results) <= N
  /\ seen \in Seq(Urls) /\ Len(seen) <= Len(Keys)
  /\ cached \in Gens /\ closed \subseteq Gens
  /\ held \in [Dispatchers -> Gens]
  /\ events \in [Dispatchers -> Nat] /\ streak \in [Dispatchers -> Nat]
  /\ rc \in {0, 5, 6, 7, 130}
  /\ log \in Seq(Entry)
  /\ interrupts \in 0 .. MaxInterrupts

\* The parts of the inductive invariant below.

\* The sweep task is inside the Schedule whenever a dispatcher is running.
CallInv == pc \notin {"idle", "done"} => call \in DOMAIN Schedule

\* URLs only ever come from workers that exist, and the Dict never goes back
\* to a worker older than the one the factory knows.
UrlInv ==
  /\ cached <= gen
  /\ \A i \in 1 .. Len(Keys) : dict[i] <= gen
  /\ \A i \in DOMAIN seen : seen[i] <= gen
  /\ dict[1] # NoUrl => dict[1] >= cached

\* The gRPC URL read by the poll under way is as new as the factory's and no
\* newer than the Dict's.
PollInv ==
  pc \in {"poll", "open"} /\ seen # <<>> /\ seen[1] # NoUrl =>
    /\ seen[1] >= cached
    /\ dict[1] # NoUrl => dict[1] >= seen[1]

\* A dispatcher holds the factory's current driver or a closed one.
HeldInv ==
  /\ \A d \in Dispatchers : held[d] = cached \/ held[d] \in closed
  /\ \A g \in closed : g <= cached

\* A closed driver yields nothing that could be taken for a preemption.
ResultsInv ==
  pc = "gather" =>
    \A i \in DOMAIN results :
      /\ results[i].by = held[D]
      /\ held[D] \in closed => results[i].kind = "raised"

\* Who may be recovering, and against what.
RecoveringInv ==
  /\ pc \in {"poll", "open"} =>
       /\ held[D] = cached
       /\ events[D] < Budget
       /\ events[Other(D)] = 0
  /\ pc = "poll" => cached \notin closed
  /\ pc = "open" => cached \in closed /\ Len(seen) = Len(Keys) /\ Fresh(seen)

\* A recovery of one dispatcher costs the other one its driver, and with it
\* any recovery of its own.
EventsInv ==
  \A d \in Dispatchers :
    /\ events[d] <= Budget
    /\ events[d] > 0 => held[Other(d)] \in closed /\ events[Other(d)] = 0

\* The inductive invariant: what makes the recovery of one dispatcher final
\* for the other one, and keeps the worker named by every driver increasing.
RecoveryInv ==
  /\ TypeOK /\ CallInv /\ UrlInv /\ PollInv /\ HeldInv /\ ResultsInv
  /\ RecoveringInv /\ EventsInv

\* At most one of the two dispatchers ever recovers in a sweep: the factory
\* closes the driver the other one still holds, and its failures on that
\* driver are not endpoint deaths (validate.py:515-518, 617).
OneDispatcherRecovers == events["block"] = 0 \/ events["anchor"] = 0

\* So the preemption threshold bounds the sweep as a whole, although each
\* dispatcher has a counter of its own (validate.py:482-490, 868-874).
SweepWideBudget == events["block"] + events["anchor"] <= Budget

\* The timings aggregated for a block come from one driver: a block is never
\* assembled from RPCs to two workers, even when its first attempt was cut in
\* two by a preemption (validate.py:728-736).
BlockFromOneDriver == \A i \in DOMAIN log : Cardinality(log[i].used) <= 1

\* A streak of k means that the last k blocks the dispatcher returned each
\* had an endpoint death, and k stays below the threshold
\* (validate.py:660-699): the secondary trigger fires when it is reached, and
\* never on blips with a clean block between them.
ReturnedSince(d, m) == {i \in m + 1 .. Len(log) : log[i].who = d /\ log[i].ending = "returned"}
StreakEarned ==
  \A d \in Dispatchers :
    /\ streak[d] < DeathThreshold
    /\ \E m \in 0 .. Len(log) :
         /\ Cardinality(ReturnedSince(d, m)) = streak[d]
         /\ \A i \in ReturnedSince(d, m) : log[i].death

\* A dispatcher whose driver was closed by the other one, or by a recovery of
\* its own that failed, never detects a preemption again, never gets another
\* driver, and no later block of it has a timing.
Recovering(d) == pc = "open" /\ D = d
LostStaysLost ==
  [][\A d \in Dispatchers :
       held[d] \in closed /\ ~Recovering(d) =>
         /\ held'[d] = held[d] /\ held'[d] \in closed'
         /\ ~(pc' = "poll" /\ D = d)
         /\ log' # log /\ D = d => log'[Len(log')].used = {}]_vars

\* Every call of a dispatcher ends, so the sweep does: recovery cannot loop,
\* whatever the workers do, because the polls have a deadline and the loop a
\* budget.
SweepEnds == <>(pc \in {"done", "aborted"})

\* The argument behind it: but for another round of a poll, every step of the
\* sweep task goes forward, to a later call, a further recovery, a later stage of
\* the call, one more result or one more URL, and each of these is bounded.
Recoveries == events["block"] + events["anchor"]
StagesLeft == CASE pc = "idle" -> 3 [] pc = "gather" -> 2 [] pc = "poll" -> 1 [] OTHER -> 0
Forward ==
  \/ pc' \in {"done", "aborted"}
  \/ call' > call /\ call' <= Len(Schedule) + 1
  \/ call' = call /\ Recoveries' > Recoveries /\ Recoveries' <= Budget
  \/ /\ call' = call /\ Recoveries' = Recoveries
     /\ \/ StagesLeft' < StagesLeft
        \/ StagesLeft' = StagesLeft /\ Len(results') > Len(results) /\ Len(results') <= N
        \/ /\ StagesLeft' = StagesLeft /\ results' = results
           /\ Len(seen') > Len(seen) /\ Len(seen') <= Len(Keys)
CallsGoForward == [][Sweep => PollAgain \/ Forward]_vars

\* The recovery machinery keeps the promise of DriverLease.
Lease == INSTANCE DriverLease
           WITH lease <- cached, open <- cached \notin closed,
                renewals <- events["block"] + events["anchor"]
ImplementsLease == Lease!LeaseSpec
============================================================================
