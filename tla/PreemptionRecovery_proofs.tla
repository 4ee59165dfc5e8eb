--------------------- MODULE PreemptionRecovery_proofs ---------------------
(***************************************************************************)
(* Theorems about PreemptionRecovery, for every schedule of dispatcher     *)
(* calls, block size, budget, threshold and number of worker generations.  *)
(***************************************************************************)
EXTENDS PreemptionRecovery, FiniteSetTheorems, TLAPS

LEMMA KeysFacts == Len(Keys) = 4 /\ DOMAIN AllOf(NoUrl) = 1 .. 4
  BY DEF Keys, AllOf

LEMMA AppendFacts ==
  ASSUME NEW S, NEW s \in Seq(S), NEW x \in S
  PROVE  /\ Append(s, x) \in Seq(S)
         /\ Len(Append(s, x)) = Len(s) + 1
         /\ DOMAIN Append(s, x) = (DOMAIN s) \cup {Len(s) + 1}
         /\ Append(s, x)[Len(s) + 1] = x
         /\ \A i \in DOMAIN s : Append(s, x)[i] = s[i] /\ i # Len(s) + 1
  OBVIOUS

LEMMA EmptyFacts ==
  ASSUME NEW S
  PROVE  <<>> \in Seq(S) /\ Len(<<>>) = 0 /\ DOMAIN <<>> = {}
  OBVIOUS

LEMMA ScheduleFacts ==
  ASSUME call \in DOMAIN Schedule
  PROVE  D \in Dispatchers /\ Other(D) \in Dispatchers /\ D # Other(D)
  BY RecoveryAssumption DEF D, Other, Dispatchers

\* The entry a finished call leaves in the log.
LEMMA EntryFacts ==
  ASSUME call \in DOMAIN Schedule, NEW ending \in Endings, NEW rs \in Seq(Result)
  PROVE  [who |-> D, ending |-> ending, used |-> TimedBy(rs), death |-> SomeDeath(rs)]
           \in Entry
<1>a. \A i \in DOMAIN rs : rs[i] \in Result
  OBVIOUS
<1>0. \A i \in DOMAIN rs : rs[i].by \in Gens
  BY <1>a DEF Result
<1>1. TimedBy(rs) \subseteq Gens
  BY <1>0 DEF TimedBy
<1>2. SomeDeath(rs) \in BOOLEAN
  BY DEF SomeDeath
<1> QED
  BY <1>1, <1>2, ScheduleFacts DEF Entry

\* What an exception out of a dispatcher does to the sweep.
LEMMA RaiseFacts ==
  ASSUME TypeOK, call \in DOMAIN Schedule, NEW ending \in {"budget", "recovery", "interrupt"},
         Raise(ending)
  PROVE  /\ pc' \in {"idle", "aborted"}
         /\ pc' = "aborted" => call' = call
         /\ call' \in Nat \ {0}
         /\ rc' \in {0, 5, 6, 7, 130}
         /\ log' \in Seq(Entry)
<1>1. <<>> \in Seq(Result)
  BY EmptyFacts
<1>2. CASE D = "block"
  <2>1. NextCall(ending, <<>>)
    BY <1>2 DEF Raise
  <2>a. [who |-> D, ending |-> ending, used |-> TimedBy(<<>>), death |-> SomeDeath(<<>>)]
          \in Entry
    BY <1>1, EntryFacts DEF Endings
  <2>2. log' \in Seq(Entry)
    BY <2>a, <2>1, AppendFacts DEF NextCall, TypeOK
  <2> QED
    BY <2>1, <2>2 DEF NextCall, TypeOK
<1>3. CASE D # "block"
  BY <1>3 DEF Raise, TypeOK, ExitCode
<1> QED
  BY <1>2, <1>3

\* The disjuncts of a step.
LEMMA StepCases ==
  ASSUME [Next]_vars
  PROVE  \/ Preempt \/ Restart \/ Publish
         \/ StartCall \/ RpcEnds \/ AnchorRpcRaises \/ ReturnBlock
         \/ BudgetExhausted \/ PreemptionDetected
         \/ GetUrl \/ PollAgain \/ PollTimesOut \/ CloseOldDriver \/ OpenDriver \/ OpenFails
         \/ Interrupt \/ Finish \/ UNCHANGED vars
  BY DEF Next, Worker, Sweep, MakeDriver

----------------------------------------------------------------------------
(* Initially.                                                              *)
LEMMA InitInv == Init => RecoveryInv
<1> SUFFICES ASSUME Init PROVE RecoveryInv
  OBVIOUS
<1> USE RecoveryAssumption, KeysFacts, EmptyFacts DEF Init
<1>1. TypeOK
  BY DEF TypeOK, Gens, Urls, NoUrl, AllOf, Pcs, Dispatchers
<1>2. CallInv /\ PollInv /\ ResultsInv /\ RecoveringInv
  BY DEF CallInv, PollInv, ResultsInv, RecoveringInv
<1>3. UrlInv /\ HeldInv
  BY DEF UrlInv, HeldInv, AllOf, NoUrl
<1>4. EventsInv
  BY DEF EventsInv
<1> QED
  BY <1>1, <1>2, <1>3, <1>4 DEF RecoveryInv

----------------------------------------------------------------------------
(* Each part of the invariant is preserved.                                *)
LEMMA TypeStep ==
  ASSUME RecoveryInv, [Next]_vars
  PROVE  TypeOK'
<1> USE RecoveryAssumption, KeysFacts
        DEF RecoveryInv, TypeOK, worker, factory, dispatcher, Pcs
<1>0. AllOf(NoUrl) \in [1 .. Len(Keys) -> Urls] /\ Gens \subseteq Urls
  BY DEF AllOf, Urls
<1>1. CASE Preempt
  <2>1. dict' \in [1 .. Len(Keys) -> Urls]
    BY <1>1 DEF Preempt, Popped, Urls
  <2> QED
    BY <1>1, <2>1 DEF Preempt
<1>1a. CASE Restart
  BY <1>0, <1>1a DEF Restart, Gens
<1>1b. CASE Publish
  <2>1. dict' \in [1 .. Len(Keys) -> Urls]
    BY <1>0, <1>1b DEF Publish
  <2> QED
    BY <1>1b, <2>1 DEF Publish
<1>2. CASE StartCall
  BY <1>2, EmptyFacts DEF StartCall
<1>2a. CASE PreemptionDetected
  <2>1. streak' \in [Dispatchers -> Nat]
    BY <1>2a DEF PreemptionDetected
  <2> QED
    BY <1>2a, <2>1, EmptyFacts DEF PreemptionDetected
<1>3. CASE RpcEnds
  <2>1. held[D] \in Gens
    BY <1>3, ScheduleFacts DEF RpcEnds, CallInv
  <2>2. PICK kind \in Outcomes(held[D]) :
          results' = Append(results, [by |-> held[D], kind |-> kind])
    BY <1>3 DEF RpcEnds
  <2>3. [by |-> held[D], kind |-> kind] \in Result
    BY <2>1, <2>2 DEF Outcomes, Result, Kinds
  <2>4. results' \in Seq(Result) /\ Len(results') = Len(results) + 1
    BY <2>2, <2>3, AppendFacts
  <2> QED
    BY <1>3, <2>4 DEF RpcEnds
<1>4. CASE AnchorRpcRaises
  BY <1>4 DEF AnchorRpcRaises
<1>5. CASE ReturnBlock
  <2>1. call \in DOMAIN Schedule
    BY <1>5 DEF ReturnBlock, CallInv
  <2>2. StreakAfter(D, results) \in Nat
    <3>1. streak[D] \in Nat
      BY <2>1, ScheduleFacts
    <3> QED
      BY <3>1 DEF StreakAfter
  <2>3. log' \in Seq(Entry)
    <3>1. [who |-> D, ending |-> "returned", used |-> TimedBy(results),
           death |-> SomeDeath(results)] \in Entry
      BY <2>1, EntryFacts DEF Endings
    <3>2. log \in Seq(Entry)
      OBVIOUS
    <3> QED
      BY <1>5, <3>1, <3>2, AppendFacts DEF ReturnBlock, NextCall
  <2>4. streak' \in [Dispatchers -> Nat]
    BY <1>5, <2>2 DEF ReturnBlock
  <2>5. /\ UNCHANGED <<worker, results, factory, held, events, interrupts, rc>>
        /\ pc' = "idle" /\ call' = call + 1
    BY <1>5 DEF ReturnBlock, NextCall
  <2> QED
    BY <2>3, <2>4, <2>5
<1>6. CASE BudgetExhausted
  <2>1. call \in DOMAIN Schedule
    BY <1>6 DEF BudgetExhausted, CallInv
  <2> QED
    BY <1>6, <2>1, RaiseFacts DEF BudgetExhausted
<1>7. CASE GetUrl
  <2>1. dict[Len(seen) + 1] \in Urls
    BY <1>7 DEF GetUrl
  <2> QED
    BY <1>7, <2>1, AppendFacts DEF GetUrl
<1>8. CASE PollAgain
  BY <1>8, EmptyFacts DEF PollAgain
<1>8a. CASE CloseOldDriver
  <2>1. closed' \subseteq Gens
    BY <1>8a DEF CloseOldDriver
  <2> QED
    BY <1>8a, <2>1 DEF CloseOldDriver
<1>9. CASE PollTimesOut \/ OpenFails
  <2>1. call \in DOMAIN Schedule /\ Raise("recovery")
    BY <1>9 DEF PollTimesOut, OpenFails, CallInv
  <2>2. UNCHANGED <<worker, results, factory, dispatcher, interrupts>>
    BY <1>9 DEF PollTimesOut, OpenFails
  <2>3. /\ pc' \in {"idle", "aborted"} /\ call' \in Nat \ {0}
        /\ rc' \in {0, 5, 6, 7, 130} /\ log' \in Seq(Entry)
    BY <2>1, RaiseFacts
  <2> QED
    BY <2>2, <2>3
<1>9a. CASE Interrupt
  <2>1. call \in DOMAIN Schedule /\ Raise("interrupt")
    BY <1>9a DEF Interrupt, CallInv
  <2>2. /\ UNCHANGED <<worker, results, factory, dispatcher>>
        /\ interrupts' \in 0 .. MaxInterrupts
    BY <1>9a DEF Interrupt
  <2>3. /\ pc' \in {"idle", "aborted"} /\ call' \in Nat \ {0}
        /\ rc' \in {0, 5, 6, 7, 130} /\ log' \in Seq(Entry)
    BY <2>1, RaiseFacts
  <2> QED
    BY <2>2, <2>3
<1>10. CASE OpenDriver
  <2>1. seen[1] = gen /\ call \in DOMAIN Schedule
    <3>1. pc = "open" /\ \A i \in DOMAIN seen : seen[i] = gen
      BY <1>10 DEF OpenDriver, Answers
    <3>2. Len(seen) = 4 /\ seen \in Seq(Urls)
      BY <3>1 DEF RecoveringInv
    <3>3. 1 \in DOMAIN seen
      BY <3>2
    <3> QED
      BY <3>1, <3>3 DEF CallInv
  <2>a. events[D] + 1 \in Nat
    <3>1. events[D] \in Nat
      BY <2>1, ScheduleFacts
    <3> QED
      BY <3>1
  <2>2. events' \in [Dispatchers -> Nat]
    BY <1>10, <2>a DEF OpenDriver
  <2>3. held' \in [Dispatchers -> Gens]
    BY <1>10, <2>1 DEF OpenDriver
  <2>4. results' \in Seq(Result) /\ Len(results') <= N
    BY <1>10, EmptyFacts DEF OpenDriver
  <2>5. /\ cached' \in Gens /\ pc' \in Pcs
        /\ UNCHANGED <<worker, call, seen, closed, streak, rc, log, interrupts>>
    BY <1>10, <2>1 DEF OpenDriver
  <2> QED
    BY <2>2, <2>3, <2>4, <2>5
<1>11. CASE Finish \/ UNCHANGED vars
  BY <1>11 DEF Finish, vars
<1> HIDE DEF RecoveryInv, TypeOK, worker, factory, dispatcher, Pcs
<1> QED
  BY <1>1, <1>1a, <1>1b, <1>2, <1>2a, <1>3, <1>4, <1>5, <1>6, <1>7, <1>8, <1>8a, <1>9,
     <1>9a, <1>10, <1>11, StepCases

\* The sweep task stays inside the Schedule while a dispatcher runs.
LEMMA CallStep ==
  ASSUME RecoveryInv, [Next]_vars
  PROVE  CallInv'
<1> USE DEF RecoveryInv, CallInv
<1>1. ASSUME NEW ending \in {"budget", "recovery", "interrupt"}, Raise(ending),
             pc \notin {"idle", "done"}
      PROVE  CallInv'
  BY <1>1, RaiseFacts
<1>2. CASE BudgetExhausted \/ PollTimesOut \/ OpenFails \/ Interrupt
  BY <1>1, <1>2 DEF BudgetExhausted, PollTimesOut, OpenFails, Interrupt
<1>3. CASE ReturnBlock
  BY <1>3 DEF ReturnBlock, NextCall
<1>4. CASE StartCall
  BY <1>4 DEF StartCall
<1>5. CASE RpcEnds \/ AnchorRpcRaises \/ PreemptionDetected
  BY <1>5 DEF RpcEnds, AnchorRpcRaises, PreemptionDetected
<1>6. CASE GetUrl \/ PollAgain \/ CloseOldDriver \/ OpenDriver \/ Finish
  BY <1>6 DEF GetUrl, PollAgain, CloseOldDriver, OpenDriver, Finish
<1>7. CASE Preempt \/ Restart \/ Publish \/ UNCHANGED vars
  BY <1>7 DEF Preempt, Restart, Publish, vars
<1> QED
  BY <1>2, <1>3, <1>4, <1>5, <1>6, <1>7, StepCases

\* Steps that touch neither the worker nor the factory.
LEMMA Bystanders ==
  ASSUME StartCall \/ RpcEnds \/ AnchorRpcRaises \/ ReturnBlock \/ BudgetExhausted
           \/ PollTimesOut \/ OpenFails \/ Interrupt \/ Finish \/ UNCHANGED vars
  PROVE  UNCHANGED <<up, gen, dict, seen, cached, closed, held, events>>
<1> USE DEF worker, factory
<1>1. CASE StartCall \/ RpcEnds \/ AnchorRpcRaises \/ Finish
  BY <1>1 DEF StartCall, RpcEnds, AnchorRpcRaises, Finish, dispatcher
<1>2. CASE ReturnBlock \/ BudgetExhausted
  BY <1>2 DEF ReturnBlock, BudgetExhausted
<1>3. CASE PollTimesOut \/ OpenFails \/ Interrupt \/ UNCHANGED vars
  BY <1>3 DEF PollTimesOut, OpenFails, Interrupt, vars, dispatcher
<1> QED
  BY <1>1, <1>2, <1>3

\* Steps of the worker leave the sweep alone.
LEMMA WorkerSteps ==
  ASSUME Preempt \/ Restart \/ Publish
  PROVE  /\ UNCHANGED <<pc, call, results, seen, cached, closed, held, events, streak>>
         /\ UNCHANGED <<rc, log, interrupts>>
  BY DEF Preempt, Restart, Publish, factory, dispatcher

LEMMA DictFacts ==
  ASSUME TypeOK, Preempt \/ Restart \/ Publish
  PROVE  /\ gen \in Nat /\ gen' \in Nat /\ gen <= gen'
         /\ \A i \in 1 .. 4 : dict'[i] \in {dict[i], NoUrl, gen'}
         /\ \A i \in 1 .. 4 : dict[i] \in Nat
<1> USE KeysFacts DEF TypeOK, Gens, Urls, NoUrl
<1>1. CASE Preempt
  BY <1>1 DEF Preempt, Popped
<1>2. CASE Restart
  BY <1>2 DEF Restart, AllOf
<1>3. CASE Publish
  BY <1>3 DEF Publish
<1> QED
  BY <1>1, <1>2, <1>3

\* What the factory has read when it opens a driver.
LEMMA FreshFacts ==
  ASSUME RecoveryInv, pc = "open"
  PROVE  /\ call \in DOMAIN Schedule
         /\ Len(seen) = 4 /\ seen # <<>> /\ 1 \in DOMAIN seen
         /\ seen[1] # NoUrl /\ seen[1] \in Nat /\ cached \in Nat
         /\ cached < seen[1] /\ seen[1] <= gen
<1> USE KeysFacts DEF RecoveryInv
<1>1. call \in DOMAIN Schedule
  BY DEF CallInv
<1>2. Len(seen) = 4 /\ seen[1] \notin {NoUrl, cached}
  BY DEF RecoveringInv, Fresh
<1>3. seen \in Seq(Urls) /\ cached \in Nat
  BY DEF TypeOK, Gens
<1>4. seen # <<>> /\ 1 \in DOMAIN seen /\ seen[1] \in Urls
  BY <1>2, <1>3
<1>5. seen[1] \in Nat
  BY <1>4 DEF Urls, Gens, NoUrl
<1>6. seen[1] >= cached
  BY <1>2, <1>4 DEF PollInv
<1> QED
  BY <1>1, <1>2, <1>3, <1>4, <1>5, <1>6 DEF UrlInv

LEMMA UrlStep ==
  ASSUME RecoveryInv, [Next]_vars
  PROVE  UrlInv'
<1> USE KeysFacts DEF RecoveryInv, UrlInv
<1>1. CASE Preempt \/ Restart \/ Publish
  <2>1. UNCHANGED <<seen, cached>>
    BY <1>1, WorkerSteps
  <2>2. cached \in Nat /\ \A i \in DOMAIN seen : seen[i] \in Nat
    BY DEF TypeOK, Gens, Urls, NoUrl
  <2> QED
    BY <1>1, <2>1, <2>2, DictFacts DEF NoUrl
<1>2. CASE GetUrl
  <2>1. seen' \in Seq(Urls) /\ \A i \in DOMAIN seen' : seen'[i] <= gen
    BY <1>2, AppendFacts DEF GetUrl, TypeOK
  <2> QED
    BY <1>2, <2>1 DEF GetUrl, worker
<1>3. CASE PollAgain \/ PreemptionDetected
  BY <1>3 DEF PollAgain, PreemptionDetected, worker
<1>4. CASE CloseOldDriver
  BY <1>4 DEF CloseOldDriver, worker
<1>5. CASE OpenDriver
  <2>1. seen # <<>> /\ seen[1] # NoUrl /\ seen[1] <= gen
    BY <1>5, FreshFacts DEF OpenDriver
  <2>2. dict[1] # NoUrl => dict[1] >= seen[1]
    BY <1>5, <2>1 DEF OpenDriver, PollInv
  <2> QED
    BY <1>5, <2>1, <2>2 DEF OpenDriver, worker
<1>6. CASE UNCHANGED <<up, gen, dict, seen, cached, closed, held, events>>
  BY <1>6
<1> QED
  BY <1>1, <1>2, <1>3, <1>4, <1>5, <1>6, StepCases, Bystanders

LEMMA PollStep ==
  ASSUME RecoveryInv, [Next]_vars
  PROVE  PollInv'
<1> USE KeysFacts DEF RecoveryInv, PollInv
<1>1. CASE Preempt \/ Restart \/ Publish
  <2>1. UNCHANGED <<pc, seen, cached>>
    BY <1>1, WorkerSteps
  <2>2. seen # <<>> => seen[1] \in Nat /\ seen[1] <= gen
    BY DEF TypeOK, Gens, Urls, NoUrl, UrlInv
  <2> QED
    BY <1>1, <2>1, <2>2, DictFacts DEF NoUrl
<1>2. CASE GetUrl
  <2>1. CASE seen = <<>>
    <3>1. seen'[1] = dict[1] /\ seen' # <<>>
      BY <1>2, <2>1 DEF GetUrl
    <3>2. dict[1] \in Nat
      BY DEF TypeOK, Gens, Urls, NoUrl
    <3> QED
      BY <1>2, <3>1, <3>2 DEF GetUrl, UrlInv, worker
  <2>2. CASE seen # <<>>
    <3>1. seen'[1] = seen[1]
      BY <1>2, <2>2 DEF GetUrl, TypeOK
    <3> QED
      BY <1>2, <2>2, <3>1 DEF GetUrl, worker
  <2> QED
    BY <2>1, <2>2
<1>3. CASE PollAgain \/ PreemptionDetected
  BY <1>3 DEF PollAgain, PreemptionDetected
<1>4. CASE CloseOldDriver
  BY <1>4 DEF CloseOldDriver, worker
<1>5. CASE OpenDriver
  BY <1>5 DEF OpenDriver
<1>6. CASE StartCall \/ RpcEnds \/ AnchorRpcRaises \/ ReturnBlock \/ Finish
  BY <1>6 DEF StartCall, RpcEnds, AnchorRpcRaises, ReturnBlock, NextCall, Finish
<1>7. CASE BudgetExhausted \/ PollTimesOut \/ OpenFails \/ Interrupt
  BY <1>7, RaiseFacts DEF BudgetExhausted, PollTimesOut, OpenFails, Interrupt, CallInv
<1>8. CASE UNCHANGED vars
  BY <1>8 DEF vars, worker, factory
<1> QED
  BY <1>1, <1>2, <1>3, <1>4, <1>5, <1>6, <1>7, <1>8, StepCases

LEMMA HeldStep ==
  ASSUME RecoveryInv, [Next]_vars
  PROVE  HeldInv'
<1> USE DEF RecoveryInv, HeldInv
<1>1. CASE Preempt \/ Restart \/ Publish
  BY <1>1, WorkerSteps
<1>2. CASE GetUrl \/ PollAgain \/ PreemptionDetected
  BY <1>2 DEF GetUrl, PollAgain, PreemptionDetected, dispatcher
<1>3. CASE CloseOldDriver
  BY <1>3 DEF CloseOldDriver, dispatcher, TypeOK, Gens
<1>4. CASE OpenDriver
  <2>1. seen # <<>> /\ seen[1] # NoUrl /\ seen[1] \in Nat /\ cached \in Nat
    BY <1>4, FreshFacts DEF OpenDriver
  <2>2. seen[1] >= cached
    BY <1>4, <2>1 DEF OpenDriver, PollInv
  <2>3. cached \in closed
    BY <1>4 DEF OpenDriver, RecoveringInv
  <2>4. \A g \in closed : g \in Nat
    BY DEF TypeOK, Gens
  <2>5. \A g \in closed : g <= seen[1]
    BY <2>1, <2>2, <2>4
  <2>6. \A d \in Dispatchers : held'[d] = held[d] \/ held'[d] = seen[1]
    BY <1>4 DEF OpenDriver, TypeOK
  <2> QED
    BY <1>4, <2>3, <2>5, <2>6 DEF OpenDriver
<1>5. CASE UNCHANGED <<up, gen, dict, seen, cached, closed, held, events>>
  BY <1>5
<1> QED
  BY <1>1, <1>2, <1>3, <1>4, <1>5, StepCases, Bystanders

LEMMA ResultsStep ==
  ASSUME RecoveryInv, [Next]_vars
  PROVE  ResultsInv'
<1> USE DEF RecoveryInv, ResultsInv
<1>1. CASE Preempt \/ Restart \/ Publish
  BY <1>1, WorkerSteps DEF D
<1>2. CASE StartCall
  BY <1>2, EmptyFacts DEF StartCall
<1>3. CASE RpcEnds
  <2>1. PICK kind \in Outcomes(held[D]) :
          results' = Append(results, [by |-> held[D], kind |-> kind])
    BY <1>3 DEF RpcEnds
  <2>2. UNCHANGED <<pc, call, held, closed>>
    BY <1>3 DEF RpcEnds, dispatcher, factory
  <2>3. held[D] \in closed => kind = "raised"
    BY <2>1 DEF Outcomes
  <2>4. /\ DOMAIN results' = DOMAIN results \cup {Len(results) + 1}
        /\ results'[Len(results) + 1] = [by |-> held[D], kind |-> kind]
        /\ \A i \in DOMAIN results : results'[i] = results[i]
    <3>1. [by |-> held[D], kind |-> kind] \in [by : {held[D]}, kind : {kind}]
      OBVIOUS
    <3>2. results \in Seq(Result \cup {[by |-> held[D], kind |-> kind]})
      BY DEF TypeOK
    <3> QED
      BY <2>1, <3>2, AppendFacts
  <2> QED
    BY <1>3, <2>2, <2>3, <2>4 DEF RpcEnds, D
<1>4. CASE OpenDriver
  BY <1>4, EmptyFacts DEF OpenDriver
<1>5. CASE AnchorRpcRaises \/ ReturnBlock \/ PreemptionDetected \/ PollAgain \/ GetUrl \/ Finish
  BY <1>5 DEF AnchorRpcRaises, ReturnBlock, NextCall, PreemptionDetected, PollAgain, GetUrl, Finish
<1>6. CASE BudgetExhausted \/ PollTimesOut \/ OpenFails \/ Interrupt
  BY <1>6, RaiseFacts DEF BudgetExhausted, PollTimesOut, OpenFails, Interrupt, CallInv
<1>7. CASE CloseOldDriver
  BY <1>7 DEF CloseOldDriver
<1>8. CASE UNCHANGED vars
  BY <1>8 DEF vars, factory, dispatcher, D
<1> QED
  BY <1>1, <1>2, <1>3, <1>4, <1>5, <1>6, <1>7, <1>8, StepCases

\* A block that looks like a preemption was gathered on an open driver.
LEMMA TriggerNeedsOpenDriver ==
  ASSUME RecoveryInv, pc = "gather", Len(results) = N, Triggers(D, results)
  PROVE  held[D] \notin closed
<1> USE DEF RecoveryInv
<1>1. 1 \in DOMAIN results
  BY RecoveryAssumption DEF TypeOK
<1>2. \E i \in DOMAIN results : results[i].kind = "death"
  <2>1. CASE WholeBlockDeath(results)
    BY <1>1, <2>1 DEF WholeBlockDeath, IsDeath, TypeOK
  <2>2. CASE SomeDeath(results)
    BY <2>2 DEF SomeDeath, IsDeath
  <2> QED
    BY <2>1, <2>2 DEF Triggers
<1> QED
  BY <1>2 DEF ResultsInv

LEMMA RecoveringStep ==
  ASSUME RecoveryInv, [Next]_vars
  PROVE  RecoveringInv'
<1> USE DEF RecoveryInv, RecoveringInv
<1>1. CASE Preempt \/ Restart \/ Publish
  BY <1>1, WorkerSteps DEF D, Fresh
<1>2. CASE PreemptionDetected
  <2>1. call \in DOMAIN Schedule /\ held[D] \notin closed
    BY <1>2, TriggerNeedsOpenDriver DEF PreemptionDetected, CallInv
  <2>2. held[D] = cached
    BY <2>1, ScheduleFacts DEF HeldInv
  <2>3. events[Other(D)] = 0
    <3>1. ~(events[Other(D)] > 0)
      BY <2>1, ScheduleFacts DEF EventsInv, Other, Dispatchers
    <3> QED
      BY <2>1, <3>1, ScheduleFacts DEF TypeOK
  <2>4. UNCHANGED <<call, cached, closed, held, events>> /\ pc' = "poll" /\ events[D] < Budget
    BY <1>2 DEF PreemptionDetected
  <2> QED
    BY <2>1, <2>2, <2>3, <2>4 DEF D, Other
<1>3. CASE GetUrl \/ PollAgain
  BY <1>3 DEF GetUrl, PollAgain, dispatcher, D, Other
<1>4. CASE CloseOldDriver
  BY <1>4 DEF CloseOldDriver, dispatcher, D, Other, Fresh
<1>5. CASE StartCall \/ RpcEnds \/ AnchorRpcRaises \/ ReturnBlock \/ OpenDriver \/ Finish
  BY <1>5 DEF StartCall, RpcEnds, AnchorRpcRaises, ReturnBlock, NextCall, OpenDriver, Finish
<1>6. CASE BudgetExhausted \/ PollTimesOut \/ OpenFails \/ Interrupt
  BY <1>6, RaiseFacts DEF BudgetExhausted, PollTimesOut, OpenFails, Interrupt, CallInv
<1>7. CASE UNCHANGED vars
  BY <1>7 DEF vars, factory, dispatcher, D, Other, Fresh
<1> QED
  BY <1>1, <1>2, <1>3, <1>4, <1>5, <1>6, <1>7, StepCases

LEMMA EventsStep ==
  ASSUME RecoveryInv, [Next]_vars
  PROVE  EventsInv'
<1> USE DEF RecoveryInv, EventsInv
<1>1. CASE Preempt \/ Restart \/ Publish
  BY <1>1, WorkerSteps
<1>2. CASE GetUrl \/ PollAgain \/ PreemptionDetected
  BY <1>2 DEF GetUrl, PollAgain, PreemptionDetected, dispatcher
<1>3. CASE CloseOldDriver
  BY <1>3 DEF CloseOldDriver, dispatcher
<1>4. CASE OpenDriver
  <2>1. /\ call \in DOMAIN Schedule
        /\ D \in Dispatchers /\ Other(D) \in Dispatchers /\ D # Other(D)
    BY <1>4, ScheduleFacts DEF OpenDriver, CallInv
  <2>2. events[Other(D)] = 0 /\ events[D] < Budget /\ cached \in closed
    BY <1>4 DEF OpenDriver, RecoveringInv
  <2>3. held[Other(D)] \in closed
    BY <2>1, <2>2 DEF HeldInv
  <2>4. /\ events'[D] = events[D] + 1 /\ events'[Other(D)] = 0
        /\ held'[Other(D)] = held[Other(D)] /\ closed' = closed
    BY <1>4, <2>1, <2>2 DEF OpenDriver, TypeOK
  <2>5. events[D] + 1 <= Budget /\ 0 <= Budget /\ ~(0 > 0)
    BY <2>1, <2>2, RecoveryAssumption DEF TypeOK
  <2>6. \A d \in Dispatchers : d = D \/ d = Other(D)
    BY <2>1 DEF Dispatchers
  <2> QED
    BY <2>1, <2>3, <2>4, <2>5, <2>6
<1>5. CASE UNCHANGED <<up, gen, dict, seen, cached, closed, held, events>>
  BY <1>5
<1> QED
  BY <1>1, <1>2, <1>3, <1>4, <1>5, StepCases, Bystanders

----------------------------------------------------------------------------
(* The theorems.                                                           *)

\* The inductive invariant holds in every reachable state.
THEOREM RecoveryInvariant == Spec => []RecoveryInv
<1>1. RecoveryInv /\ [Next]_vars => RecoveryInv'
  BY TypeStep, CallStep, UrlStep, PollStep, HeldStep, ResultsStep, RecoveringStep, EventsStep
     DEF RecoveryInv
<1> QED
  BY <1>1, InitInv, PTL DEF Spec

\* Type correctness of the recovery machinery.
THEOREM RecoveryTypeCorrect == Spec => []TypeOK
<1>1. RecoveryInv => TypeOK
  BY DEF RecoveryInv
<1> QED
  BY <1>1, RecoveryInvariant, PTL

\* In every sweep at most one of the two dispatchers recovers.
THEOREM OneRecovers == Spec => []OneDispatcherRecovers
<1>1. RecoveryInv => OneDispatcherRecovers
  BY DEF RecoveryInv, EventsInv, TypeOK, Dispatchers, Other, OneDispatcherRecovers
<1> QED
  BY <1>1, RecoveryInvariant, PTL

\* The preemption threshold bounds the recoveries of a whole sweep, not only
\* those of one dispatcher.
THEOREM BudgetBoundsSweep == Spec => []SweepWideBudget
<1>1. RecoveryInv => SweepWideBudget
  <2> SUFFICES ASSUME RecoveryInv PROVE SweepWideBudget
    OBVIOUS
  <2>1. /\ events["block"] \in Nat /\ events["anchor"] \in Nat
        /\ events["block"] <= Budget /\ events["anchor"] <= Budget
        /\ events["block"] = 0 \/ events["anchor"] = 0
    BY DEF RecoveryInv, EventsInv, TypeOK, Dispatchers, Other
  <2> QED
    BY <2>1 DEF SweepWideBudget
<1> QED
  BY <1>1, RecoveryInvariant, PTL

\* The machinery implements the lease: one open driver, ever newer workers,
\* at most Budget renewals.
THEOREM RecoveryImplementsLease == Spec => ImplementsLease
<1>1. Init => Lease!LeaseInit
  BY DEF Init, Lease!LeaseInit, Dispatchers
<1>2. ASSUME RecoveryInv, [Next]_vars
      PROVE  [Lease!LeaseNext]_(Lease!leaseVars)
  <2> USE <1>2 DEF Lease!LeaseNext, Lease!leaseVars, Lease!Revoke, Lease!Renew
  <2>1. CASE Preempt \/ Restart \/ Publish
    BY <2>1, WorkerSteps
  <2>2. CASE GetUrl \/ PollAgain \/ PreemptionDetected
    BY <2>2 DEF GetUrl, PollAgain, PreemptionDetected, dispatcher
  <2>3. CASE CloseOldDriver
    <3>1. cached \notin closed /\ cached' \in closed' /\ UNCHANGED <<cached, events>>
      BY <2>3 DEF CloseOldDriver, RecoveryInv, RecoveringInv, dispatcher
    <3> QED
      BY <3>1
  <2>4. CASE OpenDriver
    <3>1. cached < seen[1] /\ cached' = seen[1] /\ seen[1] \in Nat
      BY <2>4, FreshFacts DEF OpenDriver
    <3>2. cached \in closed /\ cached' \notin closed'
      BY <2>4, <3>1 DEF OpenDriver, factory, RecoveryInv, RecoveringInv, HeldInv, TypeOK, Gens
    <3>3. D \in Dispatchers /\ events[Other(D)] = 0 /\ events[D] < Budget
      BY <2>4, ScheduleFacts DEF OpenDriver, RecoveryInv, RecoveringInv, CallInv
    <3>4. /\ events["block"] + events["anchor"] < Budget
          /\ events'["block"] + events'["anchor"] = events["block"] + events["anchor"] + 1
      BY <2>4, <3>3 DEF OpenDriver, RecoveryInv, TypeOK, Dispatchers, Other
    <3> QED
      BY <3>1, <3>2, <3>4
  <2>5. CASE UNCHANGED <<up, gen, dict, seen, cached, closed, held, events>>
    BY <2>5
  <2> QED
    BY <2>1, <2>2, <2>3, <2>4, <2>5, StepCases, Bystanders
<1> QED
  BY <1>1, <1>2, RecoveryInvariant, PTL DEF Spec, ImplementsLease, Lease!LeaseSpec

\* A dispatcher that loses its driver never measures anything again.
THEOREM LostForever == Spec => LostStaysLost
<1>1. ASSUME RecoveryInv, [Next]_vars
      PROVE  [\A d \in Dispatchers :
                held[d] \in closed /\ ~Recovering(d) =>
                  /\ held'[d] = held[d] /\ held'[d] \in closed'
                  /\ ~(pc' = "poll" /\ D = d)
                  /\ log' # log /\ D = d => log'[Len(log')].used = {}]_vars
  <2> SUFFICES ASSUME NEW d \in Dispatchers, held[d] \in closed, ~Recovering(d)
               PROVE  /\ held'[d] = held[d] /\ held'[d] \in closed'
                      /\ ~(pc' = "poll" /\ D = d)
                      /\ log' # log /\ D = d => log'[Len(log')].used = {}
    OBVIOUS
  <2> USE <1>1 DEF RecoveryInv
  <2>a. /\ pc = "poll" => held[D] \notin closed
        /\ pc = "open" => D # d
    BY DEF RecoveringInv, Recovering
  <2>b. ASSUME NEW rs \in Seq(Result), NEW ending, NextCall(ending, rs), TimedBy(rs) = {}
        PROVE  log'[Len(log')].used = {}
    BY <2>b DEF NextCall, TypeOK
  <2>c. <<>> \in Seq(Result) /\ TimedBy(<<>>) = {}
    BY EmptyFacts DEF TimedBy
  <2>1. CASE Preempt \/ Restart \/ Publish
    BY <2>1, <2>a, WorkerSteps
  <2>2. CASE StartCall \/ RpcEnds \/ AnchorRpcRaises \/ Finish
    BY <2>2 DEF StartCall, RpcEnds, AnchorRpcRaises, Finish, dispatcher, factory
  <2>3. CASE ReturnBlock
    <3>1. D = d => TimedBy(results) = {}
      BY <2>3 DEF ReturnBlock, ResultsInv, TimedBy
    <3> QED
      BY <2>3, <2>b, <3>1 DEF ReturnBlock, NextCall, factory, TypeOK
  <2>4. CASE BudgetExhausted \/ PollTimesOut \/ OpenFails \/ Interrupt
    <3>1. PICK ending \in {"budget", "recovery", "interrupt"} : Raise(ending)
      BY <2>4 DEF BudgetExhausted, PollTimesOut, OpenFails, Interrupt
    <3>2. UNCHANGED <<held, closed>>
      BY <2>4, Bystanders
    <3>3. pc' # "poll"
      BY <3>1 DEF Raise, NextCall
    <3>4. log' # log => log'[Len(log')].used = {}
      BY <3>1, <2>b, <2>c DEF Raise
    <3> QED
      BY <3>2, <3>3, <3>4
  <2>5. CASE PreemptionDetected
    <3>1. held[D] \notin closed
      BY <2>5, TriggerNeedsOpenDriver DEF PreemptionDetected
    <3> QED
      BY <2>5, <3>1 DEF PreemptionDetected
  <2>6. CASE GetUrl \/ PollAgain
    BY <2>6, <2>a DEF GetUrl, PollAgain, dispatcher
  <2>7. CASE CloseOldDriver
    BY <2>7 DEF CloseOldDriver, dispatcher
  <2>8. CASE OpenDriver
    BY <2>8, <2>a, FreshFacts DEF OpenDriver, TypeOK
  <2>9. CASE UNCHANGED vars
    BY <2>9, <2>a DEF vars, dispatcher, factory
  <2> QED
    BY <2>1, <2>2, <2>3, <2>4, <2>5, <2>6, <2>7, <2>8, <2>9, StepCases
<1> QED
  BY <1>1, RecoveryInvariant, PTL DEF Spec, LostStaysLost

LEMMA AtMostOne ==
  ASSUME NEW S, NEW g, S \subseteq {g}
  PROVE  Cardinality(S) <= 1
<1>1. CASE S = {}
  BY <1>1, FS_EmptySet
<1>2. CASE S = {g}
  <2>1. Cardinality({g}) = 1
    BY FS_Singleton
  <2> QED
    BY <1>2, <2>1
<1> QED
  BY <1>1, <1>2

\* What a step can add to the log.
LEMMA LogStep ==
  ASSUME RecoveryInv, [Next]_vars
  PROVE  \/ log' = log
         \/ \E e : log' = Append(log, e) /\ e.used \subseteq {held[D]}
<1> USE DEF RecoveryInv
<1>1. CASE Preempt \/ Restart \/ Publish
  BY <1>1, WorkerSteps
<1>2. CASE StartCall \/ RpcEnds \/ AnchorRpcRaises \/ Finish \/ UNCHANGED vars
  BY <1>2 DEF StartCall, RpcEnds, AnchorRpcRaises, Finish, vars
<1>3. CASE PreemptionDetected \/ GetUrl \/ PollAgain \/ CloseOldDriver \/ OpenDriver
  BY <1>3 DEF PreemptionDetected, GetUrl, PollAgain, CloseOldDriver, OpenDriver
<1>4. CASE ReturnBlock
  <2>1. TimedBy(results) \subseteq {held[D]}
    BY <1>4 DEF ReturnBlock, ResultsInv, TimedBy
  <2> DEFINE e == [who |-> D, ending |-> "returned", used |-> TimedBy(results),
                   death |-> SomeDeath(results)]
  <2>2. log' = Append(log, e) /\ e.used = TimedBy(results)
    BY <1>4 DEF ReturnBlock, NextCall
  <2> QED
    BY <2>1, <2>2
<1>5. CASE BudgetExhausted \/ PollTimesOut \/ OpenFails \/ Interrupt
  <2>1. PICK ending \in {"budget", "recovery", "interrupt"} : Raise(ending)
    BY <1>5 DEF BudgetExhausted, PollTimesOut, OpenFails, Interrupt
  <2> DEFINE e == [who |-> D, ending |-> ending, used |-> TimedBy(<<>>),
                   death |-> SomeDeath(<<>>)]
  <2>2. log' = log \/ log' = Append(log, e)
    BY <2>1 DEF Raise, NextCall
  <2>3. e.used \subseteq {held[D]}
    BY EmptyFacts DEF TimedBy
  <2> QED
    BY <2>2, <2>3
<1> QED
  BY <1>1, <1>2, <1>3, <1>4, <1>5, StepCases

\* No block is assembled from timings of two drivers.
THEOREM OneDriverPerBlock == Spec => []BlockFromOneDriver
<1>1. Init => BlockFromOneDriver
  BY DEF Init, BlockFromOneDriver
<1>2. ASSUME RecoveryInv, RecoveryInv', BlockFromOneDriver, [Next]_vars
      PROVE  BlockFromOneDriver'
  <2>1. CASE log' = log
    BY <1>2, <2>1 DEF BlockFromOneDriver
  <2>2. CASE log' # log
    <3>1. PICK e : log' = Append(log, e) /\ e.used \subseteq {held[D]}
      BY <1>2, <2>2, LogStep
    <3>2. Cardinality(e.used) <= 1
      BY <3>1, AtMostOne
    <3>3. \A i \in DOMAIN log' : log'[i] = e \/ (i \in DOMAIN log /\ log'[i] = log[i])
      BY <1>2, <3>1 DEF RecoveryInv, TypeOK
    <3> QED
      BY <1>2, <3>2, <3>3 DEF BlockFromOneDriver
  <2> QED
    BY <2>1, <2>2
<1> QED
  BY <1>1, <1>2, RecoveryInvariant, PTL DEF Spec

----------------------------------------------------------------------------
(***************************************************************************)
(* The streaks of endpoint deaths.                                         *)
(***************************************************************************)
\* A streak read off a log: EarnedBy(l, d, k) says that k is the number of
\* blocks that d returned after some point of l, all of them with a death.
Since(l, d, m) == {i \in m + 1 .. Len(l) : l[i].who = d /\ l[i].ending = "returned"}
EarnedBy(l, d, k) ==
  \E m \in 0 .. Len(l) :
    /\ Cardinality(Since(l, d, m)) = k
    /\ \A i \in Since(l, d, m) : l[i].death

LEMMA StreakEarnedIs ==
  StreakEarned <=> \A d \in Dispatchers : streak[d] < DeathThreshold /\ EarnedBy(log, d, streak[d])
  BY DEF StreakEarned, ReturnedSince, EarnedBy, Since

\* A streak of none is earned by every log.
LEMMA NoneEarned ==
  ASSUME NEW l \in Seq(Entry), NEW d
  PROVE  EarnedBy(l, d, 0)
<1>1. Len(l) \in 0 .. Len(l) /\ Len(l) + 1 .. Len(l) = {}
  OBVIOUS
<1>2. Since(l, d, Len(l)) = {}
  BY <1>1 DEF Since
<1>3. Cardinality(Since(l, d, Len(l))) = 0
  BY <1>2, FS_EmptySet
<1> QED
  BY <1>1, <1>2, <1>3 DEF EarnedBy

\* What one more entry does to a streak.
LEMMA OneMoreEntry ==
  ASSUME NEW l \in Seq(Entry), NEW e \in Entry, NEW d, NEW k \in Nat, EarnedBy(l, d, k)
  PROVE  /\ e.who # d \/ e.ending # "returned" => EarnedBy(Append(l, e), d, k)
         /\ e.who = d /\ e.ending = "returned" /\ e.death => EarnedBy(Append(l, e), d, k + 1)
<1> DEFINE l2 == Append(l, e)
           n  == Len(l) + 1
<1>1. /\ Len(l) \in Nat /\ Len(l2) = n /\ l2[n] = e
      /\ \A i \in 1 .. Len(l) : l2[i] = l[i]
  BY AppendFacts
<1>2. PICK m \in 0 .. Len(l) : /\ Cardinality(Since(l, d, m)) = k
                               /\ \A i \in Since(l, d, m) : l[i].death
  BY DEF EarnedBy
<1>3. m \in Nat /\ m <= Len(l) /\ m \in 0 .. n
  BY <1>1, <1>2
<1> DEFINE old == Since(l, d, m)
<1> HIDE DEF l2
<1>4. m + 1 .. n = (m + 1 .. Len(l)) \cup {n}
  BY <1>1, <1>3
<1>5. \A i \in m + 1 .. Len(l) : i \in 1 .. Len(l) /\ i # n
  BY <1>1, <1>3
<1>6. /\ old \subseteq m + 1 .. Len(l) /\ n \notin old
      /\ \A i \in old : l2[i] = l[i]
  BY <1>1, <1>5 DEF Since
<1>7. ASSUME e.who # d \/ e.ending # "returned"
      PROVE  EarnedBy(l2, d, k)
  <2>1. Since(l2, d, m) = old
    BY <1>1, <1>4, <1>5, <1>7 DEF Since
  <2> QED
    BY <1>1, <1>2, <1>3, <1>6, <2>1 DEF EarnedBy
<1>8. ASSUME e.who = d, e.ending = "returned", e.death
      PROVE  EarnedBy(l2, d, k + 1)
  <2>1. Since(l2, d, m) = old \cup {n}
    BY <1>1, <1>4, <1>5, <1>8 DEF Since
  <2>2. IsFiniteSet(old)
    <3>1. IsFiniteSet(m + 1 .. Len(l))
      BY <1>1, <1>3, FS_Interval
    <3> QED
      BY <1>6, <3>1, FS_Subset
  <2>3. Cardinality(old \cup {n}) = k + 1
    <3>1. Cardinality(old \cup {n}) = Cardinality(old) + 1
      BY <1>6, <2>2, FS_AddElement
    <3> QED
      BY <1>2, <3>1
  <2>4. \A i \in Since(l2, d, m) : l2[i].death
    BY <1>1, <1>2, <1>6, <1>8, <2>1
  <2> QED
    BY <1>1, <1>3, <2>1, <2>3, <2>4 DEF EarnedBy
<1> QED
  BY <1>7, <1>8 DEF l2

\* What an exception out of a dispatcher adds to the log is no returned block.
LEMMA RaiseKeepsStreak ==
  ASSUME RecoveryInv, call \in DOMAIN Schedule, NEW ending \in {"budget", "recovery", "interrupt"},
         Raise(ending), NEW d, NEW k \in Nat, EarnedBy(log, d, k)
  PROVE  EarnedBy(log', d, k) /\ log' \in Seq(Entry)
<1>1. log \in Seq(Entry)
  BY DEF RecoveryInv, TypeOK
<1>2. log' \in Seq(Entry)
  BY RaiseFacts DEF RecoveryInv
<1> DEFINE e == [who |-> D, ending |-> ending, used |-> TimedBy(<<>>),
                 death |-> SomeDeath(<<>>)]
<1>3. log' = log \/ log' = Append(log, e)
  BY DEF Raise, NextCall
<1>4. e \in Entry /\ e.ending # "returned"
  BY EmptyFacts, EntryFacts DEF Endings
<1> HIDE DEF e
<1>5. EarnedBy(Append(log, e), d, k)
  BY <1>1, <1>4, OneMoreEntry
<1> QED
  BY <1>2, <1>3, <1>5

LEMMA StreakStep ==
  ASSUME RecoveryInv, RecoveryInv', StreakEarned, [Next]_vars
  PROVE  StreakEarned'
<1>1. /\ log \in Seq(Entry) /\ log' \in Seq(Entry)
      /\ streak \in [Dispatchers -> Nat] /\ results \in Seq(Result)
      /\ DeathThreshold \in Nat \ {0}
  BY RecoveryAssumption DEF RecoveryInv, TypeOK
<1>2. \A d \in Dispatchers : streak[d] < DeathThreshold /\ EarnedBy(log, d, streak[d])
  BY StreakEarnedIs
<1> SUFFICES ASSUME NEW d \in Dispatchers
             PROVE  streak'[d] < DeathThreshold /\ EarnedBy(log', d, streak'[d])
  BY DEF StreakEarned, ReturnedSince, EarnedBy, Since
<1>a. ASSUME UNCHANGED <<streak, log>>
      PROVE  streak'[d] < DeathThreshold /\ EarnedBy(log', d, streak'[d])
  BY <1>2, <1>a
<1>b. ASSUME streak'[d] = 0
      PROVE  streak'[d] < DeathThreshold /\ EarnedBy(log', d, streak'[d])
  BY <1>1, <1>b, NoneEarned
<1>3. CASE Preempt \/ Restart \/ Publish
  BY <1>3, <1>a, WorkerSteps
<1>4. CASE StartCall \/ RpcEnds \/ AnchorRpcRaises \/ Finish \/ UNCHANGED vars
  BY <1>4, <1>a DEF StartCall, RpcEnds, AnchorRpcRaises, Finish, vars, dispatcher
<1>5. CASE GetUrl \/ PollAgain \/ CloseOldDriver \/ OpenDriver
  BY <1>5, <1>a DEF GetUrl, PollAgain, CloseOldDriver, OpenDriver, dispatcher
<1>6. CASE PreemptionDetected
  <2>1. streak' = [streak EXCEPT ![D] = 0] /\ log' = log
    BY <1>6 DEF PreemptionDetected
  <2>2. CASE d = D
    BY <1>1, <1>b, <2>1, <2>2
  <2>3. CASE d # D
    BY <1>1, <1>2, <2>1, <2>3
  <2> QED
    BY <2>2, <2>3
<1>7. CASE BudgetExhausted
  <2>1. /\ streak' = [streak EXCEPT ![D] = 0] /\ Raise("budget")
        /\ call \in DOMAIN Schedule
    BY <1>7 DEF BudgetExhausted, RecoveryInv, CallInv
  <2>2. CASE d = D
    BY <1>1, <1>b, <2>1, <2>2
  <2>3. CASE d # D
    BY <1>1, <1>2, <2>1, <2>3, RaiseKeepsStreak
  <2> QED
    BY <2>2, <2>3
<1>8. CASE PollTimesOut \/ OpenFails \/ Interrupt
  <2>1. PICK ending \in {"budget", "recovery", "interrupt"} : Raise(ending)
    BY <1>8 DEF PollTimesOut, OpenFails, Interrupt
  <2>2. streak' = streak /\ call \in DOMAIN Schedule
    BY <1>8 DEF PollTimesOut, OpenFails, Interrupt, dispatcher, RecoveryInv, CallInv
  <2> QED
    BY <1>1, <1>2, <2>1, <2>2, RaiseKeepsStreak
<1>9. CASE ReturnBlock
  <2>1. /\ ~Triggers(D, results) /\ D \in Dispatchers /\ call \in DOMAIN Schedule
        /\ streak' = [streak EXCEPT ![D] = StreakAfter(D, results)]
    BY <1>9, ScheduleFacts DEF ReturnBlock, RecoveryInv, CallInv
  <2> DEFINE e == [who |-> D, ending |-> "returned", used |-> TimedBy(results),
                   death |-> SomeDeath(results)]
  <2>2. log' = Append(log, e)
    BY <1>9 DEF ReturnBlock, NextCall
  <2>3. e \in Entry /\ e.who = D /\ e.ending = "returned" /\ e.death = SomeDeath(results)
    BY <1>1, <2>1, EntryFacts DEF Endings
  <2> HIDE DEF e
  <2>4. CASE d # D
    <3>1. streak'[d] = streak[d]
      BY <1>1, <2>1, <2>4
    <3>2. EarnedBy(log', d, streak[d])
      BY <1>1, <1>2, <2>2, <2>3, <2>4, OneMoreEntry
    <3> QED
      BY <1>2, <3>1, <3>2
  <2>5. CASE d = D /\ ~SomeDeath(results)
    BY <1>1, <1>b, <2>1, <2>5 DEF StreakAfter
  <2>6. CASE d = D /\ SomeDeath(results)
    <3>1. streak'[d] = streak[d] + 1 /\ streak[d] \in Nat
      BY <1>1, <2>1, <2>6 DEF StreakAfter
    <3>2. streak[d] + 1 < DeathThreshold
      BY <1>1, <2>1, <2>6, <3>1 DEF Triggers
    <3>3. EarnedBy(log', d, streak[d] + 1)
      BY <1>1, <1>2, <2>2, <2>3, <2>6, <3>1, OneMoreEntry
    <3> QED
      BY <3>1, <3>2, <3>3
  <2> QED
    BY <2>4, <2>5, <2>6
<1> QED
  BY <1>3, <1>4, <1>5, <1>6, <1>7, <1>8, <1>9, StepCases

\* A dispatcher's counter of death blocks is the number of blocks it has just
\* returned with a death, and the threshold is never passed unnoticed.
THEOREM StreaksAreEarned == Spec => []StreakEarned
<1>1. Init => StreakEarned
  <2> SUFFICES ASSUME Init, NEW d \in Dispatchers
               PROVE  streak[d] < DeathThreshold /\ EarnedBy(log, d, streak[d])
    BY StreakEarnedIs
  <2>1. log \in Seq(Entry) /\ streak[d] = 0
    BY EmptyFacts DEF Init
  <2> QED
    BY <2>1, NoneEarned, RecoveryAssumption
<1>2. RecoveryInv /\ RecoveryInv' /\ StreakEarned /\ [Next]_vars => StreakEarned'
  BY StreakStep
<1> QED
  BY <1>1, <1>2, RecoveryInvariant, PTL DEF Spec

----------------------------------------------------------------------------
(* The variant of the sweep task.                                          *)

\* How the number of recoveries changes, from the dispatchers' counters.
LEMMA RecoveriesFacts ==
  ASSUME RecoveryInv
  PROVE  /\ events["block"] \in Nat /\ events["anchor"] \in Nat
         /\ Recoveries = events["block"] + events["anchor"]
         /\ events' = events => Recoveries' = Recoveries
  BY DEF RecoveryInv, TypeOK, Dispatchers, Recoveries

\* A call that ends is followed by the next one, and there are Len(Schedule).
LEMMA NextCallIsForward ==
  ASSUME TypeOK, call \in DOMAIN Schedule, call' = call + 1
  PROVE  Forward
<1>1. call \in Nat /\ Len(Schedule) \in Nat /\ call <= Len(Schedule)
  BY RecoveryAssumption
<1>2. call' > call /\ call' <= Len(Schedule) + 1
  BY <1>1
<1> QED
  BY <1>2 DEF Forward

\* An exception ends the sweep or the call.
LEMMA RaiseIsForward ==
  ASSUME TypeOK, call \in DOMAIN Schedule, NEW ending, Raise(ending)
  PROVE  Forward
<1>1. CASE D = "block"
  BY <1>1, NextCallIsForward DEF Raise, NextCall
<1>2. CASE D # "block"
  BY <1>2 DEF Raise, Forward
<1> QED
  BY <1>1, <1>2

\* A step to a later stage of the same call.
LEMMA StageIsForward ==
  ASSUME RecoveryInv, call' = call, events' = events,
         \/ pc = "idle" /\ pc' = "gather"
         \/ pc = "gather" /\ pc' = "poll"
         \/ pc = "poll" /\ pc' = "open"
  PROVE  Forward
<1>1. Recoveries' = Recoveries
  BY RecoveriesFacts
<1>2. StagesLeft' < StagesLeft
  BY DEF StagesLeft
<1> QED
  BY <1>1, <1>2 DEF Forward

\* Every step of the sweep task goes forward or polls once more, for any
\* schedule, budget and threshold, whatever the workers do.
THEOREM CallsAlwaysGoForward == Spec => CallsGoForward
<1>1. ASSUME RecoveryInv, RecoveryInv', Sweep PROVE PollAgain \/ Forward
  <2>1. /\ TypeOK /\ TypeOK' /\ CallInv
        /\ pc \in {"gather", "poll", "open"} => call \in DOMAIN Schedule
    BY <1>1 DEF RecoveryInv, CallInv
  <2>2. CASE StartCall
    BY <1>1, <2>2, StageIsForward DEF StartCall, dispatcher
  <2>3. CASE RpcEnds
    <3>1. /\ pc' = pc /\ call' = call /\ events' = events
          /\ \E r : results' = Append(results, r)
      BY <2>3 DEF RpcEnds, dispatcher
    <3>2. Len(results') > Len(results)
      BY <2>1, <3>1 DEF TypeOK
    <3>3. Len(results') <= N
      BY <2>1 DEF TypeOK
    <3>4. StagesLeft' = StagesLeft /\ Recoveries' = Recoveries
      BY <1>1, <3>1, RecoveriesFacts DEF StagesLeft
    <3> QED
      BY <3>1, <3>2, <3>3, <3>4 DEF Forward
  <2>4. CASE AnchorRpcRaises \/ Finish
    BY <2>4 DEF AnchorRpcRaises, Finish, Forward
  <2>5. CASE ReturnBlock
    BY <2>1, <2>5, NextCallIsForward DEF ReturnBlock, NextCall
  <2>6. CASE BudgetExhausted \/ PollTimesOut \/ OpenFails
    BY <2>1, <2>6, RaiseIsForward DEF BudgetExhausted, PollTimesOut, OpenFails
  <2>7. CASE PreemptionDetected
    BY <1>1, <2>7, StageIsForward DEF PreemptionDetected
  <2>8. CASE GetUrl
    <3>1. /\ pc' = pc /\ call' = call /\ events' = events /\ results' = results
          /\ \E u : seen' = Append(seen, u)
      BY <2>8 DEF GetUrl, dispatcher
    <3>2. Len(seen') > Len(seen)
      BY <2>1, <3>1 DEF TypeOK
    <3>3. Len(seen') <= Len(Keys)
      BY <2>1 DEF TypeOK
    <3>4. StagesLeft' = StagesLeft /\ Recoveries' = Recoveries
      BY <1>1, <3>1, RecoveriesFacts DEF StagesLeft
    <3> QED
      BY <3>1, <3>2, <3>3, <3>4 DEF Forward
  <2>9. CASE CloseOldDriver
    BY <1>1, <2>9, StageIsForward DEF CloseOldDriver, dispatcher
  <2>10. CASE OpenDriver
    <3>1. /\ D \in Dispatchers /\ Other(D) \in Dispatchers /\ D # Other(D)
          /\ events[Other(D)] = 0 /\ events[D] < Budget
      BY <1>1, <2>1, <2>10, ScheduleFacts DEF OpenDriver, RecoveryInv, RecoveringInv
    <3>2. events'[D] = events[D] + 1 /\ events'[Other(D)] = events[Other(D)] /\ call' = call
      BY <2>1, <2>10, <3>1 DEF OpenDriver, TypeOK
    <3>3. \/ D = "block" /\ Other(D) = "anchor"
          \/ D = "anchor" /\ Other(D) = "block"
      BY <3>1 DEF Dispatchers
    <3>4. /\ Recoveries = events["block"] + events["anchor"]
          /\ Recoveries' = events'["block"] + events'["anchor"]
          /\ events["block"] \in Nat /\ events["anchor"] \in Nat
      BY <1>1, RecoveriesFacts DEF Recoveries
    <3>5. Recoveries' > Recoveries /\ Recoveries' <= Budget
      BY <3>1, <3>2, <3>3, <3>4, RecoveryAssumption
    <3> QED
      BY <3>2, <3>5 DEF Forward
  <2> QED
    BY <1>1, <2>2, <2>3, <2>4, <2>5, <2>6, <2>7, <2>8, <2>9, <2>10 DEF Sweep, MakeDriver
<1> QED
  BY <1>1, RecoveryInvariant, PTL DEF Spec, CallsGoForward
============================================================================
