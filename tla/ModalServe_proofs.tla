-------------------------- MODULE ModalServe_proofs --------------------------
(***************************************************************************)
(* The invariants of ModalServe for any of its programs, any number of     *)
(* restarts and any remainder of an earlier run.                           *)
(***************************************************************************)
EXTENDS ModalServe, TLAPS

\* What the numbers, keys and workers are.
LEMMA Facts ==
  /\ First \in Ours /\ Absent \notin Ours /\ Earlier \notin Ours /\ Absent # Earlier
  /\ \A k \in {"addr", "cold", "stop"}, s \in Sides : <<k, s>> \in Keys
  /\ \A s \in Sides, n \in Ours : <<s, n>> \in Workers
  /\ \A w \in Workers : w[1] \in Sides /\ w[2] \in Ours /\ w = <<w[1], w[2]>>
  /\ "rest" \in Sides /\ "grpc" \in Sides /\ \A s \in Sides : s \in {"rest", "grpc"}
  BY ServeAssumption DEF ServeAssumption, First, Earlier, Absent, Ours, Keys, Workers, Sides

\* The steps of the main program that neither spawn a worker nor end them all.
Alone ==
  \/ Clear \/ ReadAddr \/ AddrTimeout \/ ReadCold \/ StartProxy \/ SeeHealthy \/ NeverHealthy
  \/ LoadCorpus \/ Measure \/ MeasureFails \/ Finally \/ PutStop \/ Write \/ Remote
  \/ Interrupt \/ Killed

\* The steps of a worker.
Moves(w) == WorkerStep(w) \/ Raises(w)

\* The ways a step goes.
LEMMA StepCases ==
  ASSUME Next
  PROVE  \/ Alone \/ Spawn \/ StopApp \/ ProxyStep
         \/ \E w \in Workers : Moves(w) \/ ChildStep(w)
         \/ \E w \in Workers, again \in BOOLEAN : Dies(w, again)
  BY Facts DEF Next, Main, Worker, Alone, Moves

\* A worker that starts and its server have the types of the others.
LEMMA BootTypes ==
  ASSUME TypeOK, NEW w \in Workers, Boot(w)
  PROVE  /\ worker' \in [Workers -> Working \cup {"off", "ok", "error", "raised", "gone"}]
         /\ child' \in [Workers -> {"off", "loading", "up", "stuck", "dead"}]
  BY DEF TypeOK, Boot, Working

\* Every variable keeps its type.
LEMMA TypeKept == TypeOK /\ DictInv /\ [Next]_vars => TypeOK'
<1> SUFFICES ASSUME TypeOK, DictInv, [Next]_vars PROVE TypeOK'
  OBVIOUS
<1> USE Facts DEF TypeOK, mainVars, workerVars, Goto, Exit, Continue, Values
<1>1. CASE Clear
  BY <1>1 DEF Clear
<1>2. CASE Spawn
  <2>1. <<side, First>> \in Workers
    OBVIOUS
  <2> QED
    BY <1>2, <2>1, BootTypes DEF Spawn, Boot
<1>3. CASE ReadAddr \/ ReadCold
  <2>1. dict[<<"addr", side>>] \in Values /\ dict[<<"cold", side>>] \in Values
    OBVIOUS
  <2>2. pc \notin {"clear", "exit"}
    BY <1>3 DEF ReadAddr, ReadCold
  <2>3. dict[<<"addr", side>>] # Earlier /\ dict[<<"cold", side>>] # Earlier
    BY <2>2 DEF DictInv
  <2> QED
    BY <1>3, <2>1, <2>3 DEF ReadAddr, ReadCold
<1>4. CASE AddrTimeout \/ Write \/ Killed
  BY <1>4 DEF AddrTimeout, Write, Killed
<1>5. CASE StartProxy \/ SeeHealthy
  BY <1>5 DEF StartProxy, SeeHealthy
<1>6. CASE LoadCorpus
  BY <1>6 DEF LoadCorpus, Stages
<1>7. CASE MeasureFails
  BY <1>7 DEF MeasureFails
<1>8. CASE NeverHealthy
  <2>1. First \in Values /\ dict' \in [Keys -> Values]
    BY <1>8 DEF NeverHealthy
  <2> QED
    BY <1>8, <2>1 DEF NeverHealthy
<1>9. CASE PutStop
  <2>1. First \in Values /\ dict' \in [Keys -> Values]
    BY <1>9 DEF PutStop
  <2>2. side' \in Sides /\ pc' \in {"stop", "write", "exit"} /\ exit' \in {"none", "ok", "failed"}
    BY <1>9 DEF PutStop
  <2> QED
    BY <1>9, <2>1, <2>2 DEF PutStop
<1>10. CASE Interrupt
  BY <1>10 DEF Interrupt
<1>11. CASE Measure
  <2>1. \A p \in PathsOf(stage) : TargetOf(p) \in Values
    BY DEF TargetOf
  <2>2. measured' \subseteq Values
    BY <1>11, <2>1 DEF Measure
  <2>3. pc' \in {"spawn", "finally", "measure"} /\ side' \in Sides /\ stage' \in Stages
    BY <1>11 DEF Measure, After, Stages
  <2> QED
    BY <1>11, <2>2, <2>3 DEF Measure
<1>12. CASE Finally
  BY <1>12 DEF Finally
<1>13. CASE Remote
  BY <1>13 DEF Remote
<1>14. CASE StopApp
  BY <1>14 DEF StopApp, Working
<1>15. CASE ProxyStep
  BY <1>15 DEF ProxyStep
<1>16. ASSUME NEW w \in Workers, ChildStep(w) PROVE TypeOK'
  BY <1>16 DEF ChildStep
<1>17. ASSUME NEW w \in Workers, NEW again \in BOOLEAN, Dies(w, again) PROVE TypeOK'
  <2>1. UNCHANGED <<program, dict, mainVars, orphan, stop>> /\ proxy' \in {"off", proxy}
    BY <1>17 DEF Dies
  <2>2. CASE again
    <3> DEFINE v == <<w[1], w[2] + 1>>
    <3>1. worker' = [worker EXCEPT ![w] = "gone", ![v] = "boot"]
      BY <1>17, <2>2 DEF Dies
    <3>2. child' = [child EXCEPT ![w] = "dead", ![v] = "loading"]
      BY <1>17, <2>2 DEF Dies
    <3> HIDE DEF v
    <3>3. worker' \in [Workers -> Working \cup {"off", "ok", "error", "raised", "gone"}]
      BY <3>1 DEF Working
    <3>4. child' \in [Workers -> {"off", "loading", "up", "stuck", "dead"}]
      BY <3>2
    <3> QED
      BY <2>1, <3>3, <3>4
  <2>3. CASE ~again
    <3>1. worker' = [worker EXCEPT ![w] = "gone"] /\ child' = [child EXCEPT ![w] = "dead"]
      BY <1>17, <2>3 DEF Dies
    <3> QED
      BY <2>1, <3>1 DEF Working
  <2> QED
    BY <2>2, <2>3
<1>18. ASSUME NEW w \in Workers, SmokeTest(w) PROVE TypeOK'
  <2>1. ASSUME Fail(w) PROVE TypeOK'
    BY <2>1 DEF Fail, KillAll, WorkerGoto, Working
  <2>2. CASE BootFails(w)
    BY <2>1, <2>2 DEF BootFails
  <2>3. CASE BootEnds(w)
    BY <2>3 DEF BootEnds, WorkerGoto, Working
  <2>4. CASE Request(w)
    <3>1. CASE WorkerGoto(w, "ok")
      BY <2>4, <3>1 DEF Request, KillAll, WorkerGoto, Working
    <3>2. CASE WorkerGoto(w, "error")
      BY <2>4, <3>2 DEF Request, KillAll, WorkerGoto, Working
    <3>3. CASE WorkerGoto(w, "raised")
      BY <2>4, <3>3 DEF Request, KillAll, WorkerGoto, Working
    <3> QED
      BY <2>4, <3>1, <3>2, <3>3 DEF Request
  <2> QED
    BY <1>18, <2>2, <2>3, <2>4 DEF SmokeTest
<1>19. ASSUME NEW w \in Workers, SmokeFrontend(w) PROVE TypeOK'
  <2>1. CASE SmokeProxy(w)
    BY <2>1 DEF SmokeProxy, WorkerGoto, Working
  <2>2. CASE SmokeHealthy(w)
    BY <2>2 DEF SmokeHealthy, WorkerGoto, Working
  <2>3. CASE SmokeUnhealthy(w)
    BY <2>3 DEF SmokeUnhealthy, Fail, KillAll, WorkerGoto, Working
  <2> QED
    BY <1>19, <2>1, <2>2, <2>3 DEF SmokeFrontend
<1>20. ASSUME NEW w \in Workers, SeeStop(w) PROVE TypeOK'
  <2>1. <<"stop", w[1]>> \in Keys
    OBVIOUS
  <2>2. dict[<<"stop", w[1]>>] \in Values
    BY <2>1
  <2>3. stop' \in [Workers -> Values]
    BY <1>20, <2>2 DEF SeeStop
  <2> QED
    BY <1>20, <2>3 DEF SeeStop, Working
<1>21. ASSUME NEW w \in Workers, Deadline(w) PROVE TypeOK'
  BY <1>21 DEF Deadline, WorkerGoto, Working
<1>22. ASSUME NEW w \in Workers, PutAddr(w) \/ PutCold(w) PROVE TypeOK'
  <2>1. w[2] \in Values
    OBVIOUS
  <2>2. dict' \in [Keys -> Values]
    BY <1>22, <2>1 DEF PutAddr, PutCold
  <2>3. UNCHANGED <<program, mainVars, orphan, proxy, child, stop>>
    BY <1>22 DEF PutAddr, PutCold, WorkerGoto
  <2>4. PICK l \in Working : worker' = [worker EXCEPT ![w] = l]
    BY <1>22 DEF PutAddr, PutCold, WorkerGoto, Working
  <2> QED
    BY <2>2, <2>3, <2>4
<1>23. ASSUME NEW w \in Workers, Kill(w) \/ CleanUp(w) PROVE TypeOK'
  <2>1. CASE Kill(w)
    BY <2>1 DEF Kill, KillAll, WorkerGoto, Working
  <2>2. CASE CleanUp(w)
    <3>1. dict' \in [Keys -> Values]
      BY <2>2 DEF CleanUp
    <3> QED
      BY <2>2, <3>1 DEF CleanUp, WorkerGoto, Working
  <2> QED
    BY <1>23, <2>1, <2>2
<1>23r. ASSUME NEW w \in Workers, Raises(w) PROVE TypeOK'
  BY <1>23r DEF Raises, WorkerGoto, Working
<1>24. CASE UNCHANGED vars
  BY <1>24 DEF vars
<1> HIDE DEF TypeOK, mainVars, workerVars, Goto, Exit, Continue, Values
<1>25. CASE Alone
  BY <1>1, <1>3, <1>4, <1>5, <1>6, <1>7, <1>8, <1>9, <1>10, <1>11, <1>12, <1>13, <1>25 DEF Alone
<1>26. ASSUME NEW w \in Workers, Moves(w) PROVE TypeOK'
  BY <1>18, <1>19, <1>20, <1>21, <1>22, <1>23, <1>23r, <1>26 DEF Moves, WorkerStep, ServeFrontend
<1>27. CASE Next
  BY <1>2, <1>14, <1>15, <1>16, <1>17, <1>25, <1>26, <1>27, StepCases
<1> QED
  BY <1>24, <1>27

\* A step of the main program leaves the workers alone, unless it spawns one or
\* its end takes them all along.
LEMMA AloneKeeps ==
  ASSUME Alone PROVE UNCHANGED <<program, orphan, worker, child, stop>>
  BY DEF Alone, Clear, ReadAddr, AddrTimeout, ReadCold, StartProxy, SeeHealthy, NeverHealthy,
         LoadCorpus, Measure, MeasureFails, Finally, PutStop, Write, Remote, Interrupt, Killed,
         workerVars

\* A step of a worker moves this worker only, and only if it works.
LEMMA WorkerKeeps ==
  ASSUME NEW w \in Workers, Moves(w)
  PROVE  /\ UNCHANGED <<program, orphan, pc, side, stage, addr, cold, measured>>
         /\ worker[w] \in Working
         /\ \E l \in Alive : worker' = [worker EXCEPT ![w] = l]
<1>1. CASE SmokeTest(w)
  BY <1>1 DEF SmokeTest, BootFails, BootEnds, Request, Fail, KillAll, WorkerGoto, mainVars,
     Working, Alive
<1>2. CASE SmokeFrontend(w)
  BY <1>2 DEF SmokeFrontend, SmokeProxy, SmokeHealthy, SmokeUnhealthy, Fail, KillAll, WorkerGoto,
     mainVars, Working, Alive
<1>3. CASE ServeFrontend(w)
  BY <1>3 DEF ServeFrontend, PutAddr, PutCold, SeeStop, Deadline, Kill, CleanUp, KillAll,
     WorkerGoto, mainVars, Working, Alive
<1>4. CASE Raises(w)
  BY <1>4 DEF Raises, WorkerGoto, mainVars, Alive
<1> QED
  BY <1>1, <1>2, <1>3, <1>4 DEF Moves, WorkerStep

\* Only the main program moves on, and once its measurements are over they are.
LEMMA OverStays == ASSUME Next, pc \in Over PROVE pc' \in Over
<1>1. CASE Alone
  BY <1>1 DEF Alone, Clear, ReadAddr, AddrTimeout, ReadCold, StartProxy, SeeHealthy, NeverHealthy,
         LoadCorpus, Measure, MeasureFails, Finally, PutStop, Write, Remote, Interrupt, Killed,
         Over, Goto, Exit, Continue
<1>2. CASE Spawn \/ StopApp \/ ProxyStep
  BY <1>2 DEF Spawn, StopApp, ProxyStep, mainVars, Over
<1>3. ASSUME NEW w \in Workers, Moves(w) \/ ChildStep(w) PROVE pc' \in Over
  BY <1>3, WorkerKeeps DEF ChildStep, mainVars
<1>4. ASSUME NEW w \in Workers, NEW again \in BOOLEAN, Dies(w, again) PROVE pc' \in Over
  BY <1>4 DEF Dies, mainVars
<1> QED
  BY <1>1, <1>2, <1>3, <1>4, StepCases

\* What a step may put under a key: nobody puts an old value, and a stop signal
\* is put by the main program when it is over.
LEMMA DictSteps ==
  ASSUME TypeOK, Next, NEW key \in Keys
  PROVE  \/ dict'[key] \in {dict[key], Absent}
         \/ dict'[key] \in Ours /\ key[1] # "stop"
         \/ dict'[key] = First /\ pc' \in Over
<1> DEFINE Goal == \/ dict'[key] \in {dict[key], Absent}
                   \/ dict'[key] \in Ours /\ key[1] # "stop"
                   \/ dict'[key] = First /\ pc' \in Over
<1> USE Facts DEF TypeOK
<1>1. CASE Clear
  BY <1>1 DEF Clear
<1>2. CASE NeverHealthy
  BY <1>2 DEF NeverHealthy, Exit, Goto, Over
<1>3. CASE PutStop
  BY <1>3 DEF PutStop, Exit, Goto, Over
<1>4. CASE dict' = dict
  BY <1>4
<1>5. ASSUME NEW w \in Workers, PutAddr(w) PROVE Goal
  <2>1. <<"addr", w[1]>> \in Keys /\ w[2] \in Ours
    OBVIOUS
  <2>2. key = <<"addr", w[1]>> => key[1] # "stop"
    OBVIOUS
  <2> QED
    BY <1>5, <2>1, <2>2 DEF PutAddr
<1>6. ASSUME NEW w \in Workers, PutCold(w) PROVE Goal
  <2>1. <<"cold", w[1]>> \in Keys /\ w[2] \in Ours
    OBVIOUS
  <2>2. key = <<"cold", w[1]>> => key[1] # "stop"
    OBVIOUS
  <2> QED
    BY <1>6, <2>1, <2>2 DEF PutCold
<1>7. ASSUME NEW w \in Workers, CleanUp(w) PROVE Goal
  BY <1>7 DEF CleanUp
<1>8. CASE Alone
  BY <1>1, <1>2, <1>3, <1>4, <1>8
  DEF Alone, ReadAddr, AddrTimeout, ReadCold, StartProxy, SeeHealthy,
         LoadCorpus, Measure, MeasureFails, Finally, Write, Remote, Interrupt, Killed
<1>9. ASSUME NEW w \in Workers, Moves(w) \/ ChildStep(w) PROVE Goal
  BY <1>4, <1>5, <1>6, <1>7, <1>9
  DEF Moves, Raises, WorkerStep, SmokeTest, SmokeFrontend, ServeFrontend, BootFails, BootEnds,
         Request, SmokeProxy,
         SmokeHealthy, SmokeUnhealthy, Fail, SeeStop, Deadline, Kill, ChildStep
<1>10. CASE Spawn \/ StopApp \/ ProxyStep
  BY <1>4, <1>10 DEF Spawn, StopApp, ProxyStep
<1>11. ASSUME NEW w \in Workers, NEW again \in BOOLEAN, Dies(w, again) PROVE Goal
  BY <1>4, <1>11 DEF Dies
<1> QED
  BY <1>8, <1>9, <1>10, <1>11, StepCases

\* As long as no worker exists, only Spawn makes one.
LEMMA OffStays ==
  ASSUME TypeOK, Next, \A w \in Workers : worker[w] = "off", ~Spawn
  PROVE  worker' = worker
<1> USE DEF Working
<1>1. ASSUME NEW w \in Workers, Moves(w) PROVE FALSE
  BY <1>1, WorkerKeeps
<1>2. ASSUME NEW w \in Workers, NEW again \in BOOLEAN, Dies(w, again) PROVE FALSE
  BY <1>2 DEF Dies
<1>3. ~StopApp
  BY DEF StopApp
<1>4. ASSUME NEW w \in Workers, ChildStep(w) PROVE worker' = worker
  BY <1>4 DEF ChildStep
<1>5. ASSUME ProxyStep PROVE worker' = worker
  BY <1>5 DEF ProxyStep, workerVars
<1> QED
  BY <1>1, <1>2, <1>3, <1>4, <1>5, StepCases, AloneKeeps

\* Nobody reads what an earlier run has left.
LEMMA DictKept == ASSUME TypeOK, DictInv, Next PROVE DictInv'
<1>1. ASSUME NEW key \in Keys, dict'[key] = Earlier
      PROVE  pc' \in {"clear", "exit"} /\ \A w \in Workers : worker'[w] = "off"
  <2>1. dict[key] = Earlier
    BY <1>1, DictSteps, Facts DEF First, Earlier
  <2>2. pc \in {"clear", "exit"} /\ \A w \in Workers : worker[w] = "off"
    BY <2>1 DEF DictInv
  <2>3. ~Spawn
    BY <2>2 DEF Spawn
  <2>4. ~Clear
    BY <1>1, Facts DEF Clear, Absent, Earlier
  <2>5. worker' = worker
    BY <2>2, <2>3, OffStays
  <2>6. CASE Alone
    <3>1. pc' = "exit"
      BY <2>2, <2>4, <2>6 DEF Alone, ReadAddr, AddrTimeout, ReadCold, StartProxy, SeeHealthy,
           NeverHealthy, LoadCorpus, Measure, MeasureFails, Finally, PutStop, Write, Remote,
           Interrupt, Killed, Exit, Goto
    <3> QED
      BY <2>2, <2>5, <3>1
  <2>7. CASE ~Alone
    <3>1. StopApp \/ ProxyStep => UNCHANGED pc
      BY DEF StopApp, ProxyStep, mainVars
    <3>2. ASSUME NEW w \in Workers, Moves(w) \/ ChildStep(w) PROVE UNCHANGED pc
      BY <3>2, WorkerKeeps DEF ChildStep, mainVars
    <3>3. ASSUME NEW w \in Workers, NEW again \in BOOLEAN, Dies(w, again) PROVE UNCHANGED pc
      BY <3>3 DEF Dies, mainVars
    <3>4. UNCHANGED pc
      BY <2>3, <2>7, <3>1, <3>2, <3>3, StepCases
    <3> QED
      BY <2>2, <2>5, <3>4
  <2> QED
    BY <2>2, <2>5, <2>6, <2>7
<1>2. ASSUME NEW s \in Sides, dict'[<<"stop", s>>] \notin {Absent, Earlier}
      PROVE  dict'[<<"stop", s>>] = First /\ pc' \in Over
  <2>1. <<"stop", s>> \in Keys /\ <<"stop", s>>[1] = "stop"
    BY Facts
  <2>2. CASE dict'[<<"stop", s>>] = dict[<<"stop", s>>]
    BY <1>2, <2>2, OverStays DEF DictInv
  <2> QED
    BY <1>2, <2>1, <2>2, DictSteps
<1> QED
  BY <1>1, <1>2 DEF DictInv

\* A worker sees a stop signal of this run only, and only when it is over.
LEMMA StopKept == ASSUME TypeOK, DictInv, NoEarlyStop, Next PROVE NoEarlyStop'
<1>1. ASSUME NEW w \in Workers, SeeStop(w) PROVE NoEarlyStop'
  <2>1. <<"stop", w[1]>> \in Keys /\ w[1] \in Sides
    BY Facts
  <2>2. dict[<<"stop", w[1]>>] = First /\ pc \in Over
    BY <1>1, <2>1 DEF DictInv, SeeStop
  <2>3. pc' = pc /\ stop' = [stop EXCEPT ![w] = First]
    BY <1>1, <2>2 DEF SeeStop, mainVars
  <2> QED
    BY <2>2, <2>3 DEF NoEarlyStop, TypeOK
<1>2. CASE stop' = stop
  BY <1>2, OverStays DEF NoEarlyStop
<1>3. ASSUME NEW w \in Workers, Moves(w) \/ ChildStep(w) PROVE NoEarlyStop'
  BY <1>1, <1>2, <1>3
  DEF Moves, Raises, WorkerStep, SmokeTest, SmokeFrontend, ServeFrontend, BootFails, BootEnds,
         Request, SmokeProxy,
         SmokeHealthy, SmokeUnhealthy, Fail, PutAddr, PutCold, Deadline, Kill, CleanUp, WorkerGoto,
         ChildStep
<1>4. CASE Spawn \/ StopApp \/ ProxyStep
  BY <1>2, <1>4 DEF Spawn, Boot, StopApp, ProxyStep, workerVars
<1>5. ASSUME NEW w \in Workers, NEW again \in BOOLEAN, Dies(w, again) PROVE NoEarlyStop'
  BY <1>2, <1>5 DEF Dies
<1> QED
  BY <1>2, <1>3, <1>4, <1>5, StepCases, AloneKeeps

\* Where the main program is says what it has read.
LEMMA PhaseKept == ASSUME TypeOK, PhaseInv, Next PROVE PhaseInv'
<1> USE Facts DEF PhaseInv, TypeOK, Goto, Exit, Continue, Over
<1>1. CASE Clear \/ Spawn
  BY <1>1 DEF Clear, Spawn
<1>2. CASE ReadAddr
  BY <1>2 DEF ReadAddr
<1>3. CASE ReadCold
  <2>1. program = "serve" \/ program = "bench"
    BY <1>3, ServeAssumption DEF ReadCold, ServeAssumption, Smoke
  <2> QED
    BY <1>3, <2>1 DEF ReadCold, Smoke
<1>4. CASE AddrTimeout \/ NeverHealthy \/ Write \/ Killed
  BY <1>4 DEF AddrTimeout, NeverHealthy, Write, Killed
<1>5. CASE StartProxy \/ SeeHealthy
  BY <1>5 DEF StartProxy, SeeHealthy, Healthz
<1>6. CASE LoadCorpus
  BY <1>6 DEF LoadCorpus
<1>7. CASE Measure
  <2>1. UNCHANGED <<program, addr, orphan>>
    BY <1>7 DEF Measure
  <2>2. CASE stage = "rest" /\ pc' = "spawn" /\ side' = "grpc" /\ UNCHANGED stage
    BY <1>7, <2>1, <2>2 DEF Measure
  <2>3. CASE stage = "completions" /\ Goto("finally")
    BY <1>7, <2>1, <2>3 DEF Measure
  <2>4. CASE stage \in DOMAIN After /\ stage' = After[stage] /\ UNCHANGED <<pc, side>>
    <3>1. stage # "rest" /\ stage' # "rest"
      BY <2>4 DEF After
    <3> QED
      BY <1>7, <2>1, <2>4, <3>1 DEF Measure
  <2> QED
    BY <1>7, <2>2, <2>3, <2>4 DEF Measure
<1>8. CASE MeasureFails
  BY <1>8 DEF MeasureFails
<1>9. CASE Finally
  BY <1>9 DEF Finally, Smoke
<1>10. CASE PutStop
  BY <1>10 DEF PutStop
<1>11. CASE Remote \/ Interrupt
  BY <1>11 DEF Remote, Interrupt
<1>12. CASE StopApp \/ ProxyStep \/ \E w \in Workers : ChildStep(w)
  BY <1>12 DEF StopApp, ProxyStep, ChildStep, mainVars
<1>13. ASSUME NEW w \in Workers, Moves(w) PROVE PhaseInv'
  BY <1>13, WorkerKeeps
<1>14. ASSUME NEW w \in Workers, NEW again \in BOOLEAN, Dies(w, again) PROVE PhaseInv'
  BY <1>14 DEF Dies, mainVars
<1> QED
  BY <1>1, <1>2, <1>3, <1>4, <1>5, <1>6, <1>7, <1>8, <1>9, <1>10, <1>11, <1>12, <1>13, <1>14,
     StepCases DEF Alone

\* The addresses a stage measures have been read, and its proxy is our own.
LEMMA MeasuredKept == ASSUME TypeOK, TypeOK', PhaseInv, MeasuresOwn, Next PROVE MeasuresOwn'
<1>1. \A s \in Sides : cold'[s] # Earlier
  BY Facts DEF TypeOK
<1>2. CASE Measure
  <2>1. \A p \in PathsOf(stage) : TargetOf(p) \in Ours
    <3>1. CASE stage = "rest"
      BY <1>2, <3>1, Facts DEF Measure, PathsOf, TargetOf, PhaseInv, TypeOK
    <3>2. CASE stage # "rest"
      <4>1. ~orphan /\ side = "grpc" /\ program = "bench" /\ addr["grpc"] \in Ours
        BY <1>2, <3>2, Facts DEF Measure, PhaseInv, TypeOK
      <4>2. addr["rest"] \in Ours
        BY <1>2, <4>1, Facts DEF Measure, PhaseInv, TypeOK, Over
      <4> QED
        BY <4>1, <4>2 DEF TargetOf
    <3> QED
      BY <3>1, <3>2
  <2> QED
    BY <1>1, <1>2, <2>1 DEF Measure, MeasuresOwn
<1>3. CASE measured' = measured
  BY <1>1, <1>3 DEF MeasuresOwn
<1>4. CASE Alone /\ ~Measure
  BY <1>3, <1>4 DEF Alone, Clear, ReadAddr, AddrTimeout, ReadCold, StartProxy, SeeHealthy,
     NeverHealthy, LoadCorpus, MeasureFails, Finally, PutStop, Write, Remote, Interrupt, Killed, Exit,
     Continue
<1>5. CASE Spawn \/ StopApp \/ ProxyStep \/ \E w \in Workers : ChildStep(w)
  BY <1>3, <1>5 DEF Spawn, StopApp, ProxyStep, ChildStep, mainVars, Continue
<1>6. ASSUME NEW w \in Workers, Moves(w) PROVE MeasuresOwn'
  BY <1>3, <1>6, WorkerKeeps
<1>7. ASSUME NEW w \in Workers, NEW again \in BOOLEAN, Dies(w, again) PROVE MeasuresOwn'
  BY <1>3, <1>7 DEF Dies, mainVars
<1> QED
  BY <1>2, <1>4, <1>5, <1>6, <1>7, StepCases

\* A worker comes into being by a spawn, or in place of another one.
LEMMA OneWorkerKept == ASSUME TypeOK, PhaseInv, OneWorker, Next PROVE OneWorker'
<1> USE Facts DEF TypeOK
<1>1. CASE Spawn
  <2>1. <<side, First>> \in Workers
    OBVIOUS
  <2>2. worker' = [worker EXCEPT ![<<side, First>>] = "boot"]
    BY <1>1 DEF Spawn, Boot
  <2>3. UNCHANGED <<program, side>> /\ pc = "spawn" /\ pc' = "addr"
    BY <1>1 DEF Spawn, Goto
  <2>4. \A w \in Workers : w[1] = side => worker[w] = "off"
    BY <2>3 DEF OneWorker
  <2>5. \A v, w \in Workers : v[1] = w[1] /\ {worker'[v], worker'[w]} \subseteq Alive => v = w
    BY <2>1, <2>2, <2>4 DEF OneWorker, Alive, Working
  <2>6. \A w \in Workers : w # <<side, First>> => worker'[w] = worker[w]
    BY <2>1, <2>2
  <2>7. program = "bench" /\ side = "rest" => \A w \in Workers : w[1] = "grpc" => worker'[w] = "off"
    BY <2>3, <2>6 DEF OneWorker
  <2>8. program # "bench" => \A w \in Workers : w[1] # side => worker'[w] = "off"
    BY <2>3, <2>6 DEF OneWorker
  <2> QED
    BY <2>3, <2>5, <2>7, <2>8 DEF OneWorker
<1>2. CASE Alone
  <2>1. UNCHANGED <<program, worker>>
    BY <1>2, AloneKeeps
  <2>2. pc' \in {"clear", "spawn"} => \A w \in Workers : w[1] = side' => worker[w] = "off"
    <3>1. CASE Measure
      <4>1. pc' \in {"clear", "spawn"} => stage = "rest" /\ side' = "grpc"
        BY <3>1 DEF Measure, Goto
      <4>2. stage = "rest" => program = "bench" /\ side = "rest" /\ pc = "measure"
        BY <3>1 DEF Measure, PhaseInv
      <4> QED
        BY <4>1, <4>2 DEF OneWorker
    <3>2. CASE Clear
      BY <3>2 DEF Clear, Goto, OneWorker
    <3>3. CASE ~Measure /\ ~Clear
      <4>1. pc' \notin {"clear", "spawn"}
        BY <1>2, <3>3 DEF Alone, ReadAddr, AddrTimeout, ReadCold, StartProxy, SeeHealthy,
           NeverHealthy, LoadCorpus, MeasureFails, Finally, PutStop, Write, Remote, Interrupt,
           Killed, Exit, Goto
      <4> QED
        BY <4>1
    <3> QED
      BY <3>1, <3>2, <3>3
  <2>3. program = "bench" /\ side' = "rest" /\ pc' \in {"clear", "spawn", "addr", "cold", "measure"} =>
          \A w \in Workers : w[1] = "grpc" => worker[w] = "off"
    <3> DEFINE Early == {"clear", "spawn", "addr", "cold", "measure"}
    <3>1. CASE pc \in Early /\ side = "rest"
      BY <2>1, <3>1 DEF OneWorker
    <3>2. CASE pc \in Early /\ side = "grpc" /\ ~Measure
      BY <1>2, <3>2 DEF Alone, Clear, ReadAddr, AddrTimeout, ReadCold, StartProxy, SeeHealthy,
         NeverHealthy, LoadCorpus, MeasureFails, Finally, PutStop, Write, Remote, Interrupt, Killed,
         Exit, Goto
    <3>3. CASE side = "grpc" /\ Measure
      BY <3>3 DEF Measure, Goto
    <3>4. CASE pc \notin Early /\ pc # "corpus"
      BY <1>2, <3>4 DEF Alone, Clear, ReadAddr, AddrTimeout, ReadCold, StartProxy, SeeHealthy,
         NeverHealthy, LoadCorpus, Measure, MeasureFails, Finally, PutStop, Write, Remote, Interrupt,
         Killed, Exit, Goto
    <3>5. CASE pc = "corpus"
      <4>1. side' = "grpc"
        BY <1>2, <3>5 DEF Alone, Clear, ReadAddr, AddrTimeout, ReadCold, StartProxy, SeeHealthy,
           NeverHealthy, LoadCorpus, Measure, MeasureFails, Finally, PutStop, Write, Remote,
           Interrupt, Killed, Exit, Goto, PhaseInv
      <4> QED
        BY <4>1
    <3> QED
      BY <3>1, <3>2, <3>3, <3>4, <3>5
  <2>4. side' = side \/ program = "bench"
    <3>1. CASE Measure \/ Finally
      BY <3>1 DEF Measure, Finally, PhaseInv
    <3>2. CASE PutStop
      <4>1. program \notin Smoke /\ (program = "serve" => side = "grpc") /\ program \in Programs
        BY <3>2 DEF PutStop, PhaseInv
      <4>2. program = "bench" \/ program = "serve"
        BY <4>1, ServeAssumption DEF ServeAssumption, Smoke
      <4> QED
        BY <3>2, <4>1, <4>2 DEF PutStop, Exit, Goto
    <3>3. CASE ~Measure /\ ~Finally /\ ~PutStop
      BY <1>2, <3>3 DEF Alone, Clear, ReadAddr, AddrTimeout, ReadCold, StartProxy, SeeHealthy,
         NeverHealthy, LoadCorpus, MeasureFails, Write, Remote, Interrupt, Killed, Exit, Goto
    <3> QED
      BY <3>1, <3>2, <3>3
  <2> QED
    BY <2>1, <2>2, <2>3, <2>4 DEF OneWorker
<1>3. ASSUME UNCHANGED <<program, pc, side>>,
             NEW w \in Workers, worker[w] \in Working,
             NEW l \in Alive, worker' = [worker EXCEPT ![w] = l]
      PROVE  OneWorker'
  BY <1>3 DEF OneWorker, Alive, Working
<1>4. ASSUME NEW w \in Workers, Moves(w) PROVE OneWorker'
  BY <1>3, <1>4, WorkerKeeps
<1>5. CASE StopApp
  BY <1>5 DEF StopApp, OneWorker, mainVars, Alive, Working
<1>6. CASE ProxyStep \/ \E w \in Workers : ChildStep(w)
  BY <1>6 DEF ProxyStep, ChildStep, mainVars, workerVars, OneWorker
<1>7. ASSUME NEW w \in Workers, NEW again \in BOOLEAN, Dies(w, again) PROVE OneWorker'
  <2>1. UNCHANGED <<program, pc, side>> /\ worker[w] \in Working
    BY <1>7 DEF Dies, mainVars
  <2>2. CASE worker' = [worker EXCEPT ![w] = "gone"]
    BY <2>1, <2>2 DEF OneWorker, Alive, Working
  <2>3. ASSUME NEW v \in Workers, v[1] = w[1], v # w,
               worker' = [worker EXCEPT ![w] = "gone", ![v] = "boot"]
        PROVE  OneWorker'
    <3>1. \A u \in Workers : u \notin {v, w} => worker'[u] = worker[u]
      BY <2>3
    <3>2. worker'[w] = "gone" /\ (worker'[v] \in Alive => worker[w] \in Alive)
      BY <2>1, <2>3 DEF Alive, Working
    <3>3. \A u \in Workers : worker'[u] \in Alive => u # w
      BY <3>2 DEF Alive, Working
    <3>4. \A t, u \in Workers : t[1] = u[1] /\ {worker'[t], worker'[u]} \subseteq Alive => t = u
      BY <2>3, <3>1, <3>2, <3>3 DEF OneWorker
    <3>5. worker[w] # "off"
      BY <2>1 DEF Working
    <3>6. ASSUME NEW u \in Workers, worker[u] = "off", \A t \in Workers : t[1] = u[1] => worker[t] = "off"
          PROVE  worker'[u] = "off"
      BY <2>3, <3>1, <3>5, <3>6
    <3> QED
      BY <2>1, <3>4, <3>6 DEF OneWorker
  <2>4. CASE again
    <3> DEFINE v == <<w[1], w[2] + 1>>
    <3>1. v \in Workers /\ worker' = [worker EXCEPT ![w] = "gone", ![v] = "boot"]
      BY <1>7, <2>4 DEF Dies
    <3>2. v[1] = w[1] /\ v # w
      BY DEF Ours
    <3> HIDE DEF v
    <3> QED
      BY <2>3, <3>1, <3>2
  <2>5. CASE ~again
    BY <1>7, <2>2, <2>5 DEF Dies
  <2> QED
    BY <2>4, <2>5
<1> QED
  BY <1>1, <1>2, <1>4, <1>5, <1>6, <1>7, StepCases

\* The server of a worker is dead once it has been killed, and so is the proxy of
\* the smoke test.
DeadChild ==
  \A w \in Workers :
    /\ worker[w] \in {"pop", "ok", "error", "gone"} => child[w] = "dead"
    /\ worker[w] = "off" => child[w] = "off"
SmokeStates ==
  program \in Smoke =>
    \A w \in Workers : worker[w] \notin {"addr", "cold", "serve", "kill", "pop"}
DeadProxy ==
  program = "smoke_frontend" /\ proxy \notin {"off", "dead"} =>
    \E w \in Workers : worker[w] \in {"health", "request", "raised"}
LEMMA ChildParts == ChildInv <=> DeadChild /\ SmokeStates /\ DeadProxy
  BY DEF ChildInv, DeadChild, SmokeStates, DeadProxy

\* A dead server stays dead until its worker starts anew.
LEMMA DeadChildKept == ASSUME TypeOK, OneWorker, PhaseInv, DeadChild, Next PROVE DeadChild'
<1> USE Facts DEF TypeOK, DeadChild
<1>1. CASE Alone
  BY <1>1, AloneKeeps
<1>2. CASE Spawn
  <2>1. <<side, First>> \in Workers
    OBVIOUS
  <2> QED
    BY <1>2, <2>1 DEF Spawn, Boot
<1>3. CASE StopApp
  BY <1>3 DEF StopApp, Working
<1>4. CASE ProxyStep
  BY <1>4 DEF ProxyStep, workerVars
<1>5. ASSUME NEW w \in Workers, ChildStep(w) PROVE DeadChild'
  BY <1>5 DEF ChildStep
<1>6. ASSUME NEW w \in Workers, SmokeTest(w) PROVE DeadChild'
  BY <1>6 DEF SmokeTest, BootFails, BootEnds, Request, Fail, KillAll, WorkerGoto
<1>7. ASSUME NEW w \in Workers, SmokeFrontend(w) PROVE DeadChild'
  BY <1>7 DEF SmokeFrontend, SmokeProxy, SmokeHealthy, SmokeUnhealthy, Fail, KillAll, WorkerGoto
<1>8. ASSUME NEW w \in Workers, PutAddr(w) \/ PutCold(w) \/ SeeStop(w) \/ Deadline(w)
      PROVE  DeadChild'
  BY <1>8 DEF PutAddr, PutCold, SeeStop, Deadline, WorkerGoto
<1>9. ASSUME NEW w \in Workers, Kill(w) \/ CleanUp(w) PROVE DeadChild'
  <2>1. CASE Kill(w)
    <3>1. child' = [child EXCEPT ![w] = "dead"] /\ worker' = [worker EXCEPT ![w] = "pop"]
      BY <2>1 DEF Kill, KillAll, WorkerGoto
    <3> QED
      BY <3>1
  <2>2. CASE CleanUp(w)
    <3>1. child' = child /\ worker[w] = "pop" /\ worker' = [worker EXCEPT ![w] = "ok"]
      BY <2>2 DEF CleanUp, WorkerGoto
    <3> QED
      BY <3>1
  <2> QED
    BY <1>9, <2>1, <2>2
<1>9r. ASSUME NEW w \in Workers, Raises(w) PROVE DeadChild'
  BY <1>9r DEF Raises, WorkerGoto, Working
<1>10. ASSUME NEW w \in Workers, NEW again \in BOOLEAN, Dies(w, again) PROVE DeadChild'
  <2>1. CASE worker' = [worker EXCEPT ![w] = "gone"] /\ child' = [child EXCEPT ![w] = "dead"]
    BY <2>1
  <2>2. ASSUME NEW v \in Workers,
               worker' = [worker EXCEPT ![w] = "gone", ![v] = "boot"],
               child' = [child EXCEPT ![w] = "dead", ![v] = "loading"]
        PROVE  DeadChild'
    BY <2>2
  <2> QED
    BY <1>10, <2>1, <2>2 DEF Dies
<1> HIDE DEF TypeOK, DeadChild
<1>11. ASSUME NEW w \in Workers, Moves(w) PROVE DeadChild'
  BY <1>6, <1>7, <1>8, <1>9, <1>9r, <1>11 DEF Moves, WorkerStep, ServeFrontend
<1> QED
  BY <1>1, <1>2, <1>3, <1>4, <1>5, <1>10, <1>11, StepCases

\* The workers of the smoke tests do not serve.
LEMMA SmokeStatesKept == ASSUME TypeOK, PhaseInv, SmokeStates, Next PROVE SmokeStates'
<1> USE Facts DEF TypeOK, SmokeStates
<1>1. CASE Alone
  BY <1>1, AloneKeeps
<1>2. CASE Spawn
  BY <1>2 DEF Spawn, PhaseInv
<1>3. CASE StopApp \/ ProxyStep
  BY <1>3 DEF StopApp, ProxyStep, workerVars
<1>4. ASSUME NEW w \in Workers, ChildStep(w) PROVE SmokeStates'
  BY <1>4 DEF ChildStep
<1>5. ASSUME NEW w \in Workers, BootEnds(w) PROVE SmokeStates'
  BY <1>5 DEF BootEnds, WorkerGoto, Smoke
<1>6. ASSUME NEW w \in Workers, BootFails(w) \/ Request(w) PROVE SmokeStates'
  BY <1>6 DEF BootFails, Request, Fail, WorkerGoto
<1>7. ASSUME NEW w \in Workers, SmokeFrontend(w) PROVE SmokeStates'
  BY <1>7 DEF SmokeFrontend, SmokeProxy, SmokeHealthy, SmokeUnhealthy, Fail, WorkerGoto
<1>8. ASSUME NEW w \in Workers, ServeFrontend(w) PROVE SmokeStates'
  BY <1>8 DEF ServeFrontend, PutAddr, PutCold, SeeStop, Deadline, Kill, CleanUp, WorkerGoto
<1>8r. ASSUME NEW w \in Workers, Raises(w) PROVE SmokeStates'
  BY <1>8r DEF Raises, WorkerGoto
<1>9. ASSUME NEW w \in Workers, NEW again \in BOOLEAN, Dies(w, again) PROVE SmokeStates'
  <2>1. CASE worker' = [worker EXCEPT ![w] = "gone"]
    BY <1>9, <2>1 DEF Dies
  <2>2. ASSUME NEW v \in Workers, worker' = [worker EXCEPT ![w] = "gone", ![v] = "boot"]
        PROVE  SmokeStates'
    BY <1>9, <2>2 DEF Dies
  <2> QED
    BY <1>9, <2>1, <2>2 DEF Dies
<1> QED
  BY <1>1, <1>2, <1>3, <1>4, <1>5, <1>6, <1>7, <1>8, <1>8r, <1>9, StepCases
     DEF Moves, WorkerStep, SmokeTest

\* The only worker of the smoke test is the one that has the proxy.
LEMMA DeadProxyKept ==
  ASSUME TypeOK, OneWorker, PhaseInv, SmokeStates, DeadProxy, Next PROVE DeadProxy'
<1> DEFINE With == {"health", "request", "raised"}
<1> SUFFICES ASSUME program' = "smoke_frontend", proxy' \notin {"off", "dead"}
             PROVE  \E w \in Workers : worker'[w] \in With
  BY DEF DeadProxy
<1> USE Facts DEF TypeOK
<1>0. program = "smoke_frontend"
  BY StepCases, AloneKeeps, WorkerKeeps DEF Spawn, StopApp, ProxyStep, ChildStep, Dies
<1>1. program \in Smoke /\ pc \in {"remote", "exit"}
  BY <1>0 DEF PhaseInv, Smoke
<1>2. \A v, w \in Workers : {worker[v], worker[w]} \subseteq Alive => v = w
  <2>1. \A w \in Workers : worker[w] \in Alive => w[1] = side
    BY <1>0 DEF OneWorker, Alive, Working
  <2> QED
    BY <2>1 DEF OneWorker
<1>k. ASSUME worker' = worker, proxy \notin {"off", "dead"}
      PROVE  \E w \in Workers : worker'[w] \in With
  BY <1>0, <1>k DEF DeadProxy
<1>3. CASE Alone
  <2>1. proxy' = proxy
    BY <1>1, <1>3 DEF Alone, Clear, ReadAddr, AddrTimeout, ReadCold, StartProxy, SeeHealthy,
       NeverHealthy, LoadCorpus, Measure, MeasureFails, Finally, PutStop, Write, Remote, Interrupt,
       Killed
  <2> QED
    BY <1>3, <1>k, <2>1, AloneKeeps
<1>4. ~Spawn
  BY <1>1 DEF Spawn
<1>5. ~StopApp
  BY <1>0 DEF StopApp
<1>6. CASE ProxyStep
  BY <1>6, <1>k DEF ProxyStep, workerVars
<1>7. ASSUME NEW w \in Workers, ChildStep(w) PROVE \E v \in Workers : worker'[v] \in With
  BY <1>7, <1>k DEF ChildStep
<1>8. ASSUME NEW w \in Workers, Moves(w) PROVE \E v \in Workers : worker'[v] \in With
  <2>1. PICK l \in Alive : worker' = [worker EXCEPT ![w] = l]
    BY <1>8, WorkerKeeps
  <2>2. worker[w] \in Working /\ worker[w] \in Alive
    BY <1>8, WorkerKeeps DEF Alive
  <2>3. proxy \notin {"off", "dead"} => worker[w] \in With
    BY <1>0, <1>2, <2>2 DEF DeadProxy, Alive, Working
  <2>4. worker'[w] \in With
    <3>1. CASE BootFails(w) \/ Request(w) \/ SmokeUnhealthy(w)
      <4>1. proxy' \in {"off", "dead"}
        BY <1>0, <3>1 DEF BootFails, Request, SmokeUnhealthy, Fail, KillAll
      <4> QED
        BY <4>1
    <3>2. CASE BootEnds(w)
      BY <2>3, <3>2 DEF BootEnds
    <3>3. CASE SmokeProxy(w) \/ SmokeHealthy(w)
      BY <3>3 DEF SmokeProxy, SmokeHealthy, WorkerGoto
    <3>4. CASE ServeFrontend(w)
      BY <1>1, <3>4 DEF ServeFrontend, PutAddr, PutCold, SeeStop, Deadline, Kill, CleanUp,
         SmokeStates
    <3>5. CASE Raises(w)
      BY <3>5 DEF Raises, WorkerGoto
    <3> QED
      BY <1>8, <3>1, <3>2, <3>3, <3>4, <3>5 DEF Moves, WorkerStep, SmokeTest, SmokeFrontend
  <2> QED
    BY <2>4
<1>9. ASSUME NEW w \in Workers, NEW again \in BOOLEAN, Dies(w, again) PROVE FALSE
  BY <1>0, <1>9 DEF Dies
<1> QED
  BY <1>3, <1>4, <1>5, <1>6, <1>7, <1>8, <1>9, StepCases

\* Whatever the Dict holds and whoever holds the port, the invariant holds at first.
LEMMA ServeInit == Init => ServeInv
<1> SUFFICES ASSUME Init PROVE ServeInv
  OBVIOUS
<1> USE Facts, ServeAssumption DEF ServeAssumption, Init, Smoke, Working
<1>1. TypeOK
  <2>1. dict \in [Keys -> Values]
    BY DEF Values
  <2>2. worker \in [Workers -> {"boot", "off"}]
    OBVIOUS
  <2>3. child \in [Workers -> {"loading", "off"}]
    OBVIOUS
  <2> QED
    BY <2>1, <2>2, <2>3 DEF TypeOK, Values, Stages
<1>2. DictInv
  <2>1. program \in Smoke => \A key \in Keys : dict[key] = Absent
    OBVIOUS
  <2>2. \A key \in Keys : dict[key] \in {Absent, Earlier}
    OBVIOUS
  <2>3. program \notin Smoke => pc = "clear" /\ \A w \in Workers : worker[w] = "off"
    OBVIOUS
  <2> QED
    BY <2>1, <2>2, <2>3 DEF DictInv
<1>3. PhaseInv
  BY DEF PhaseInv, Over
<1>4. OneWorker
  BY DEF OneWorker, Alive
<1>5. ChildInv
  BY DEF ChildInv
<1>6. MeasuresOwn /\ NoEarlyStop
  BY DEF MeasuresOwn, NoEarlyStop
<1> QED
  BY <1>1, <1>2, <1>3, <1>4, <1>5, <1>6 DEF ServeInv

\* Every step keeps all of its parts.
LEMMA ServeStep == ServeInv /\ [Next]_vars => ServeInv'
<1> SUFFICES ASSUME ServeInv, [Next]_vars PROVE ServeInv'
  OBVIOUS
<1>1. CASE Next
  <2>1. TypeOK'
    BY <1>1, TypeKept DEF ServeInv
  <2>2. ChildInv'
    BY <1>1, ChildParts, DeadChildKept, SmokeStatesKept, DeadProxyKept
       DEF ServeInv, ChildInv, DeadChild, SmokeStates, DeadProxy
  <2> QED
    BY <1>1, <2>1, <2>2, MeasuredKept, StopKept, DictKept, PhaseKept, OneWorkerKept DEF ServeInv
<1>2. CASE UNCHANGED vars
  BY <1>2 DEF vars, mainVars, workerVars, ServeInv, TypeOK, MeasuresOwn, NoEarlyStop, DictInv,
     PhaseInv, OneWorker, ChildInv
<1> QED
  BY <1>1, <1>2

\* The invariant of the four programs holds from every remainder of an earlier run.
THEOREM ServeInvariant == Spec => []ServeInv
<1> QED
  BY ServeInit, ServeStep, PTL DEF Spec

\* Every measurement goes to a worker of this run.
THEOREM MeasuresAreOwn == Spec => []MeasuresOwn
<1>1. ServeInv => MeasuresOwn
  BY DEF ServeInv
<1> QED
  BY <1>1, ServeInvariant, PTL

\* No worker is stopped before the last measurement is over.
THEOREM StopsAreLate == Spec => []NoEarlyStop
<1>1. ServeInv => NoEarlyStop
  BY DEF ServeInv
<1> QED
  BY <1>1, ServeInvariant, PTL

\* A worker that has returned leaves no server behind; one that has raised may.
THEOREM NothingIsLeft == Spec => []NothingLeft
<1>1. ServeInv => NothingLeft
  BY DEF ServeInv, TypeOK, ChildInv, NothingLeft
<1> QED
  BY <1>1, ServeInvariant, PTL
=============================================================================
