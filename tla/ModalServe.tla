------------------------------ MODULE ModalServe ------------------------------
(***************************************************************************)
(* The scripts that run a server on Modal and talk to it from here:        *)
(* bench_modal.py, modal_frontend_serve.py and the two smoke tests         *)
(* (modal_vllm_rest.py, modal_frontend_smoke.py).  A worker supervises the *)
(* server it has started as a child process; the workers of "bench" and    *)
(* "serve" meet their main program in a modal.Dict of a fixed name, which  *)
(* holds an address, a cold start and a stop signal for each of them.      *)
(*                                                                         *)
(* A value of the Dict is abstracted to the worker, or the run, that put   *)
(* it; a measurement to the worker it went to.                              *)
(***************************************************************************)
EXTENDS Naturals, FiniteSets

CONSTANTS
  Programs,    \* subset of {"bench", "serve", "smoke_rest", "smoke_frontend"}
  Restarts,    \* bound on the restarts of a preempted worker
  Orphans      \* subset of BOOLEAN: may a proxy of an earlier run hold the port

Sides == {"rest", "grpc"}
Absent == 0
Earlier == 1
First == 2
Ours == First .. First + Restarts
Workers == Sides \X Ours
Keys == {"addr", "cold", "stop"} \X Sides

ASSUME ServeAssumption ==
  /\ Programs \subseteq {"bench", "serve", "smoke_rest", "smoke_frontend"}
  /\ Restarts \in Nat /\ Orphans \subseteq BOOLEAN

VARIABLES
  program,
  dict,
  pc, side, stage,   \* of the main program; side: of the deployment in hand
  addr, cold,        \* what it has read for each side
  measured,          \* what the measurements so far went to
  failing,           \* an exception is on its way through the finally clause
  exit,              \* its exit status: "none", "ok" (0) or "failed" (1)
  orphan,            \* a proxy of an earlier run still holds the port
  proxy,             \* the one started by this run: "off", "starting", "up",
                     \* "dead" or "left" (its launcher was killed, it was not)
  worker,            \* "off", "boot", "addr", "cold", "serve", "kill", "pop",
                     \* "proxy", "health", "request", "ok", "error" (returned),
                     \* "raised" or "gone"
  child,             \* its server: "off", "loading", "up", "stuck" or "dead"
  stop               \* who put the stop signal it has seen

mainVars == <<pc, side, stage, addr, cold, measured, failing, exit>>
workerVars == <<worker, child, stop>>
vars == <<program, dict, mainVars, orphan, proxy, workerVars>>

Stages == {"rest", "proxy", "direct", "stream", "completions"}
Smoke == {"smoke_rest", "smoke_frontend"}
Open == {"addr", "cold", "serve"}   \* the tunnel of such a worker is open

----------------------------------------------------------------------------
(* The main program.                                                       *)

Goto(l) == pc' = l /\ UNCHANGED <<side, stage>>
Exit(status) == Goto("exit") /\ exit' = status /\ UNCHANGED <<addr, cold, measured, failing>>
Continue == UNCHANGED <<addr, cold, measured, failing, exit>>

Boot(w) ==
  /\ worker' = [worker EXCEPT ![w] = "boot"]
  /\ child' = [child EXCEPT ![w] = "loading"]
  /\ UNCHANGED stop

\* Mutant: the stop signals are left in the Dict.
ClearKeepsStop ==
  /\ pc = "clear" /\ Goto("spawn") /\ Continue
  /\ dict' = [key \in Keys |-> IF key[1] = "stop" THEN dict[key] ELSE Absent]
  /\ UNCHANGED <<program, orphan, proxy, workerVars>>
\* "Clear stale keys from any previous crashed run", before anything is spawned.
Clear ==
  /\ pc = "clear" /\ Goto("spawn") /\ Continue
  /\ dict' = [key \in Keys |-> Absent]
  /\ UNCHANGED <<program, orphan, proxy, workerVars>>

Spawn ==
  /\ pc = "spawn" /\ Goto("addr") /\ Boot(<<side, First>>) /\ Continue
  /\ UNCHANGED <<program, dict, orphan, proxy>>

ReadAddr ==
  /\ pc = "addr" /\ dict[<<"addr", side>>] # Absent /\ Goto("cold")
  /\ addr' = [addr EXCEPT ![side] = dict[<<"addr", side>>]]
  /\ UNCHANGED <<program, dict, cold, measured, failing, exit, orphan, proxy, workerVars>>

\* Mutant: the poll has no timeout.
AddrTimeoutNever ==
  pc = "never" /\ UNCHANGED vars
\* _poll_for_addr gives up.
AddrTimeout ==
  /\ pc = "addr" /\ Exit("failed")
  /\ UNCHANGED <<program, dict, orphan, proxy, workerVars>>

\* Mutant: the REST worker is stopped as soon as its own run is over.
ReadColdStopsRest ==
  /\ pc = "cold" /\ cold' = [cold EXCEPT ![side] = dict[<<"cold", side>>]]
  /\ pc' = (IF program = "serve" THEN "block" ELSE IF side = "rest" THEN "measure" ELSE "proxy")
  /\ dict' = IF side = "grpc" THEN [dict EXCEPT ![<<"stop", "rest">>] = First] ELSE dict
  /\ UNCHANGED <<program, side, stage, addr, measured, failing, exit, orphan, proxy, workerVars>>
\* Read at once after the address, which the worker puts first: often absent.
ReadCold ==
  /\ pc = "cold" /\ cold' = [cold EXCEPT ![side] = dict[<<"cold", side>>]]
  /\ pc' = (IF program = "serve" THEN "block" ELSE IF side = "rest" THEN "measure" ELSE "proxy")
  /\ UNCHANGED <<program, dict, side, stage, addr, measured, failing, exit, orphan, proxy,
                 workerVars>>

StartProxy ==
  /\ pc = "proxy" /\ Goto("health") /\ Continue /\ proxy' = "starting"
  /\ UNCHANGED <<program, dict, orphan, workerVars>>

\* Whatever listens on the port pings the frontend it was started with.
Reachable(s, n) == n \in Ours /\ worker[<<s, n>>] \in Open /\ child[<<s, n>>] = "up"
\* Mutant: a proxy is healthy as soon as it listens.
HealthzListens == orphan \/ proxy = "up"
Healthz == ~orphan /\ proxy = "up" /\ Reachable("grpc", addr["grpc"])

SeeHealthy ==
  /\ pc = "health" /\ Healthz /\ Goto("corpus") /\ Continue
  /\ UNCHANGED <<program, dict, orphan, proxy, workerVars>>

\* The gRPC worker is told to stop, the REST worker is not.
NeverHealthy ==
  /\ pc = "health" /\ Exit("failed") /\ proxy' \in {proxy, "dead"}
  /\ dict' = [dict EXCEPT ![<<"stop", "grpc">>] = First]
  /\ UNCHANGED <<program, orphan, workerVars>>

\* Loading the corpus may raise before the try that stops the proxy.
LoadCorpus ==
  /\ pc = "corpus"
  /\ \/ pc' = "measure" /\ stage' = "proxy" /\ UNCHANGED side /\ Continue
     \/ Exit("failed")
  /\ UNCHANGED <<program, dict, orphan, proxy, workerVars>>

PathsOf(st) == IF st \in {"stream", "completions"} THEN {"rest", "proxy", "direct"} ELSE {st}
TargetOf(path) ==
  IF path = "rest" THEN addr["rest"] ELSE IF path = "proxy" /\ orphan THEN Earlier ELSE addr["grpc"]

After == [proxy |-> "direct", direct |-> "stream", stream |-> "completions"]
\* A stage ends well whether or not its requests were answered: a failed one is
\* a result like any other.
Measure ==
  /\ pc = "measure"
  /\ measured' = measured \cup {TargetOf(p) : p \in PathsOf(stage)}
  /\ \/ stage = "rest" /\ pc' = "spawn" /\ side' = "grpc" /\ UNCHANGED stage
     \/ stage = "completions" /\ Goto("finally")
     \/ stage \in DOMAIN After /\ stage' = After[stage] /\ UNCHANGED <<pc, side>>
  /\ UNCHANGED <<program, dict, addr, cold, failing, exit, orphan, proxy, workerVars>>

\* The harness exits with another status, or writes nothing, or a stage raises.
MeasureFails ==
  /\ pc = "measure"
  /\ IF stage = "rest" THEN Exit("failed")
     ELSE Goto("finally") /\ failing' = TRUE /\ UNCHANGED <<addr, cold, measured, exit>>
  /\ UNCHANGED <<program, dict, orphan, proxy, workerVars>>

\* terminate, and kill after 5 s, which reaches "uv run" and not its child.
Finally ==
  /\ pc = "finally" /\ proxy' \in {"dead"} \cup (IF proxy = "up" THEN {"left"} ELSE {})
  /\ IF failing THEN Exit("failed") ELSE pc' = "stop" /\ side' = "rest" /\ UNCHANGED stage /\ Continue
  /\ UNCHANGED <<program, dict, orphan, workerVars>>

\* Ctrl-C ends "serve" here.
Interrupt ==
  /\ pc = "block" /\ Goto("stop") /\ Continue
  /\ UNCHANGED <<program, dict, orphan, proxy, workerVars>>
PutStop ==
  /\ pc = "stop" /\ dict' = [dict EXCEPT ![<<"stop", side>>] = First]
  /\ \/ side = "rest" /\ side' = "grpc" /\ UNCHANGED <<pc, stage>> /\ Continue
     \/ side = "grpc" /\ program = "serve" /\ Exit("ok")
     \/ side = "grpc" /\ program = "bench" /\ Goto("write") /\ Continue
  /\ UNCHANGED <<program, orphan, proxy, workerVars>>

\* The reports are written one after the other, or one of them raises.
Write ==
  /\ pc = "write" /\ \E status \in {"ok", "failed"} : Exit(status)
  /\ UNCHANGED <<program, dict, orphan, proxy, workerVars>>

\* smoke_test.remote() returns, or raises when the worker is gone for good.
Remote ==
  /\ pc = "remote"
  /\ \E n \in Ours :
       /\ worker[<<side, n>>] \in {"ok", "error", "raised", "gone"}
       /\ \A m \in Ours : m > n => worker[<<side, m>>] = "off"
       /\ Exit(IF worker[<<side, n>>] = "ok" THEN "ok" ELSE "failed")
  /\ UNCHANGED <<program, dict, orphan, proxy, workerVars>>

\* The main program is interrupted or killed anywhere, or a call of Modal raises.
Killed ==
  /\ pc # "exit" /\ Exit("failed")
  /\ UNCHANGED <<program, dict, orphan, proxy, workerVars>>

----------------------------------------------------------------------------
(* A worker.                                                               *)

\* Mutant: only what was started last is killed.
KillAllProxyOnly(w) ==
  IF program = "smoke_frontend" /\ proxy # "off" THEN proxy' = "dead" /\ UNCHANGED child
  ELSE child' = [child EXCEPT ![w] = "dead"] /\ UNCHANGED proxy
\* _kill_server, _kill_frontend, _kill_all.
KillAll(w) ==
  /\ child' = [child EXCEPT ![w] = "dead"]
  /\ proxy' = IF program = "smoke_frontend" /\ proxy # "off" THEN "dead" ELSE proxy

WorkerGoto(w, l) == worker' = [worker EXCEPT ![w] = l] /\ UNCHANGED <<program, mainVars, orphan, stop>>
Fail(w) == KillAll(w) /\ WorkerGoto(w, "error") /\ UNCHANGED dict

\* The poll of its health: the child has exited, is healthy, or never is.
BootFails(w) == worker[w] = "boot" /\ Fail(w)
BootEnds(w) ==
  /\ worker[w] = "boot" /\ child[w] = "up"
  /\ WorkerGoto(w, IF program = "smoke_frontend" THEN "proxy"
                   ELSE IF program = "smoke_rest" THEN "request" ELSE "addr")
  /\ UNCHANGED <<dict, child, proxy>>

PutAddr(w) ==
  /\ worker[w] = "addr" /\ WorkerGoto(w, "cold")
  /\ dict' = [dict EXCEPT ![<<"addr", w[1]>>] = w[2]]
  /\ UNCHANGED <<child, proxy>>
PutCold(w) ==
  /\ worker[w] = "cold" /\ WorkerGoto(w, "serve")
  /\ dict' = [dict EXCEPT ![<<"cold", w[1]>>] = w[2]]
  /\ UNCHANGED <<child, proxy>>

SeeStop(w) ==
  /\ worker[w] = "serve" /\ dict[<<"stop", w[1]>>] # Absent
  /\ stop' = [stop EXCEPT ![w] = dict[<<"stop", w[1]>>]]
  /\ worker' = [worker EXCEPT ![w] = "kill"]
  /\ UNCHANGED <<program, dict, mainVars, orphan, proxy, child>>
\* 60 s before the timeout of the function.
Deadline(w) ==
  /\ worker[w] = "serve" /\ WorkerGoto(w, "kill")
  /\ UNCHANGED <<dict, child, proxy>>

Kill(w) ==
  /\ worker[w] = "kill" /\ KillAll(w) /\ WorkerGoto(w, "pop")
  /\ UNCHANGED dict
\* Three pops in a row; nobody reads two of the keys in one step.
CleanUp(w) ==
  /\ worker[w] = "pop" /\ WorkerGoto(w, "ok")
  /\ dict' = [key \in Keys |-> IF key[2] = w[1] THEN Absent ELSE dict[key]]
  /\ UNCHANGED <<child, proxy>>

\* modal_frontend_smoke.py starts a proxy next to the frontend.
SmokeProxy(w) ==
  /\ worker[w] = "proxy" /\ WorkerGoto(w, "health") /\ proxy' = "starting"
  /\ UNCHANGED <<dict, child>>
SmokeHealthy(w) ==
  /\ worker[w] = "health" /\ proxy = "up" /\ child[w] = "up" /\ WorkerGoto(w, "request")
  /\ UNCHANGED <<dict, child, proxy>>
\* Its proxy exits or never becomes healthy.
SmokeUnhealthy(w) == worker[w] = "health" /\ Fail(w)
\* One request; then everything is killed, whatever came of it.  A body that is
\* not JSON raises after that.
Request(w) ==
  /\ worker[w] = "request" /\ KillAll(w) /\ UNCHANGED dict
  /\ \/ child[w] = "up" /\ (program = "smoke_frontend" => proxy = "up") /\ WorkerGoto(w, "ok")
     \/ WorkerGoto(w, "error")
     \/ WorkerGoto(w, "raised")

Working == {"boot", "addr", "cold", "serve", "kill", "pop", "proxy", "health", "request"}
\* Opening the tunnel, a call on the Dict or starting the proxy raises, or the
\* input is cancelled: there is no finally, so that the tunnel closes and what
\* runs in the container goes on.
Raises(w) ==
  /\ worker[w] \in Working /\ pc # "exit" /\ WorkerGoto(w, "raised")
  /\ UNCHANGED <<dict, child, proxy>>

----------------------------------------------------------------------------
(* Processes and containers.                                               *)

\* A server becomes healthy, exits, or blocks on the pipe nobody reads.
ChildStep(w) ==
  /\ \/ child[w] = "loading" /\ child' = [child EXCEPT ![w] = "up"]
     \/ child[w] \in {"loading", "up"} /\ child' = [child EXCEPT ![w] = "dead"]
     \/ w[1] = "grpc" /\ child[w] \in {"loading", "up"} /\ child' = [child EXCEPT ![w] = "stuck"]
  /\ pc # "exit"
  /\ UNCHANGED <<program, dict, mainVars, orphan, proxy, worker, stop>>

\* A proxy cannot bind a port that another one holds.
ProxyStep ==
  /\ \/ proxy = "starting" /\ ~orphan /\ proxy' = "up"
     \/ proxy \in {"starting", "up"} /\ proxy' = "dead"
  /\ pc # "exit"
  /\ UNCHANGED <<program, dict, mainVars, orphan, workerVars>>

\* Modal preempts a worker or loses its container, with all that runs in it;
\* what it has put in the Dict stays.
Dies(w, again) ==
  /\ worker[w] \in Working /\ pc # "exit"
  /\ IF again
     THEN LET v == <<w[1], w[2] + 1>> IN
          /\ v \in Workers /\ Cardinality({u \in Workers : u[2] > First /\ worker[u] # "off"}) < Restarts
          /\ worker' = [worker EXCEPT ![w] = "gone", ![v] = "boot"]
          /\ child' = [child EXCEPT ![w] = "dead", ![v] = "loading"]
     ELSE /\ worker' = [worker EXCEPT ![w] = "gone"]
          /\ child' = [child EXCEPT ![w] = "dead"]
  /\ proxy' = IF program = "smoke_frontend" THEN "off" ELSE proxy
  /\ UNCHANGED <<program, dict, mainVars, orphan, stop>>

\* Modal stops an app whose main program has ended, and its containers.
StopApp ==
  /\ pc = "exit" /\ \E w \in Workers : worker[w] \in Working \cup {"raised"}
  /\ worker' = [w \in Workers |->
                  IF worker[w] \in Working \cup {"raised"} THEN "gone" ELSE worker[w]]
  /\ child' = [w \in Workers |->
                 IF worker[w] \in Working \cup {"raised"} THEN "dead" ELSE child[w]]
  /\ proxy' = IF program = "smoke_frontend" THEN "off" ELSE proxy
  /\ UNCHANGED <<program, dict, mainVars, orphan, stop>>

----------------------------------------------------------------------------
Init ==
  /\ program \in Programs
  /\ dict \in [Keys -> IF program \in Smoke THEN {Absent} ELSE {Absent, Earlier}]
  /\ orphan \in (IF program = "bench" THEN Orphans ELSE {FALSE})
  /\ pc = (IF program \in Smoke THEN "remote" ELSE "clear")
  /\ side = (IF program \in {"bench", "smoke_rest"} THEN "rest" ELSE "grpc")
  /\ stage = "rest"
  /\ addr = [s \in Sides |-> Absent] /\ cold = [s \in Sides |-> Absent]
  /\ measured = {} /\ failing = FALSE /\ exit = "none" /\ proxy = "off"
  /\ worker = [w \in Workers |-> IF program \in Smoke /\ w = <<side, First>> THEN "boot" ELSE "off"]
  /\ child = [w \in Workers |-> IF worker[w] = "boot" THEN "loading" ELSE "off"]
  /\ stop = [w \in Workers |-> Absent]

Main ==
  \/ Clear \/ Spawn \/ ReadAddr \/ AddrTimeout \/ ReadCold
  \/ StartProxy \/ SeeHealthy \/ NeverHealthy \/ LoadCorpus
  \/ Measure \/ MeasureFails \/ Finally \/ PutStop \/ Write \/ Remote \/ StopApp
\* All of the REST smoke test, and how the workers of the other programs start.
SmokeTest(w) == BootFails(w) \/ BootEnds(w) \/ Request(w)
SmokeFrontend(w) == SmokeProxy(w) \/ SmokeHealthy(w) \/ SmokeUnhealthy(w)
\* What a server does once its child is healthy.
ServeFrontend(w) ==
  PutAddr(w) \/ PutCold(w) \/ SeeStop(w) \/ Deadline(w) \/ Kill(w) \/ CleanUp(w)
WorkerStep(w) == SmokeTest(w) \/ SmokeFrontend(w) \/ ServeFrontend(w)
Worker(s) == \E n \in Ours : WorkerStep(<<s, n>>)

Next ==
  \/ Main \/ Interrupt \/ Killed \/ ProxyStep
  \/ \E s \in Sides : Worker(s)
  \/ \E w \in Workers : ChildStep(w) \/ Raises(w) \/ \E again \in BOOLEAN : Dies(w, again)

\* The programs run, their polls and deadlines end; the harness and the other
\* stages end, because each of their requests has a timeout.  No server has to
\* become healthy, and nobody has to press Ctrl-C.
Spec ==
  /\ Init /\ [][Next]_vars /\ WF_vars(Main) /\ \A s \in Sides : WF_vars(Worker(s))

----------------------------------------------------------------------------
(***************************************************************************)
(* Properties.                                                             *)
(***************************************************************************)

\* The variables have the types of the code.
Values == {Absent, Earlier} \cup Ours
TypeOK ==
  /\ program \in Programs /\ orphan \in BOOLEAN /\ failing \in BOOLEAN
  /\ dict \in [Keys -> Values]
  /\ pc \in {"clear", "spawn", "addr", "cold", "proxy", "health", "corpus", "measure", "finally",
             "block", "stop", "write", "remote", "exit"}
  /\ side \in Sides /\ stage \in Stages /\ exit \in {"none", "ok", "failed"}
  /\ addr \in [Sides -> {Absent} \cup Ours] /\ cold \in [Sides -> {Absent} \cup Ours]
  /\ measured \subseteq Values
  /\ proxy \in {"off", "starting", "up", "dead", "left"}
  /\ worker \in [Workers -> Working \cup {"off", "ok", "error", "raised", "gone"}]
  /\ child \in [Workers -> {"off", "loading", "up", "stuck", "dead"}]
  /\ stop \in [Workers -> Values]

\* Whatever earlier runs have left in the Dict or on the proxy's port, every
\* measurement goes to a worker of this run, and a cold start attached to a
\* report was measured by one.
MeasuresOwn == measured \subseteq Ours /\ \A s \in Sides : cold[s] # Earlier

\* No worker is stopped by a signal before the last measurement is over, not by
\* an old signal and not by the other side's.
Over == {"stop", "write", "exit"}
NoEarlyStop == \A w \in Workers : stop[w] # Absent => stop[w] = First /\ pc \in Over

\* On none of the many ways on which it returns does a worker leave its server,
\* or the proxy of the smoke test, behind in a container Modal may reuse.  One
\* whose exception escapes does: those are the only servers without a worker.
NothingLeft ==
  /\ \A w \in Workers : child[w] \notin {"off", "dead"} => worker[w] \in Working \cup {"raised"}
  /\ program = "smoke_frontend" /\ proxy \notin {"off", "dead"} =>
       \E w \in Workers : worker[w] \in {"health", "request", "raised"}

\* What an earlier run has left in the Dict is gone before a worker exists, and a
\* stop signal of this run is not there before its measurements are over.
DictInv ==
  /\ \A key \in Keys : dict[key] = Earlier =>
       pc \in {"clear", "exit"} /\ \A w \in Workers : worker[w] = "off"
  /\ \A s \in Sides : dict[<<"stop", s>>] \notin {Absent, Earlier} =>
       dict[<<"stop", s>>] = First /\ pc \in Over
\* Where the main program stands and what it has read by then.
PhaseInv ==
  /\ pc = "remote" => program \in Smoke
  /\ pc \notin {"remote", "exit"} => program \notin Smoke
  /\ pc \in {"cold", "proxy", "health", "corpus", "measure"} => addr[side] # Absent
  /\ pc \in {"proxy", "health", "corpus", "measure", "finally", "write"} => program = "bench"
  /\ program \in {"serve", "smoke_frontend"} => side = "grpc"
  /\ pc \in {"proxy", "health", "corpus"} => side = "grpc"
  /\ pc = "measure" => (stage = "rest" <=> side = "rest")
  /\ pc \notin {"measure", "finally", "stop", "write", "exit"} => stage = "rest"
  /\ program = "bench" /\ side = "grpc" /\ pc \notin Over => addr["rest"] # Absent
  /\ pc = "corpus" \/ (pc = "measure" /\ stage # "rest") => ~orphan
\* A worker exists once it is spawned, and one at a time.
Alive == Working \cup {"ok", "error", "raised"}
OneWorker ==
  /\ \A v, w \in Workers : v[1] = w[1] /\ {worker[v], worker[w]} \subseteq Alive => v = w
  /\ pc \in {"clear", "spawn"} => \A w \in Workers : w[1] = side => worker[w] = "off"
  /\ program = "bench" /\ side = "rest" /\ pc \in {"clear", "spawn", "addr", "cold", "measure"} =>
       \A w \in Workers : w[1] = "grpc" => worker[w] = "off"
  /\ program # "bench" => \A w \in Workers : w[1] # side => worker[w] = "off"
\* The server of a worker lives no longer than the worker, and neither does the
\* proxy of the smoke test, unless the worker raises.
ChildInv ==
  /\ \A w \in Workers :
       /\ worker[w] \in {"pop", "ok", "error", "gone"} => child[w] = "dead"
       /\ worker[w] = "off" => child[w] = "off"
       /\ program \in Smoke => worker[w] \notin {"addr", "cold", "serve", "kill", "pop"}
  /\ program = "smoke_frontend" /\ proxy \notin {"off", "dead"} =>
       \E w \in Workers : worker[w] \in {"health", "request", "raised"}
ServeInv ==
  TypeOK /\ MeasuresOwn /\ NoEarlyStop /\ DictInv /\ PhaseInv /\ OneWorker /\ ChildInv

\* Every program ends, or "serve" waits for its Ctrl-C, and no worker serves for
\* ever.
ServeEnds == <>[](pc \in {"exit", "block"} /\ \A w \in Workers : worker[w] # "serve")
=============================================================================
