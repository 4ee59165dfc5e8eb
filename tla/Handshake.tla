------------------------------ MODULE Handshake ------------------------------
(***************************************************************************)
(* A Modal deployment from the client's side (modal_endpoint.py:           *)
(* provide_endpoint, provide_rest_grpc_endpoint, provide_m6_endpoint) and  *)
(* the workers it spawns (modal_bench_grpc_server.py,                      *)
(* modal_bench_rest_grpc_server.py: serve_bench, serve_bench_real_engine). *)
(* They meet in one modal.Dict of a fixed name, which outlives every run:  *)
(* each get, put and pop is a step of its own.                             *)
(*                                                                         *)
(* A value in the Dict is abstracted to the worker that wrote it.  Keys    *)
(* that are never read back (region, model) are left out, and so are those *)
(* put, popped and read next to another one: rest goes with grpc, and      *)
(* rest_plain_tcp_url with rest_https_edge_url ("edge").                   *)
(***************************************************************************)
EXTENDS Naturals, Sequences, FiniteSets

CONSTANTS
  Kinds,       \* subset of {"m5", "m5_1", "m5_2", "m6"}: what is deployed
  Restarts,    \* bound on the restarts of a preempted worker
  MaxFailures, \* bound on the pops that fail in a run
  StrayAlive,  \* the worker of an earlier run may still be there
  SameToken    \* the earlier run was started with the same token

Absent == 0
Earlier == 1                  \* the worker, or the client, of an earlier run
First == 2
Ours == First .. First + Restarts
Workers == {Earlier} \cup Ours

ASSUME HandshakeAssumption ==
  /\ Kinds \subseteq {"m5", "m5_1", "m5_2", "m6"}
  /\ Restarts \in Nat /\ MaxFailures \in Nat
  /\ StrayAlive \in BOOLEAN /\ SameToken \in BOOLEAN

VARIABLES
  kind,
  dict,        \* the shared Dict
  client,      \* "spawn", "clear", "poll", "read", "yielded", "teardown",
               \* "drain", "exit" or "out"
  step,        \* the next key the client pops or reads
  got,         \* what it has read
  missed,      \* history: the keys its clear has left in the Dict
  worker,      \* of each: "off", "start", "clear", "load", "put", "serve",
               \* "pop", "returned" or "gone"
  next_key,    \* the next key each of them pops or puts
  stop,        \* who put the teardown a worker has seen
  missed_early,  \* history: the keys its early clear has left
  missed_late    \* history: the keys its finally clause has left

clientVars == <<client, step, got, missed>>
missedOf == <<missed_early, missed_late>>
workerVars == <<worker, next_key, stop, missedOf>>
vars == <<kind, dict, clientVars, workerVars>>

Keys == {"endpoint", "grpc", "edge", "token", "ready", "teardown"}

\* In the order of the code.  M5.1 does not read the edge URL.
Puts ==
  IF kind = "m5" THEN <<"endpoint", "token", "ready">>
  ELSE <<"grpc", "edge", "token", "ready">>
Pops ==
  IF kind = "m5" THEN <<"endpoint", "token", "ready", "teardown">>
  ELSE <<"grpc", "edge", "token", "ready", "teardown">>
Reads ==
  IF kind = "m5" THEN <<"endpoint", "token">>
  ELSE IF kind = "m5_1" THEN <<"grpc", "token">> ELSE <<"grpc", "token", "edge">>

----------------------------------------------------------------------------
(* The client.                                                             *)

Become(c) == client' = c /\ step' = 1
Quit == Become("exit") /\ got' = [key \in Keys |-> Absent]

\* Whatever a pop raises is suppressed.  It may raise with the key still there:
\* then the key stays and the code goes on to the next one.
LeftBy(keys) == UNION {{w} \X keys[w] : w \in Workers}
Failures ==
  Cardinality(missed) + Cardinality(LeftBy(missed_early)) + Cardinality(LeftBy(missed_late))
Pop(key) == dict' = [dict EXCEPT ![key] = Absent]
PopFails(key) == dict[key] # Absent /\ Failures < MaxFailures /\ UNCHANGED dict

Spawn ==
  /\ client = "spawn" /\ Become("clear")
  /\ worker' = [worker EXCEPT ![First] = "start"]
  /\ UNCHANGED <<kind, dict, got, missed, next_key, stop, missedOf>>

\* Mutant: only what could stop the worker is cleared.
ClearKeyTeardown ==
  /\ client = "clear" /\ Pop("teardown") /\ Become("poll")
  /\ UNCHANGED <<kind, got, missed, workerVars>>

\* "Clear any stale handshake state from an earlier crashed run": after the
\* worker was spawned, which may have published by now.
ClearKey ==
  /\ client = "clear"
  /\ \/ Pop(Pops[step]) /\ UNCHANGED missed
     \/ PopFails(Pops[step]) /\ missed' = missed \cup {Pops[step]}
  /\ IF step < Len(Pops) THEN step' = step + 1 /\ UNCHANGED client ELSE Become("poll")
  /\ UNCHANGED <<kind, got, workerVars>>

SeeReady ==
  /\ client = "poll" /\ dict["ready"] # Absent /\ Become("read")
  /\ UNCHANGED <<kind, dict, got, missed, workerVars>>

\* ModalDeployError after the handshake's timeout, outside the inner try.
HandshakeTimeout ==
  /\ client = "poll" /\ Quit
  /\ UNCHANGED <<kind, dict, missed, workerVars>>

\* The token is compared with the one this run was started with.
Acceptable(key, v) ==
  v # Absent /\ (key = "token" => v \in Ours \/ SameToken)

\* One key after the other, each as it is at that moment; an empty one or
\* another token raises ModalDeployError.
Read ==
  LET key == Reads[step] IN
  /\ client = "read"
  /\ IF ~Acceptable(key, dict[key]) THEN Quit
     ELSE /\ got' = [got EXCEPT ![key] = dict[key]]
          /\ IF step < Len(Reads) THEN step' = step + 1 /\ UNCHANGED client
             ELSE Become("yielded")
  /\ UNCHANGED <<kind, dict, missed, workerVars>>

\* The body of the context manager ends or raises.
BodyEnds ==
  /\ client = "yielded" /\ Become("teardown")
  /\ UNCHANGED <<kind, dict, got, missed, workerVars>>

\* The put is suppressed when it fails.
PutTeardown ==
  /\ client = "teardown" /\ Become("drain")
  /\ dict' \in {dict, [dict EXCEPT !["teardown"] = First]}
  /\ UNCHANGED <<kind, got, missed, workerVars>>

\* The call has returned, has raised or was waited for long enough.
Drain ==
  /\ client = "drain" /\ Quit
  /\ UNCHANGED <<kind, dict, missed, workerVars>>

\* The client's process is killed anywhere.
ClientKilled ==
  /\ client \notin {"exit", "out"} /\ Quit
  /\ UNCHANGED <<kind, dict, missed, workerVars>>

\* The exit of app.run, or Modal when the client has gone, stops what is left
\* of the app wherever it is.
StopApp ==
  /\ client = "exit" /\ Become("out")
  /\ worker' = [w \in Workers |-> IF w \in Ours /\ worker[w] # "returned" THEN "gone" ELSE worker[w]]
  /\ UNCHANGED <<kind, dict, got, missed, next_key, stop, missedOf>>

----------------------------------------------------------------------------
(* A worker.                                                               *)

Go(w, to) ==
  worker' = [worker EXCEPT ![w] = to] /\ next_key' = [next_key EXCEPT ![w] = 1]
Advance(w, last, to) ==
  IF next_key[w] < last
  THEN next_key' = [next_key EXCEPT ![w] = @ + 1] /\ UNCHANGED worker
  ELSE Go(w, to)

\* Mutant: the real-engine worker does not clear the Dict first.
StartAtOnce(w) ==
  /\ worker[w] = "start" /\ Go(w, "load")
  /\ UNCHANGED <<kind, dict, clientVars, stop, missedOf>>
\* The container runs the function.
Start(w) ==
  /\ worker[w] = "start" /\ Go(w, IF kind = "m6" THEN "clear" ELSE "load")
  /\ UNCHANGED <<kind, dict, clientVars, stop, missedOf>>

\* Mutant: one key is not cleared.
EarlyClearShort(w) ==
  /\ worker[w] = "clear" /\ Pop(Pops[next_key[w]]) /\ Advance(w, Len(Pops) - 1, "load")
  /\ UNCHANGED <<kind, clientVars, stop, missedOf>>
\* "Defensively invalidate stale handshake state": the real-engine worker only.
EarlyClear(w) ==
  /\ worker[w] = "clear" /\ Advance(w, Len(Pops), "load")
  /\ LET key == Pops[next_key[w]] IN
     \/ Pop(key) /\ UNCHANGED missed_early
     \/ PopFails(key) /\ missed_early' = [missed_early EXCEPT ![w] = @ \cup {key}]
  /\ UNCHANGED <<kind, clientVars, stop, missed_late>>

\* The engine loads and the servers start, or an exception ends the function
\* before its try.  Inside a running loop the smoke check becomes a task that
\* nothing awaits: what it finds changes nothing.
Load(w) ==
  /\ worker[w] = "load"
  /\ Go(w, "put") \/ Go(w, "gone")
  /\ UNCHANGED <<kind, dict, clientVars, stop, missedOf>>

\* A tunnel or a put that raises leads to the finally clause.
Put(w) ==
  /\ worker[w] = "put"
  /\ \/ dict' = [dict EXCEPT ![Puts[next_key[w]]] = w] /\ Advance(w, Len(Puts), "serve")
     \/ Go(w, "pop") /\ UNCHANGED dict
  /\ UNCHANGED <<kind, clientVars, stop, missedOf>>

SeeTeardown(w) ==
  /\ worker[w] = "serve" /\ dict["teardown"] # Absent
  /\ stop' = [stop EXCEPT ![w] = dict["teardown"]] /\ Go(w, "pop")
  /\ UNCHANGED <<kind, dict, clientVars, missedOf>>

\* Mutant: the loop only ends on a teardown.
OwnDeadlineNever(w) ==
  worker[w] = "deadline" /\ UNCHANGED vars
\* 30 s before the timeout of the function.
OwnDeadline(w) ==
  /\ worker[w] = "serve" /\ Go(w, "pop")
  /\ UNCHANGED <<kind, dict, clientVars, stop, missedOf>>

\* Mutant: the worker leaves the teardown it was stopped with.
CleanUpKeepsTeardown(w) ==
  /\ worker[w] = "pop" /\ Pop(Pops[next_key[w]]) /\ Advance(w, Len(Pops) - 1, "returned")
  /\ UNCHANGED <<kind, clientVars, stop, missedOf>>
\* The finally clause pops every key, whoever put it, as far as the pops succeed.
CleanUp(w) ==
  /\ worker[w] = "pop" /\ Advance(w, Len(Pops), "returned")
  /\ LET key == Pops[next_key[w]] IN
     \/ Pop(key) /\ UNCHANGED missed_late
     \/ PopFails(key) /\ missed_late' = [missed_late EXCEPT ![w] = @ \cup {key}]
  /\ UNCHANGED <<kind, clientVars, stop, missed_early>>

\* Modal preempts a worker and restarts it with the same input; the old one
\* dies at once or is interrupted, which leads to its finally clause.
Preempt(w) ==
  /\ {w, w + 1} \subseteq Ours /\ worker[w + 1] = "off" /\ client # "out"
  /\ worker[w] \in {"start", "clear", "load", "put", "serve"}
  /\ \E to \in {"gone"} \cup (IF worker[w] \in {"put", "serve"} THEN {"pop"} ELSE {}) :
       worker' = [worker EXCEPT ![w] = to, ![w + 1] = "start"]
  /\ next_key' = [next_key EXCEPT ![w] = 1]
  /\ UNCHANGED <<kind, dict, clientVars, stop, missedOf>>

----------------------------------------------------------------------------
\* What an earlier run has left behind: its worker was stopped between its puts
\* and its pops, or during them, and its client may have put teardown after.
Leftover(keys) ==
  \/ keys = {}
  \/ \E i, j \in DOMAIN Puts : i <= j /\ keys = {Puts[n] : n \in i .. j}
Init ==
  /\ kind \in Kinds
  /\ \E keys \in SUBSET Keys :
       /\ Leftover(keys \ {"teardown"})
       /\ dict = [key \in Keys |-> IF key \in keys THEN Earlier ELSE Absent]
  /\ client = "spawn" /\ step = 1 /\ got = [key \in Keys |-> Absent]
  /\ worker \in [Workers -> {"off", "load"}]
  /\ \A w \in Workers : worker[w] = "load" => StrayAlive /\ w = Earlier
  /\ next_key = [w \in Workers |-> 1]
  /\ stop = [w \in Workers |-> Absent]
  /\ missed = {} /\ missed_early = [w \in Workers |-> {}]
  /\ missed_late = [w \in Workers |-> {}]

Client ==
  Spawn \/ ClearKey \/ SeeReady \/ Read \/ PutTeardown \/ Drain \/ StopApp
Worker(w) ==
  Start(w) \/ EarlyClear(w) \/ Load(w) \/ Put(w) \/ SeeTeardown(w) \/ CleanUp(w)

Next ==
  \/ Client \/ HandshakeTimeout \/ BodyEnds \/ ClientKilled
  \/ \E w \in Workers : Worker(w) \/ OwnDeadline(w) \/ Preempt(w)

\* Both programs run, and both deadlines pass.  The body of the context
\* manager may run for ever.
Spec ==
  /\ Init /\ [][Next]_vars
  /\ WF_vars(Client) /\ WF_vars(HandshakeTimeout)
  /\ \A w \in Workers : WF_vars(Worker(w)) /\ WF_vars(OwnDeadline(w))

----------------------------------------------------------------------------
(***************************************************************************)
(* Properties.                                                             *)
(***************************************************************************)

\* The variables have the types of the code.
TypeOK ==
  /\ kind \in Kinds
  /\ dict \in [Keys -> {Absent} \cup Workers]
  /\ client \in {"spawn", "clear", "poll", "read", "yielded", "teardown", "drain",
                 "exit", "out"}
  /\ step \in Nat \ {0} /\ got \in [Keys -> {Absent} \cup Workers]
  /\ worker \in [Workers -> {"off", "start", "clear", "load", "put", "serve", "pop", "returned", "gone"}]
  /\ next_key \in [Workers -> Nat \ {0}]
  /\ stop \in [Workers -> {Absent} \cup Workers]
  /\ missed \subseteq Keys
  /\ missed_early \in [Workers -> SUBSET Keys] /\ missed_late \in [Workers -> SUBSET Keys]

\* No worker of an earlier run is about.
Undisturbed == worker[Earlier] = "off"
Yielded == client \in {"yielded", "teardown", "drain"}

\* The handshake yields a whole set of URLs, all of them of workers of this
\* run, whatever earlier runs left in the Dict, whenever the worker publishes
\* and however often it is preempted, even when every run has the same token.
\* Only two failures of the client's best-effort clear together let an old URL
\* through: that of its key and that of "ready".
OwnEndpoints ==
  Undisturbed /\ Yielded =>
    \A i \in DOMAIN Reads :
      got[Reads[i]] \in Ours \/ {Reads[i], "ready"} \subseteq missed

\* A real-engine worker is never stopped by the teardown of an earlier run,
\* unless its own early clear failed to pop it.
NoStaleStop ==
  Undisturbed /\ kind = "m6" =>
    \A w \in Ours : stop[w] # Earlier \/ "teardown" \in missed_early[w]

\* A run whose last worker saw its teardown and cleaned up leaves nothing for
\* the next run to trip over but what this worker failed to pop.
LastWorker(w) == worker[w] # "off" /\ \A v \in Ours : v > w => worker[v] = "off"
CleanExit ==
  Undisturbed =>
    \A w \in Ours :
      LastWorker(w) /\ worker[w] = "returned" /\ stop[w] = First
        => \A key \in Keys \ missed_late[w] : dict[key] = Absent

\* The inductive invariant.  Loops stay within their lists.
LoopInv ==
  /\ client = "clear" => step \in DOMAIN Pops
  /\ client = "read" => step \in DOMAIN Reads
  /\ \A w \in Workers :
       /\ worker[w] \in {"clear", "pop"} => next_key[w] \in DOMAIN Pops
       /\ worker[w] = "put" => next_key[w] \in DOMAIN Puts

\* What the client, and a real-engine worker, have popped is not an earlier
\* run's any more; nobody is left to put it back.
Fresh(n, but) == \A i \in DOMAIN Pops : i < n /\ Pops[i] \notin but => dict[Pops[i]] # Earlier
AllFresh(but) == \A i \in DOMAIN Pops : Pops[i] \notin but => dict[Pops[i]] # Earlier
FreshInv ==
  Undisturbed =>
    /\ client = "clear" => Fresh(step, missed)
    /\ client \in {"poll", "read", "yielded", "teardown", "drain"} => AllFresh(missed)
    /\ \A w \in Ours : kind = "m6" =>
         /\ worker[w] = "clear" => Fresh(next_key[w], missed_early[w])
         /\ worker[w] \in {"load", "put", "serve"} => AllFresh(missed_early[w])

\* "ready" is put after the rest: where it is this run's, so are the others, or
\* popped again.  A client whose clear took the old "ready" starts to read with
\* that known.
PutBefore(n) == \A i \in DOMAIN Puts : i < n => dict[Puts[i]] # Earlier
AllPut == \A i \in DOMAIN Puts : dict[Puts[i]] # Earlier
ReadyInv ==
  Undisturbed =>
    /\ \A w \in Ours : worker[w] = "put" => PutBefore(next_key[w])
    /\ dict["ready"] \in Ours => AllPut
    /\ client = "read" =>
         /\ "ready" \notin missed => AllPut
         /\ \A i \in DOMAIN Reads :
              i < step => got[Reads[i]] \in Ours \/ {Reads[i], "ready"} \subseteq missed

\* One worker after the other, of which only the last one puts anything; the
\* client puts teardown once, when it has nothing left to do.
OrderInv ==
  /\ client = "spawn" => \A w \in Ours : worker[w] = "off"
  /\ \A w \in Ours : worker[w] \notin {"pop", "returned", "gone"} => stop[w] = Absent
  /\ \A w \in Ours :
       /\ w + 1 \in Ours /\ worker[w + 1] # "off" =>
            worker[w] \in {"pop", "returned", "gone"}
       /\ worker[w] = "off" => \A v \in Ours : v > w => worker[v] = "off"
  /\ \A key \in Keys : (\A i \in DOMAIN Pops : Pops[i] # key) => dict[key] = Absent
  /\ dict["teardown"] \in {Absent, Earlier, First}
  /\ dict["teardown"] = First => client \in {"drain", "exit", "out"}
  /\ \A w \in Ours : stop[w] = First => client \in {"drain", "exit", "out"}
TornDown(w) == LastWorker(w) /\ stop[w] = First
CleanInv ==
  Undisturbed =>
    \A w \in Ours : TornDown(w) =>
      /\ worker[w] \in {"pop", "returned", "gone"}
      /\ \A i \in DOMAIN Pops :
           worker[w] = "returned" \/ (worker[w] = "pop" /\ i < next_key[w]) =>
             dict[Pops[i]] = Absent \/ Pops[i] \in missed_late[w]
HandshakeInv ==
  /\ TypeOK /\ LoopInv /\ FreshInv /\ ReadyInv /\ OrderInv /\ CleanInv
  /\ OwnEndpoints /\ NoStaleStop

\* The handshake ends, a worker that never publishes included, and no worker
\* serves for ever, whatever becomes of the client and its teardown.
HandshakeEnds ==
  /\ client \in {"clear", "poll", "read"} ~> client \in {"yielded", "exit", "out"}
  /\ \A w \in Workers : worker[w] = "serve" ~> worker[w] \in {"returned", "gone"}
============================================================================
