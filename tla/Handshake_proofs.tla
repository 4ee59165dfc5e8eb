-------------------------- MODULE Handshake_proofs --------------------------
(***************************************************************************)
(* The invariants of Handshake for any number of restarts, any remainder   *)
(* of an earlier run in the Dict and any way of starting the stray worker. *)
(***************************************************************************)
EXTENDS Handshake, TLAPS

\* Numbers that stand for workers.
LEMMA WorkerFacts ==
  /\ Ours \subseteq Workers /\ Workers \subseteq Nat
  /\ First \in Ours /\ Earlier \in Workers /\ Earlier \notin Ours
  /\ Absent \notin Workers /\ Absent # Earlier /\ Absent # First /\ Earlier # First
  /\ \A w \in Workers : w \in Ours \/ w = Earlier
  BY HandshakeAssumption DEF HandshakeAssumption, Workers, Ours, First, Earlier, Absent

\* The three lists of keys: what is read or put is also popped, and no worker
\* puts a teardown.
IsList(s) == s \in Seq(Keys) /\ Len(s) \in Nat \ {0} /\ DOMAIN s = 1 .. Len(s)
Within(s) == \A i \in DOMAIN s : \E j \in DOMAIN Pops : Pops[j] = s[i]
WasPut(s) == \A i \in DOMAIN s : \E j \in DOMAIN Puts : Puts[j] = s[i]
LEMMA ListFacts ==
  /\ IsList(Puts) /\ IsList(Pops) /\ IsList(Reads)
  /\ Within(Puts) /\ Within(Reads) /\ WasPut(Reads)
  /\ \E j \in DOMAIN Pops : Pops[j] = "teardown"
  /\ \E j \in DOMAIN Pops : Pops[j] = "ready"
  /\ \A i \in DOMAIN Puts : Puts[i] = "ready" => i = Len(Puts)
  /\ \A i \in DOMAIN Puts : Puts[i] # "teardown"
<1>1. CASE kind = "m5"
  <2>1. Pops = <<"endpoint", "token", "ready", "teardown">>
        /\ Puts = <<"endpoint", "token", "ready">>
        /\ Reads = <<"endpoint", "token">>
    BY <1>1 DEF Pops, Puts, Reads
  <2>2. Pops[1] = "endpoint" /\ Pops[2] = "token" /\ Pops[3] = "ready" /\ Pops[4] = "teardown"
    BY <2>1
  <2>3. DOMAIN Pops = 1 .. 4 /\ DOMAIN Puts = 1 .. 3 /\ DOMAIN Reads = 1 .. 2
    BY <2>1
  <2>4. IsList(Puts) /\ IsList(Pops) /\ IsList(Reads)
    BY <2>1 DEF IsList, Keys
  <2>5. Within(Puts)
    BY <2>1, <2>2, <2>3 DEF Within
  <2>6. Within(Reads) /\ WasPut(Reads)
    BY <2>1, <2>2, <2>3 DEF Within, WasPut
  <2>7. Puts[1] # "ready" /\ Puts[2] # "ready" /\ Len(Puts) = 3
    BY <2>1
  <2>8. \A i \in DOMAIN Puts : Puts[i] = "ready" => i = Len(Puts)
    BY <2>3, <2>7
  <2> QED
    BY <2>1, <2>2, <2>3, <2>4, <2>5, <2>6, <2>8
<1>2. CASE kind # "m5"
  <2>1. Pops = <<"grpc", "edge", "token", "ready", "teardown">>
        /\ Puts = <<"grpc", "edge", "token", "ready">>
    BY <1>2 DEF Pops, Puts
  <2>2. Pops[1] = "grpc" /\ Pops[2] = "edge" /\ Pops[3] = "token" /\ Pops[4] = "ready"
        /\ Pops[5] = "teardown"
    BY <2>1
  <2>3. DOMAIN Pops = 1 .. 5 /\ DOMAIN Puts = 1 .. 4
    BY <2>1
  <2>4. IsList(Puts) /\ IsList(Pops)
    BY <2>1 DEF IsList, Keys
  <2>5. Within(Puts)
    BY <2>1, <2>2, <2>3 DEF Within
  <2>6. IsList(Reads) /\ Within(Reads) /\ WasPut(Reads)
    <3>1. CASE kind = "m5_1"
      <4>1. Reads = <<"grpc", "token">>
        BY <3>1 DEF Reads
      <4>2. IsList(Reads)
        BY <4>1 DEF IsList, Keys
      <4> QED
        BY <4>1, <4>2, <2>1, <2>2, <2>3 DEF Within, WasPut
    <3>2. CASE kind # "m5_1"
      <4>1. Reads = <<"grpc", "token", "edge">>
        BY <1>2, <3>2 DEF Reads
      <4>2. IsList(Reads)
        BY <4>1 DEF IsList, Keys
      <4> QED
        BY <4>1, <4>2, <2>1, <2>2, <2>3 DEF Within, WasPut
    <3> QED
      BY <3>1, <3>2
  <2>7. Puts[1] # "ready" /\ Puts[2] # "ready" /\ Puts[3] # "ready" /\ Len(Puts) = 4
    BY <2>1
  <2>8. \A i \in DOMAIN Puts : Puts[i] = "ready" => i = Len(Puts)
    BY <2>3, <2>7
  <2> QED
    BY <2>1, <2>2, <2>3, <2>4, <2>5, <2>6, <2>8
<1> QED
  BY <1>1, <1>2

\* Every variable keeps its type, and every loop its list.
LEMMA TypeKept == TypeOK /\ LoopInv /\ [Next]_vars => TypeOK'
<1> SUFFICES ASSUME TypeOK, LoopInv, [Next]_vars PROVE TypeOK'
  OBVIOUS
<1> USE WorkerFacts DEF TypeOK, clientVars, workerVars, missedOf, Become, Quit, Pop, PopFails, Go
<1>1. CASE Spawn
  BY <1>1 DEF Spawn
<1>2. CASE ClearKey
  <2>1. dict' \in [Keys -> {Absent} \cup Workers]
    BY <1>2 DEF ClearKey
  <2>2. step' \in Nat \ {0}
    BY <1>2, ListFacts DEF ClearKey, IsList
  <2>3. client' \in {"clear", "poll"}
    BY <1>2 DEF ClearKey
  <2>4. missed' \subseteq Keys
    <3>1. Pops[step] \in Keys
      BY <1>2, ListFacts DEF ClearKey, LoopInv, IsList
    <3>2. missed' = missed \/ missed' = missed \cup {Pops[step]}
      BY <1>2 DEF ClearKey
    <3> QED
      BY <3>1, <3>2
  <2>5. UNCHANGED <<kind, got, worker, next_key, stop, missed_early, missed_late>>
    BY <1>2 DEF ClearKey
  <2> QED
    BY <2>1, <2>2, <2>3, <2>4, <2>5
<1>3. CASE SeeReady \/ HandshakeTimeout \/ BodyEnds \/ Drain \/ ClientKilled
  BY <1>3 DEF SeeReady, HandshakeTimeout, BodyEnds, Drain, ClientKilled
<1>4. CASE Read
  <2>1. Reads[step] \in Keys \/ client # "read"
    BY ListFacts DEF LoopInv, IsList
  <2> QED
    BY <1>4, <2>1 DEF Read
<1>5. CASE PutTeardown
  BY <1>5 DEF PutTeardown
<1>6. CASE StopApp
  BY <1>6 DEF StopApp
<1>7. ASSUME NEW w \in Workers, Start(w) \/ Load(w) \/ OwnDeadline(w) \/ SeeTeardown(w)
      PROVE TypeOK'
  <2>1. CASE Start(w) \/ OwnDeadline(w)
    BY <2>1 DEF Start, OwnDeadline
  <2>2. CASE Load(w)
    <3>3. worker' = [worker EXCEPT ![w] = "put"] \/ worker' = [worker EXCEPT ![w] = "gone"]
      BY <2>2 DEF Load
    <3>4. worker' \in [Workers -> {"off", "start", "clear", "load", "put", "serve", "pop",
                                  "returned", "gone"}]
      BY <3>3
    <3>5. next_key' = [next_key EXCEPT ![w] = 1]
      BY <2>2 DEF Load
    <3> QED
      BY <2>2, <3>4, <3>5 DEF Load
  <2>3. CASE SeeTeardown(w)
    BY <2>3 DEF SeeTeardown, Keys
  <2> QED
    BY <1>7, <2>1, <2>2, <2>3
<1>8. ASSUME NEW w \in Workers, EarlyClear(w) \/ CleanUp(w) PROVE TypeOK'
  <2>1. next_key' \in [Workers -> Nat \ {0}]
    BY <1>8 DEF EarlyClear, CleanUp, Advance
  <2>2. worker' \in [Workers -> {"off", "start", "clear", "load", "put", "serve", "pop",
                                "returned", "gone"}]
    BY <1>8 DEF EarlyClear, CleanUp, Advance
  <2>3. dict' \in [Keys -> {Absent} \cup Workers]
    BY <1>8 DEF EarlyClear, CleanUp
  <2>4. Pops[next_key[w]] \in Keys
    BY <1>8, ListFacts DEF EarlyClear, CleanUp, LoopInv, IsList
  <2>5. missed_early' \in [Workers -> SUBSET Keys]
    <3>1. \/ missed_early' = missed_early
          \/ missed_early' = [missed_early EXCEPT ![w] = @ \cup {Pops[next_key[w]]}]
      BY <1>8 DEF EarlyClear, CleanUp
    <3> QED
      BY <2>4, <3>1
  <2>6. missed_late' \in [Workers -> SUBSET Keys]
    <3>1. \/ missed_late' = missed_late
          \/ missed_late' = [missed_late EXCEPT ![w] = @ \cup {Pops[next_key[w]]}]
      BY <1>8 DEF EarlyClear, CleanUp
    <3> QED
      BY <2>4, <3>1
  <2>7. UNCHANGED <<kind, client, step, got, missed, stop>>
    BY <1>8 DEF EarlyClear, CleanUp
  <2> QED
    BY <2>1, <2>2, <2>3, <2>5, <2>6, <2>7
<1>9. ASSUME NEW w \in Workers, Put(w) PROVE TypeOK'
  <2>1. dict' \in [Keys -> {Absent} \cup Workers]
    BY <1>9 DEF Put
  <2>2. next_key' \in [Workers -> Nat \ {0}]
    BY <1>9 DEF Put, Advance
  <2>3. worker' \in [Workers -> {"off", "start", "clear", "load", "put", "serve", "pop",
                                "returned", "gone"}]
    BY <1>9 DEF Put, Advance
  <2>4. UNCHANGED <<kind, client, step, got, missed, stop, missed_early, missed_late>>
    BY <1>9 DEF Put
  <2> QED
    BY <2>1, <2>2, <2>3, <2>4
<1>10. ASSUME NEW w \in Workers, Preempt(w) PROVE TypeOK'
  BY <1>10 DEF Preempt
<1>11. CASE UNCHANGED vars
  BY <1>11 DEF vars
<1> QED
  BY <1>1, <1>2, <1>3, <1>4, <1>5, <1>6, <1>7, <1>8, <1>9, <1>10, <1>11
     DEF Next, Client, Worker

\* Only a step of a worker of an earlier run shows that there is one.
LEMMA UndisturbedStays ==
  ASSUME TypeOK, Next PROVE kind' = kind /\ (Undisturbed' <=> Undisturbed)
<1> USE WorkerFacts DEF TypeOK, clientVars, workerVars, Become, Quit, Go, Undisturbed
<1>1. CASE Spawn \/ ClearKey \/ SeeReady \/ HandshakeTimeout \/ BodyEnds \/ Drain \/ ClientKilled
  BY <1>1 DEF Spawn, ClearKey, SeeReady, HandshakeTimeout, BodyEnds, Drain, ClientKilled
<1>2. CASE Read \/ PutTeardown \/ StopApp
  BY <1>2 DEF Read, PutTeardown, StopApp
<1>3. ASSUME NEW w \in Workers, Start(w) \/ Load(w) \/ OwnDeadline(w) \/ SeeTeardown(w)
      PROVE kind' = kind /\ (Undisturbed' <=> Undisturbed)
  BY <1>3 DEF Start, Load, OwnDeadline, SeeTeardown
<1>3p. ASSUME NEW w \in Workers, Preempt(w) PROVE kind' = kind /\ (Undisturbed' <=> Undisturbed)
  <2>1. PICK to \in {"gone", "pop"} : worker' = [worker EXCEPT ![w] = to, ![w + 1] = "start"]
    BY <1>3p DEF Preempt
  <2>2. w \in Ours /\ w + 1 \in Ours /\ w + 1 # w /\ w # Earlier
    BY <1>3p DEF Preempt
  <2> QED
    BY <1>3p, <2>1, <2>2 DEF Preempt
<1>4. ASSUME NEW w \in Workers, EarlyClear(w) \/ CleanUp(w) \/ Put(w)
      PROVE kind' = kind /\ (Undisturbed' <=> Undisturbed)
  BY <1>4 DEF EarlyClear, CleanUp, Put, Advance
<1> QED
  BY <1>1, <1>2, <1>3, <1>3p, <1>4 DEF Next, Client, Worker

\* What may happen to a key in one step.
KeyStep(k) ==
  \/ dict'[k] = dict[k] \/ dict'[k] = Absent
  \/ k = "teardown" /\ client = "teardown" /\ client' = "drain" /\ dict'[k] = First
  \/ /\ k # "teardown" /\ \E i \in DOMAIN Puts : k = Puts[i]
     /\ \E w \in Workers : worker[w] = "put" /\ k = Puts[next_key[w]] /\ dict'[k] = w
LEMMA KeySteps ==
  ASSUME TypeOK, LoopInv, Next, NEW k \in Keys PROVE KeyStep(k)
<1> USE WorkerFacts DEF TypeOK, clientVars, workerVars, Become, Quit, Go, Pop, PopFails, KeyStep
<1>1. CASE Spawn \/ SeeReady \/ HandshakeTimeout \/ BodyEnds \/ Drain \/ ClientKilled
  BY <1>1 DEF Spawn, SeeReady, HandshakeTimeout, BodyEnds, Drain, ClientKilled
<1>2. CASE Read \/ StopApp
  BY <1>2 DEF Read, StopApp
<1>3. CASE PutTeardown
  BY <1>3 DEF PutTeardown
<1>4. CASE ClearKey
  BY <1>4 DEF ClearKey
<1>5. ASSUME NEW w \in Workers,
             Start(w) \/ Load(w) \/ OwnDeadline(w) \/ SeeTeardown(w) \/ Preempt(w)
      PROVE KeyStep(k)
  BY <1>5 DEF Start, Load, OwnDeadline, SeeTeardown, Preempt
<1>6. ASSUME NEW w \in Workers, EarlyClear(w) \/ CleanUp(w) PROVE KeyStep(k)
  BY <1>6 DEF EarlyClear, CleanUp
<1>7. ASSUME NEW w \in Workers, Put(w) PROVE KeyStep(k)
  <2>1. Puts[next_key[w]] # "teardown" /\ next_key[w] \in DOMAIN Puts
    BY <1>7, ListFacts DEF LoopInv, Put
  <2>2. dict'[k] = dict[k] \/ (k = Puts[next_key[w]] /\ dict'[k] = w)
    BY <1>7 DEF Put
  <2> QED
    BY <1>7, <2>1, <2>2 DEF Put
<1> QED
  BY <1>1, <1>2, <1>3, <1>4, <1>5, <1>6, <1>7 DEF Next, Client, Worker

\* Nobody puts a key of an earlier run back.
LEMMA NotRestored ==
  ASSUME TypeOK, LoopInv, Next, Undisturbed, NEW k \in Keys, dict[k] # Earlier
  PROVE  dict'[k] # Earlier
  BY KeySteps, WorkerFacts DEF KeyStep, Undisturbed

LEMMA LoopKept == TypeOK /\ LoopInv /\ [Next]_vars => LoopInv'
<1> SUFFICES ASSUME TypeOK, LoopInv, [Next]_vars PROVE LoopInv'
  OBVIOUS
<1>0. CASE UNCHANGED vars
  BY <1>0 DEF LoopInv, vars, clientVars, workerVars, Pops, Puts, Reads
<1> SUFFICES ASSUME Next PROVE LoopInv'
  BY <1>0
<1>l. /\ Pops' = Pops /\ Puts' = Puts /\ Reads' = Reads
      /\ DOMAIN Pops = 1 .. Len(Pops) /\ DOMAIN Puts = 1 .. Len(Puts)
      /\ DOMAIN Reads = 1 .. Len(Reads)
      /\ Len(Pops) \in Nat \ {0} /\ Len(Puts) \in Nat \ {0} /\ Len(Reads) \in Nat \ {0}
  BY UndisturbedStays, ListFacts DEF IsList, Pops, Puts, Reads
<1> USE <1>l, WorkerFacts DEF TypeOK, clientVars, workerVars, Become, Quit, Go, LoopInv
<1>1. CASE Spawn
  BY <1>1 DEF Spawn
<1>2. CASE ClearKey
  BY <1>2 DEF ClearKey
<1>3. CASE SeeReady \/ HandshakeTimeout \/ BodyEnds \/ Drain \/ ClientKilled
  BY <1>3 DEF SeeReady, HandshakeTimeout, BodyEnds, Drain, ClientKilled
<1>4. CASE Read
  BY <1>4 DEF Read
<1>5. CASE PutTeardown \/ StopApp
  BY <1>5 DEF PutTeardown, StopApp
<1>6. ASSUME NEW w \in Workers, Start(w) \/ Load(w) \/ OwnDeadline(w) \/ SeeTeardown(w)
      PROVE LoopInv'
  <2>1. PICK to \in {"clear", "load", "put", "gone", "pop"} : worker' = [worker EXCEPT ![w] = to]
    BY <1>6 DEF Start, Load, OwnDeadline, SeeTeardown
  <2>2. next_key' = [next_key EXCEPT ![w] = 1] /\ UNCHANGED <<client, step>>
    BY <1>6 DEF Start, Load, OwnDeadline, SeeTeardown
  <2> QED
    BY <2>1, <2>2
<1>6p. ASSUME NEW w \in Workers, Preempt(w) PROVE LoopInv'
  <2>1. PICK to \in {"gone", "pop"} : worker' = [worker EXCEPT ![w] = to, ![w + 1] = "start"]
    BY <1>6p DEF Preempt
  <2>2. w \in Ours /\ w + 1 \in Ours /\ w + 1 # w /\ w # Earlier
    BY <1>6p DEF Preempt
  <2> QED
    BY <1>6p, <2>1, <2>2 DEF Preempt
<1>7. ASSUME NEW w \in Workers, EarlyClear(w) \/ CleanUp(w) PROVE LoopInv'
  <2>1. CASE EarlyClear(w)
    BY <2>1 DEF EarlyClear, Advance
  <2>2. CASE CleanUp(w)
    BY <2>2 DEF CleanUp, Advance
  <2> QED
    BY <1>7, <2>1, <2>2
<1>8. ASSUME NEW w \in Workers, Put(w) PROVE LoopInv'
  BY <1>8 DEF Put, Advance
<1> QED
  BY <1>1, <1>2, <1>3, <1>4, <1>5, <1>6, <1>6p, <1>7, <1>8 DEF Next, Client, Worker

\* What a clear has missed is not forgotten.
LEMMA MissedGrows ==
  ASSUME TypeOK, Next
  PROVE  /\ missed \subseteq missed'
         /\ \A w \in Workers : missed_early[w] \subseteq missed_early'[w]
         /\ \A w \in Workers : missed_late[w] \subseteq missed_late'[w]
<1> USE DEF TypeOK, clientVars, workerVars, missedOf
<1>1. CASE Spawn \/ SeeReady \/ HandshakeTimeout \/ BodyEnds \/ Drain \/ ClientKilled \/ Read
        \/ PutTeardown \/ StopApp
  BY <1>1 DEF Spawn, SeeReady, HandshakeTimeout, BodyEnds, Drain, ClientKilled, Read, PutTeardown,
              StopApp
<1>2. CASE ClearKey
  BY <1>2 DEF ClearKey
<1>3. ASSUME NEW v \in Workers,
             Start(v) \/ OwnDeadline(v) \/ SeeTeardown(v) \/ Load(v) \/ Put(v) \/ Preempt(v)
      PROVE UNCHANGED <<missed, missed_early, missed_late>>
  BY <1>3 DEF Start, OwnDeadline, SeeTeardown, Load, Put, Preempt
<1>4. ASSUME NEW v \in Workers, EarlyClear(v)
      PROVE  /\ UNCHANGED <<missed, missed_late>>
             /\ \A w \in Workers : missed_early[w] \subseteq missed_early'[w]
  <2>1. \/ missed_early' = missed_early
        \/ missed_early' = [missed_early EXCEPT ![v] = @ \cup {Pops[next_key[v]]}]
    BY <1>4 DEF EarlyClear
  <2>2. UNCHANGED <<missed, missed_late>>
    BY <1>4 DEF EarlyClear
  <2> QED
    BY <2>1, <2>2
<1>5. ASSUME NEW v \in Workers, CleanUp(v)
      PROVE  /\ UNCHANGED <<missed, missed_early>>
             /\ \A w \in Workers : missed_late[w] \subseteq missed_late'[w]
  <2>1. \/ missed_late' = missed_late
        \/ missed_late' = [missed_late EXCEPT ![v] = @ \cup {Pops[next_key[v]]}]
    BY <1>5 DEF CleanUp
  <2>2. UNCHANGED <<missed, missed_early>>
    BY <1>5 DEF CleanUp
  <2> QED
    BY <2>1, <2>2
<1> QED
  BY <1>1, <1>2, <1>3, <1>4, <1>5 DEF Next, Client, Worker

\* The keys a client or a real-engine worker has popped stay clear of an earlier
\* run.
LEMMA FreshKept ==
  ASSUME TypeOK, LoopInv, FreshInv, Next PROVE FreshInv'
<1> SUFFICES ASSUME Undisturbed PROVE FreshInv'
  BY UndisturbedStays DEF FreshInv
<1>l. /\ Pops' = Pops /\ kind' = kind
      /\ DOMAIN Pops = 1 .. Len(Pops) /\ Len(Pops) \in Nat \ {0}
      /\ \A i \in DOMAIN Pops : Pops[i] \in Keys
  BY UndisturbedStays, ListFacts DEF IsList, Pops
<1>a. \A i \in DOMAIN Pops : dict[Pops[i]] # Earlier => dict'[Pops[i]] # Earlier
  BY <1>l, NotRestored
<1>m. /\ missed \subseteq missed'
      /\ \A w \in Ours : missed_early[w] \subseteq missed_early'[w]
  BY MissedGrows, WorkerFacts
<1> USE <1>l, <1>a, <1>m, WorkerFacts
    DEF TypeOK, clientVars, workerVars, Become, Quit, Go, LoopInv, FreshInv, Fresh, AllFresh,
        Undisturbed
<1>1. CASE Spawn
  BY <1>1 DEF Spawn
<1>2. CASE ClearKey
  <2>1. dict'[Pops[step]] = Absent \/ Pops[step] \in missed'
    BY <1>2 DEF ClearKey, Pop
  <2>2. client' = "clear" =>
          \A i \in DOMAIN Pops : i < step' /\ Pops[i] \notin missed' => dict'[Pops[i]] # Earlier
    BY <1>2, <2>1 DEF ClearKey
  <2>3. client' = "poll" =>
          \A i \in DOMAIN Pops : Pops[i] \notin missed' => dict'[Pops[i]] # Earlier
    BY <1>2, <2>1 DEF ClearKey
  <2>4. client' \in {"clear", "poll"} /\ UNCHANGED <<worker, next_key>>
    BY <1>2 DEF ClearKey
  <2> QED
    BY <2>2, <2>3, <2>4
<1>3. CASE SeeReady \/ HandshakeTimeout \/ BodyEnds \/ Drain \/ ClientKilled
  BY <1>3 DEF SeeReady, HandshakeTimeout, BodyEnds, Drain, ClientKilled
<1>4. CASE Read
  <2>1. client' \in {"read", "yielded", "exit"} /\ UNCHANGED <<dict, worker, next_key>>
    BY <1>4 DEF Read
  <2> QED
    BY <1>4, <2>1 DEF Read
<1>5. CASE PutTeardown \/ StopApp
  BY <1>5 DEF PutTeardown, StopApp
<1>6. ASSUME NEW w \in Workers, Start(w) PROVE FreshInv'
  BY <1>6 DEF Start
<1>7. ASSUME NEW w \in Workers, Load(w) PROVE FreshInv'
  <2>1. PICK to \in {"put", "gone"} : worker' = [worker EXCEPT ![w] = to]
    BY <1>7 DEF Load
  <2>2. worker[w] = "load" /\ UNCHANGED <<client, step, dict>>
        /\ next_key' = [next_key EXCEPT ![w] = 1]
    BY <1>7 DEF Load
  <2> QED
    BY <2>1, <2>2
<1>8. ASSUME NEW w \in Workers, OwnDeadline(w) \/ SeeTeardown(w) PROVE FreshInv'
  BY <1>8 DEF OwnDeadline, SeeTeardown
<1>9. ASSUME NEW w \in Workers, Preempt(w) PROVE FreshInv'
  <2>1. PICK to \in {"gone", "pop"} : worker' = [worker EXCEPT ![w] = to, ![w + 1] = "start"]
    BY <1>9 DEF Preempt
  <2>2. w \in Ours /\ w + 1 \in Ours /\ UNCHANGED <<client, step, dict>>
        /\ next_key' = [next_key EXCEPT ![w] = 1]
    BY <1>9 DEF Preempt
  <2>3. \A v \in Ours : worker'[v] \in {"clear", "load", "put", "serve"} =>
          worker'[v] = worker[v] /\ next_key'[v] = next_key[v]
    BY <2>1, <2>2
  <2> QED
    BY <2>2, <2>3
<1>10. ASSUME NEW w \in Workers, EarlyClear(w) PROVE FreshInv'
  <2>1. dict'[Pops[next_key[w]]] = Absent \/ Pops[next_key[w]] \in missed_early'[w]
    BY <1>10 DEF EarlyClear, Pop
  <2>2. w \in Ours /\ UNCHANGED <<client, step>>
    BY <1>10 DEF EarlyClear
  <2>3. \A v \in Ours : v # w => worker'[v] = worker[v] /\ next_key'[v] = next_key[v]
    BY <1>10 DEF EarlyClear, Advance
  <2>4. kind = "m6" /\ worker'[w] = "clear" =>
          \A i \in DOMAIN Pops :
            i < next_key'[w] /\ Pops[i] \notin missed_early'[w] => dict'[Pops[i]] # Earlier
    <3> SUFFICES ASSUME kind = "m6", worker'[w] = "clear", NEW i \in DOMAIN Pops,
                        i < next_key'[w], Pops[i] \notin missed_early'[w]
                 PROVE  dict'[Pops[i]] # Earlier
      OBVIOUS
    <3>1. worker[w] = "clear" /\ next_key'[w] = next_key[w] + 1
      BY <1>10, <2>2 DEF EarlyClear, Advance
    <3>2. i < next_key[w] \/ i = next_key[w]
      BY <2>2, <3>1
    <3>3. CASE i = next_key[w]
      BY <2>1, <3>3
    <3>4. CASE i < next_key[w]
      <4>1. Pops[i] \notin missed_early[w]
        BY <2>2
      <4> QED
        BY <2>2, <3>1, <3>4, <4>1
    <3> QED
      BY <3>2, <3>3, <3>4
  <2>5. kind = "m6" /\ worker'[w] = "load" =>
          \A i \in DOMAIN Pops : Pops[i] \notin missed_early'[w] => dict'[Pops[i]] # Earlier
    BY <1>10, <2>1, <2>2 DEF EarlyClear, Advance
  <2>6. worker'[w] \in {"clear", "load"}
    BY <1>10 DEF EarlyClear, Advance
  <2> QED
    BY <2>2, <2>3, <2>4, <2>5, <2>6
<1>11. ASSUME NEW w \in Workers, CleanUp(w) PROVE FreshInv'
  <2>1. \A v \in Ours : v # w => worker'[v] = worker[v] /\ next_key'[v] = next_key[v]
    BY <1>11 DEF CleanUp, Advance
  <2>2. worker'[w] \in {"pop", "returned"} /\ UNCHANGED <<client, step>>
    BY <1>11 DEF CleanUp, Advance
  <2> QED
    BY <2>1, <2>2
<1>12. ASSUME NEW w \in Workers, Put(w) PROVE FreshInv'
  <2>1. \A v \in Ours : v # w => worker'[v] = worker[v] /\ next_key'[v] = next_key[v]
    BY <1>12 DEF Put, Advance
  <2>2. worker[w] = "put" /\ worker'[w] \in {"put", "serve", "pop"}
        /\ UNCHANGED <<client, step>>
    BY <1>12 DEF Put, Advance
  <2> QED
    BY <2>1, <2>2
<1> QED
  BY <1>1, <1>2, <1>3, <1>4, <1>5, <1>6, <1>7, <1>8, <1>9, <1>10, <1>11, <1>12
     DEF Next, Client, Worker

\* A worker that publishes has just loaded or goes on with its list.
LEMMA PutSteps ==
  ASSUME TypeOK, Next, NEW w \in Ours, worker'[w] = "put"
  PROVE  \/ worker[w] = "put" /\ next_key'[w] = next_key[w]
         \/ next_key'[w] = 1
         \/ /\ worker[w] = "put" /\ next_key'[w] = next_key[w] + 1
            /\ dict' = [dict EXCEPT ![Puts[next_key[w]]] = w]
<1> USE WorkerFacts DEF TypeOK, clientVars, workerVars, Become, Quit, Go
<1>1. CASE Spawn \/ ClearKey \/ SeeReady \/ HandshakeTimeout \/ BodyEnds \/ Drain \/ ClientKilled
        \/ Read \/ PutTeardown \/ StopApp
  BY <1>1 DEF Spawn, ClearKey, SeeReady, HandshakeTimeout, BodyEnds, Drain, ClientKilled, Read,
              PutTeardown, StopApp
<1>2. ASSUME NEW v \in Workers, Start(v) \/ OwnDeadline(v) \/ SeeTeardown(v) \/ Load(v)
      PROVE  (v = w /\ next_key'[w] = 1)
             \/ (v # w /\ worker'[w] = worker[w] /\ next_key'[w] = next_key[w])
  <2>1. CASE Start(v) \/ OwnDeadline(v) \/ SeeTeardown(v)
    BY <2>1 DEF Start, OwnDeadline, SeeTeardown
  <2>2. CASE Load(v)
    BY <2>2 DEF Load
  <2> QED
    BY <1>2, <2>1, <2>2
<1>3. ASSUME NEW v \in Workers, EarlyClear(v) \/ CleanUp(v)
      PROVE  v # w /\ worker'[w] = worker[w] /\ next_key'[w] = next_key[w]
  BY <1>3 DEF EarlyClear, CleanUp, Advance
<1>4. ASSUME NEW v \in Workers, Put(v), v # w
      PROVE  worker'[w] = worker[w] /\ next_key'[w] = next_key[w]
  BY <1>4 DEF Put, Advance
<1>5. CASE Put(w)
  BY <1>5 DEF Put, Advance
<1>6. ASSUME NEW v \in Workers, Preempt(v)
      PROVE  worker'[w] = worker[w] /\ next_key'[w] = next_key[w]
  <2>1. PICK to \in {"gone", "pop"} : worker' = [worker EXCEPT ![v] = to, ![v + 1] = "start"]
    BY <1>6 DEF Preempt
  <2> QED
    BY <1>6, <2>1 DEF Preempt
<1> QED
  BY <1>1, <1>2, <1>3, <1>4, <1>5, <1>6 DEF Next, Client, Worker

\* What the client reads next is of this run, or has two failed pops behind it.
LEMMA ReadOwn ==
  ASSUME TypeOK, LoopInv, FreshInv, ReadyInv, Undisturbed, client = "read",
         dict[Reads[step]] # Absent
  PROVE  dict[Reads[step]] \in Ours \/ {Reads[step], "ready"} \subseteq missed
<1>1. step \in DOMAIN Reads /\ Reads[step] \in Keys
  BY ListFacts DEF LoopInv, IsList
<1>2. SUFFICES ASSUME dict[Reads[step]] = Earlier PROVE {Reads[step], "ready"} \subseteq missed
  BY <1>1, WorkerFacts DEF TypeOK
<1>3. Reads[step] \in missed
  BY <1>1, <1>2, ListFacts DEF FreshInv, AllFresh, Within
<1>4. "ready" \in missed
  BY <1>1, <1>2, ListFacts DEF ReadyInv, AllPut, WasPut
<1> QED
  BY <1>3, <1>4

\* ready is put last, and seen by a client that has popped the old one.
LEMMA ReadyKept ==
  ASSUME TypeOK, TypeOK', LoopInv, LoopInv', FreshInv, ReadyInv, Next PROVE ReadyInv'
<1> SUFFICES ASSUME Undisturbed PROVE ReadyInv'
  BY UndisturbedStays DEF ReadyInv
<1>l. /\ Puts' = Puts /\ Reads' = Reads
      /\ DOMAIN Puts = 1 .. Len(Puts) /\ Len(Puts) \in Nat \ {0}
      /\ DOMAIN Reads = 1 .. Len(Reads) /\ Len(Reads) \in Nat \ {0}
      /\ \A i \in DOMAIN Puts : Puts[i] \in Keys
      /\ \A i \in DOMAIN Reads : Reads[i] \in Keys
      /\ "ready" \in Keys
  BY UndisturbedStays, ListFacts DEF IsList, Puts, Reads, Keys
<1>a. \A i \in DOMAIN Puts : dict[Puts[i]] # Earlier => dict'[Puts[i]] # Earlier
  BY <1>l, NotRestored
<1>b. AllPut => AllPut'
  BY <1>a, <1>l DEF AllPut
<1>m. missed \subseteq missed'
  BY MissedGrows
<1>1. ASSUME NEW w \in Ours, worker'[w] = "put"
      PROVE  \A i \in DOMAIN Puts : i < next_key'[w] => dict'[Puts[i]] # Earlier
  <2>0. w \in Workers /\ w # Earlier /\ next_key[w] \in Nat
    BY WorkerFacts DEF TypeOK
  <2>1. CASE worker[w] = "put" /\ next_key'[w] = next_key[w]
    BY <1>a, <2>1 DEF ReadyInv, PutBefore
  <2>2. CASE next_key'[w] = 1
    BY <1>l, <2>2
  <2>3. CASE /\ worker[w] = "put" /\ next_key'[w] = next_key[w] + 1
             /\ dict' = [dict EXCEPT ![Puts[next_key[w]]] = w]
    <3>1. next_key[w] \in DOMAIN Puts
      BY <2>0, <2>3 DEF LoopInv
    <3>2. dict'[Puts[next_key[w]]] # Earlier
      BY <1>l, <2>0, <2>3, <3>1 DEF TypeOK
    <3>3. \A i \in DOMAIN Puts : i < next_key[w] => dict'[Puts[i]] # Earlier
      BY <1>a, <2>3 DEF ReadyInv, PutBefore
    <3>4. \A i \in DOMAIN Puts : i < next_key'[w] => i < next_key[w] \/ i = next_key[w]
      BY <1>l, <2>0, <2>3
    <3> QED
      BY <3>2, <3>3, <3>4
  <2> QED
    BY <1>1, <2>1, <2>2, <2>3, PutSteps
<1>2. ASSUME dict'["ready"] \in Ours PROVE AllPut'
  <2>1. CASE dict["ready"] \in Ours
    BY <1>b, <2>1 DEF ReadyInv
  <2>2. CASE dict["ready"] \notin Ours
    <3>1. PICK w \in Workers :
            worker[w] = "put" /\ "ready" = Puts[next_key[w]] /\ dict'["ready"] = w
      BY <1>2, <1>l, <2>2, KeySteps, WorkerFacts DEF KeyStep
    <3>2. w \in Ours /\ next_key[w] \in DOMAIN Puts
      BY <1>2, <3>1 DEF LoopInv
    <3>3. next_key[w] = Len(Puts)
      BY <3>1, <3>2, ListFacts
    <3>4. \A i \in DOMAIN Puts : i < Len(Puts) => dict'[Puts[i]] # Earlier
      BY <1>a, <3>1, <3>2, <3>3 DEF ReadyInv, PutBefore
    <3>5. dict'[Puts[Len(Puts)]] # Earlier
      BY <1>2, <3>1, <3>3, WorkerFacts
    <3>6. \A i \in DOMAIN Puts : i < Len(Puts) \/ i = Len(Puts)
      BY <1>l
    <3> QED
      BY <1>l, <3>4, <3>5, <3>6 DEF AllPut
  <2> QED
    BY <2>1, <2>2
<1>3. ASSUME client' = "read"
      PROVE  /\ "ready" \notin missed' => AllPut'
             /\ \A i \in DOMAIN Reads :
                  i < step' => got'[Reads[i]] \in Ours \/ {Reads[i], "ready"} \subseteq missed'
  <2>1. CASE SeeReady
    <3>1. client = "poll" /\ dict["ready"] # Absent /\ step' = 1 /\ UNCHANGED <<dict, missed>>
      BY <2>1 DEF SeeReady, Become, missedOf
    <3>2. ASSUME "ready" \notin missed PROVE AllPut
      <4>1. dict["ready"] # Earlier
        BY <3>1, <3>2, ListFacts DEF FreshInv, AllFresh
      <4>2. dict["ready"] \in Ours
        BY <1>l, <3>1, <4>1, WorkerFacts DEF TypeOK
      <4> QED
        BY <4>2 DEF ReadyInv
    <3>3. \A i \in DOMAIN Reads : ~(i < step')
      BY <1>l, <3>1
    <3> QED
      BY <1>b, <1>m, <3>2, <3>3
  <2>2. CASE Read
    <3>1. /\ client = "read" /\ UNCHANGED <<dict, missed>> /\ step' = step + 1
          /\ got' = [got EXCEPT ![Reads[step]] = dict[Reads[step]]]
          /\ dict[Reads[step]] # Absent
      BY <1>3, <2>2 DEF Read, Quit, Become, Acceptable
    <3>2. step \in DOMAIN Reads /\ step \in Nat
      BY <3>1 DEF LoopInv, TypeOK
    <3>3. dict[Reads[step]] \in Ours \/ {Reads[step], "ready"} \subseteq missed
      BY <3>1, ReadOwn
    <3>4. ASSUME NEW i \in DOMAIN Reads, i < step'
          PROVE  got'[Reads[i]] \in Ours \/ {Reads[i], "ready"} \subseteq missed
      <4>1. CASE Reads[i] = Reads[step]
        BY <1>l, <3>1, <3>2, <3>3, <4>1 DEF TypeOK
      <4>2. CASE Reads[i] # Reads[step]
        <5>1. got'[Reads[i]] = got[Reads[i]] /\ i < step
          BY <1>l, <3>1, <3>2, <3>4, <4>2 DEF TypeOK
        <5> QED
          BY <3>1, <5>1 DEF ReadyInv
      <4> QED
        BY <4>1, <4>2
    <3>5. "ready" \notin missed => AllPut
      BY <3>1 DEF ReadyInv
    <3> QED
      BY <1>b, <1>m, <3>1, <3>4, <3>5
  <2>3. CASE ~SeeReady /\ ~Read
    <3>1. client = "read" /\ UNCHANGED <<step, got>>
      <4>1. CASE Spawn \/ ClearKey \/ HandshakeTimeout \/ BodyEnds \/ Drain \/ ClientKilled
              \/ PutTeardown \/ StopApp
        BY <1>3, <4>1 DEF Spawn, ClearKey, HandshakeTimeout, BodyEnds, Drain, ClientKilled,
                          PutTeardown, StopApp, Become, Quit
      <4>2. ASSUME NEW v \in Workers,
                   Start(v) \/ OwnDeadline(v) \/ SeeTeardown(v) \/ Load(v) \/ EarlyClear(v)
                     \/ CleanUp(v) \/ Put(v) \/ Preempt(v)
            PROVE UNCHANGED <<client, step, got>>
        BY <4>2 DEF Start, OwnDeadline, SeeTeardown, Load, EarlyClear, CleanUp, Put, Preempt,
                    clientVars
      <4> QED
        BY <1>3, <2>3, <4>1, <4>2 DEF Next, Client, Worker
    <3>2. "ready" \notin missed => AllPut
      BY <3>1 DEF ReadyInv
    <3>3. \A i \in DOMAIN Reads :
            i < step' => got'[Reads[i]] \in Ours \/ {Reads[i], "ready"} \subseteq missed
      BY <3>1 DEF ReadyInv
    <3> QED
      BY <1>b, <1>m, <3>2, <3>3
  <2> QED
    BY <2>1, <2>2, <2>3
<1> QED
  BY <1>1, <1>2, <1>3, <1>l DEF ReadyInv, PutBefore

\* The workers of a run come one after the other, and the client's teardown comes
\* last.
Sequential ==
  /\ client = "spawn" => \A w \in Ours : worker[w] = "off"
  /\ \A w \in Ours :
       /\ w + 1 \in Ours /\ worker[w + 1] # "off" => worker[w] \in {"pop", "returned", "gone"}
       /\ worker[w] = "off" => \A v \in Ours : v > w => worker[v] = "off"
Unstopped == \A w \in Ours : worker[w] \notin {"pop", "returned", "gone"} => stop[w] = Absent
TeardownLast ==
  /\ \A key \in Keys : (\A i \in DOMAIN Pops : Pops[i] # key) => dict[key] = Absent
  /\ dict["teardown"] \in {Absent, Earlier, First}
  /\ dict["teardown"] = First => client \in {"drain", "exit", "out"}
  /\ \A w \in Ours : stop[w] = First => client \in {"drain", "exit", "out"}
LEMMA OrderParts == OrderInv <=> Sequential /\ Unstopped /\ TeardownLast
  BY DEF OrderInv, Sequential, Unstopped, TeardownLast

\* A step that changes one worker that is not off, and not to off.
LEMMA OneWorkerKeeps ==
  ASSUME TypeOK, Sequential, client # "spawn" \/ client' = "spawn" \/ client' = "exit",
         client' # "spawn" \/ client = "spawn",
         NEW w \in Workers, worker[w] # "off",
         worker' \in [Workers -> {"off", "start", "clear", "load", "put", "serve", "pop",
                                 "returned", "gone"}],
         \A v \in Workers : v # w => worker'[v] = worker[v],
         worker'[w] # "off",
         worker[w] \in {"pop", "returned", "gone"} => worker'[w] \in {"pop", "returned", "gone"}
  PROVE  Sequential'
  BY WorkerFacts DEF Sequential, TypeOK

LEMMA SequentialKept ==
  ASSUME TypeOK, TypeOK', LoopInv, Sequential, Next PROVE Sequential'
<1> USE WorkerFacts DEF TypeOK, clientVars, workerVars, Become, Quit, Go
<1>1. CASE Spawn
  <2>1. \A v \in Ours : v # First => worker'[v] = "off" /\ v > First
    BY <1>1, HandshakeAssumption DEF Spawn, Sequential, Ours, First, HandshakeAssumption
  <2>2. worker'[First] = "start" /\ client' = "clear"
    BY <1>1 DEF Spawn
  <2>3. \A v \in Ours : v + 1 # First
    BY DEF Ours, First
  <2> QED
    BY <2>1, <2>2, <2>3 DEF Sequential
<1>2. CASE ClearKey \/ SeeReady \/ HandshakeTimeout \/ BodyEnds \/ Drain \/ ClientKilled \/ Read
        \/ PutTeardown
  <2>1. client' # "spawn" /\ UNCHANGED worker
    BY <1>2 DEF ClearKey, SeeReady, HandshakeTimeout, BodyEnds, Drain, ClientKilled, Read,
                PutTeardown
  <2> QED
    BY <2>1 DEF Sequential
<1>3. CASE StopApp
  <2>1. client' = "out" /\ \A v \in Ours : worker'[v] \in {"returned", "gone"}
    BY <1>3 DEF StopApp
  <2> QED
    BY <2>1 DEF Sequential
<1>4. ASSUME NEW w \in Workers,
             Start(w) \/ OwnDeadline(w) \/ SeeTeardown(w) \/ Load(w) \/ EarlyClear(w)
               \/ CleanUp(w) \/ Put(w)
      PROVE Sequential'
  <2>1. worker[w] # "off" /\ client' = client
    BY <1>4 DEF Start, OwnDeadline, SeeTeardown, Load, EarlyClear, CleanUp, Put
  <2>2. \E to \in {"clear", "load", "put", "serve", "pop", "returned", "gone"} :
          /\ worker' = worker \/ worker' = [worker EXCEPT ![w] = to]
          /\ worker[w] = "pop" => to \in {"pop", "returned"}
          /\ worker[w] \notin {"returned", "gone"}
    <3>1. CASE Start(w)
      BY <3>1 DEF Start
    <3>2. CASE OwnDeadline(w) \/ SeeTeardown(w)
      BY <3>2 DEF OwnDeadline, SeeTeardown
    <3>3. CASE Load(w)
      BY <3>3 DEF Load
    <3>4. CASE EarlyClear(w)
      BY <3>4 DEF EarlyClear, Advance
    <3>5. CASE CleanUp(w)
      BY <3>5 DEF CleanUp, Advance
    <3>6. CASE Put(w)
      BY <3>6 DEF Put, Advance
    <3> QED
      BY <1>4, <3>1, <3>2, <3>3, <3>4, <3>5, <3>6
  <2>3. PICK to \in {"clear", "load", "put", "serve", "pop", "returned", "gone"} :
          /\ worker' = worker \/ worker' = [worker EXCEPT ![w] = to]
          /\ worker[w] = "pop" => to \in {"pop", "returned"}
          /\ worker[w] \notin {"returned", "gone"}
    BY <2>2
  <2>4. /\ \A v \in Workers : v # w => worker'[v] = worker[v]
        /\ worker'[w] # "off"
        /\ worker[w] \in {"pop", "returned", "gone"} => worker'[w] \in {"pop", "returned", "gone"}
    BY <2>1, <2>3
  <2> QED
    BY <2>1, <2>4, OneWorkerKeeps
<1>5. ASSUME NEW w \in Workers, Preempt(w) PROVE Sequential'
  <2>1. PICK to \in {"gone", "pop"} : worker' = [worker EXCEPT ![w] = to, ![w + 1] = "start"]
    BY <1>5 DEF Preempt
  <2>2. /\ w \in Ours /\ w + 1 \in Ours /\ w \in Nat /\ worker[w + 1] = "off" /\ worker[w] # "off"
        /\ UNCHANGED client
    BY <1>5 DEF Preempt
  <2>3. \A v \in Ours : v > w + 1 => worker[v] = "off"
    BY <2>2 DEF Sequential
  <2>4. \A v \in Ours : v < w => worker[v] # "off"
    BY <2>2 DEF Sequential
  <2>5. /\ worker'[w] \in {"gone", "pop"} /\ worker'[w + 1] = "start"
        /\ \A v \in Ours : v # w /\ v # w + 1 => worker'[v] = worker[v]
    BY <2>1, <2>2
  <2>6. \A v \in Ours : v \in Nat
    BY DEF Ours
  <2> QED
    BY <2>2, <2>3, <2>4, <2>5, <2>6 DEF Sequential
<1> QED
  BY <1>1, <1>2, <1>3, <1>4, <1>5 DEF Next, Client, Worker

\* A worker that is on its way out stays on it; none goes back to off.
LEMMA WayOut ==
  ASSUME TypeOK, Sequential, Next, NEW w \in Ours
  PROVE  /\ worker[w] # "off" => worker'[w] # "off"
         /\ worker[w] \in {"pop", "returned", "gone"} =>
              /\ stop'[w] = stop[w]
              /\ \/ CleanUp(w)
                 \/ worker'[w] = worker[w] /\ next_key'[w] = next_key[w]
                 \/ worker[w] = "pop" /\ worker'[w] = "gone"
<1> USE WorkerFacts DEF TypeOK, clientVars, workerVars, Become, Quit, Go
<1> DEFINE Kept == worker'[w] = worker[w] /\ next_key'[w] = next_key[w] /\ stop'[w] = stop[w]
           Out == worker[w] \in {"pop", "returned", "gone"}
<1>1. CASE ClearKey \/ SeeReady \/ HandshakeTimeout \/ BodyEnds \/ Drain \/ ClientKilled \/ Read
        \/ PutTeardown
  <2>1. Kept
    BY <1>1 DEF ClearKey, SeeReady, HandshakeTimeout, BodyEnds, Drain, ClientKilled, Read,
                PutTeardown
  <2> QED
    BY <2>1
<1>2. CASE Spawn
  <2>1. w # First => Kept
    BY <1>2 DEF Spawn
  <2>2. w = First => worker'[w] = "start"
    BY <1>2 DEF Spawn
  <2> QED
    BY <1>2, <2>1, <2>2 DEF Spawn, Sequential
<1>3. CASE StopApp
  <2>1. stop' = stop /\ next_key' = next_key
        /\ worker'[w] = IF worker[w] # "returned" THEN "gone" ELSE "returned"
    BY <1>3 DEF StopApp
  <2> QED
    BY <2>1
<1>4. ASSUME NEW v \in Workers,
             Start(v) \/ OwnDeadline(v) \/ SeeTeardown(v) \/ Load(v) \/ EarlyClear(v) \/ Put(v)
      PROVE  (v # w => Kept) /\ (v = w => worker'[w] # "off" /\ ~Out)
  <2>1. CASE Start(v) \/ OwnDeadline(v) \/ SeeTeardown(v)
    BY <2>1 DEF Start, OwnDeadline, SeeTeardown
  <2>2. CASE Load(v)
    BY <2>2 DEF Load
  <2>3. CASE EarlyClear(v)
    BY <2>3 DEF EarlyClear, Advance
  <2>4. CASE Put(v)
    BY <2>4 DEF Put, Advance
  <2> QED
    BY <1>4, <2>1, <2>2, <2>3, <2>4
<1>5. ASSUME NEW v \in Workers, CleanUp(v)
      PROVE  (v # w => Kept) /\ (v = w => worker'[w] # "off" /\ stop'[w] = stop[w])
  BY <1>5 DEF CleanUp, Advance
<1>6. ASSUME NEW v \in Workers, Preempt(v)
      PROVE  (v # w /\ v + 1 # w => Kept)
             /\ (v = w \/ v + 1 = w => worker'[w] # "off" /\ ~Out)
  <2>1. PICK to \in {"gone", "pop"} : worker' = [worker EXCEPT ![v] = to, ![v + 1] = "start"]
    BY <1>6 DEF Preempt
  <2>2. v \in Ours /\ v + 1 \in Ours /\ v + 1 # v /\ worker[v + 1] = "off"
        /\ worker[v] \in {"start", "clear", "load", "put", "serve"}
        /\ next_key' = [next_key EXCEPT ![v] = 1] /\ stop' = stop
    BY <1>6 DEF Preempt
  <2> QED
    BY <2>1, <2>2
<1> QED
  BY <1>1, <1>2, <1>3, <1>4, <1>5, <1>6 DEF Next, Client, Worker

\* A worker is only stopped by a teardown it sees.
LEMMA StopSteps ==
  ASSUME TypeOK, Next, NEW w \in Workers
  PROVE  stop'[w] = stop[w] \/ SeeTeardown(w)
<1> USE DEF clientVars, workerVars
<1>1. CASE Spawn \/ ClearKey \/ SeeReady \/ HandshakeTimeout \/ BodyEnds \/ Drain \/ ClientKilled
        \/ Read \/ PutTeardown \/ StopApp
  BY <1>1 DEF Spawn, ClearKey, SeeReady, HandshakeTimeout, BodyEnds, Drain, ClientKilled, Read,
              PutTeardown, StopApp
<1>2. ASSUME NEW v \in Workers,
             Start(v) \/ OwnDeadline(v) \/ Load(v) \/ EarlyClear(v) \/ CleanUp(v) \/ Put(v)
               \/ Preempt(v)
      PROVE stop' = stop
  BY <1>2 DEF Start, OwnDeadline, Load, EarlyClear, CleanUp, Put, Preempt
<1>3. ASSUME NEW v \in Workers, SeeTeardown(v) PROVE v = w \/ stop'[w] = stop[w]
  BY <1>3 DEF SeeTeardown, TypeOK
<1> QED
  BY <1>1, <1>2, <1>3 DEF Next, Client, Worker

LEMMA UnstoppedKept ==
  ASSUME TypeOK, TypeOK', Sequential, Unstopped, Next PROVE Unstopped'
<1> SUFFICES ASSUME NEW w \in Ours, worker'[w] \notin {"pop", "returned", "gone"}
             PROVE  stop'[w] = Absent
  BY DEF Unstopped
<1>1. worker[w] \notin {"pop", "returned", "gone"}
  <2>1. CleanUp(w) => worker'[w] \in {"pop", "returned"}
    BY WorkerFacts DEF CleanUp, Advance, Go, TypeOK
  <2> QED
    BY <2>1, WayOut
<1>2. ~SeeTeardown(w)
  BY WorkerFacts DEF SeeTeardown, Go, TypeOK
<1> QED
  BY <1>1, <1>2, StopSteps, WorkerFacts DEF Unstopped

LEMMA TeardownLastKept ==
  ASSUME TypeOK, LoopInv, TeardownLast, Next PROVE TeardownLast'
<1>1. ASSUME NEW key \in Keys, \A i \in DOMAIN Pops' : Pops'[i] # key PROVE dict'[key] = Absent
  <2>1. Pops' = Pops
    BY UndisturbedStays DEF Pops
  <2>2. dict[key] = Absent /\ key # "teardown" /\ ~\E i \in DOMAIN Puts : key = Puts[i]
    BY <1>1, <2>1, ListFacts DEF TeardownLast, Within
  <2> QED
    BY <2>2, KeySteps DEF KeyStep
<1>2. "teardown" \in Keys
  BY DEF Keys
<1>3. dict'["teardown"] = dict["teardown"] \/ dict'["teardown"] = Absent
      \/ (client' = "drain" /\ dict'["teardown"] = First)
  BY <1>2, KeySteps DEF KeyStep
<1>4. client \in {"drain", "exit", "out"} => client' \in {"drain", "exit", "out"}
  <2>1. CASE Spawn \/ ClearKey \/ SeeReady \/ HandshakeTimeout \/ BodyEnds \/ Drain
          \/ ClientKilled \/ Read \/ PutTeardown \/ StopApp
    BY <2>1 DEF Spawn, ClearKey, SeeReady, HandshakeTimeout, BodyEnds, Drain, ClientKilled, Read,
                PutTeardown, StopApp, Become, Quit
  <2>2. ASSUME NEW v \in Workers,
               Start(v) \/ OwnDeadline(v) \/ SeeTeardown(v) \/ Load(v) \/ EarlyClear(v)
                 \/ CleanUp(v) \/ Put(v) \/ Preempt(v)
        PROVE client' = client
    BY <2>2 DEF Start, OwnDeadline, SeeTeardown, Load, EarlyClear, CleanUp, Put, Preempt, clientVars
  <2> QED
    BY <2>1, <2>2 DEF Next, Client, Worker
<1>5. ASSUME NEW w \in Ours, stop'[w] = First PROVE client' \in {"drain", "exit", "out"}
  <2>1. CASE stop'[w] = stop[w]
    BY <1>4, <1>5, <2>1 DEF TeardownLast
  <2>2. CASE SeeTeardown(w)
    BY <1>4, <1>5, <2>2, WorkerFacts DEF SeeTeardown, TeardownLast, TypeOK
  <2> QED
    BY <2>1, <2>2, StopSteps, WorkerFacts
<1>6. dict'["teardown"] \in {Absent, Earlier, First}
      /\ (dict'["teardown"] = First => client' \in {"drain", "exit", "out"})
  BY <1>3, <1>4, WorkerFacts DEF TeardownLast
<1> QED
  BY <1>1, <1>5, <1>6 DEF TeardownLast

\* Once the last worker was stopped by its client, nobody puts anything.
LEMMA NoPuts ==
  ASSUME TypeOK, LoopInv, OrderInv, Undisturbed, Next, NEW w \in Ours, TornDown(w), NEW key \in Keys
  PROVE  dict'[key] = dict[key] \/ dict'[key] = Absent
<1>1. \A v \in Ours : worker[v] # "put"
  <2> SUFFICES ASSUME NEW v \in Ours, worker[v] = "put" PROVE FALSE
    OBVIOUS
  <2>1. worker[w] \in {"pop", "returned", "gone"}
    BY WorkerFacts DEF TornDown, OrderInv
  <2>2. v < w
    <3>1. ~(v > w) /\ v # w
      BY <2>1 DEF TornDown, LastWorker
    <3> QED
      BY <3>1, WorkerFacts
  <2>3. v + 1 \in Ours /\ (v + 1 = w \/ w > v + 1)
    BY <2>2, HandshakeAssumption DEF Ours, First, HandshakeAssumption
  <2>4. worker[v + 1] # "off"
    BY <2>1, <2>3 DEF OrderInv
  <2> QED
    BY <2>3, <2>4 DEF OrderInv
<1>2. \A v \in Workers : worker[v] # "put"
  BY <1>1, WorkerFacts DEF Undisturbed
<1>3. client # "teardown"
  BY DEF TornDown, OrderInv
<1> QED
  BY <1>2, <1>3, KeySteps DEF KeyStep

LEMMA CleanKept ==
  ASSUME TypeOK, LoopInv, OrderInv, CleanInv, Next PROVE CleanInv'
<1> SUFFICES ASSUME Undisturbed, NEW w \in Ours, TornDown(w)'
             PROVE  /\ worker'[w] \in {"pop", "returned", "gone"}
                    /\ \A i \in DOMAIN Pops :
                         worker'[w] = "returned" \/ (worker'[w] = "pop" /\ i < next_key'[w]) =>
                           dict'[Pops[i]] = Absent \/ Pops[i] \in missed_late'[w]
  BY UndisturbedStays DEF CleanInv, Pops
<1> USE WorkerFacts DEF TypeOK
<1>s. Sequential
  BY OrderParts
<1>1. CASE SeeTeardown(w)
  <2>1. worker'[w] = "pop" /\ next_key'[w] = 1
    BY <1>1 DEF SeeTeardown, Go
  <2> QED
    BY <2>1, ListFacts DEF IsList
<1>2. CASE ~SeeTeardown(w)
  <2>1. stop[w] = First
    BY <1>2, StopSteps DEF TornDown
  <2>2. worker[w] \in {"pop", "returned", "gone"}
    BY <2>1 DEF OrderInv
  <2>3. TornDown(w)
    BY <2>1, <2>2, WayOut, <1>s DEF TornDown, LastWorker
  <2>4. \A i \in DOMAIN Pops : Pops[i] \in Keys
    BY ListFacts DEF IsList
  <2>5. \A i \in DOMAIN Pops :
           dict[Pops[i]] = Absent \/ Pops[i] \in missed_late[w] =>
             dict'[Pops[i]] = Absent \/ Pops[i] \in missed_late'[w]
    BY <2>3, <2>4, NoPuts, MissedGrows
  <2>6. \A i \in DOMAIN Pops :
           worker[w] = "returned" \/ (worker[w] = "pop" /\ i < next_key[w]) =>
             dict[Pops[i]] = Absent \/ Pops[i] \in missed_late[w]
    BY <2>3 DEF CleanInv
  <2>7. CASE CleanUp(w)
    <3>1. /\ dict'[Pops[next_key[w]]] = Absent \/ Pops[next_key[w]] \in missed_late'[w]
          /\ worker[w] = "pop"
      BY <2>7, <2>4 DEF CleanUp, Pop, LoopInv
    <3>2. \/ worker'[w] = "pop" /\ next_key'[w] = next_key[w] + 1
          \/ worker'[w] = "returned" /\ ~(next_key[w] < Len(Pops))
      BY <2>7 DEF CleanUp, Advance, Go
    <3>3. \A i \in DOMAIN Pops : i \in Nat /\ i <= Len(Pops)
      BY ListFacts DEF IsList
    <3>4. \A i \in DOMAIN Pops :
             i < next_key[w] \/ i = next_key[w] =>
               dict'[Pops[i]] = Absent \/ Pops[i] \in missed_late'[w]
      BY <2>5, <2>6, <3>1
    <3>5. next_key[w] \in Nat /\ Len(Pops) \in Nat
      BY ListFacts DEF IsList
    <3>6. \A i \in DOMAIN Pops :
            worker'[w] = "returned" \/ i < next_key'[w] => i < next_key[w] \/ i = next_key[w]
      BY <3>2, <3>3, <3>5
    <3> QED
      BY <3>2, <3>4, <3>6
  <2>8. CASE ~CleanUp(w)
    <3>1. \/ worker'[w] = worker[w] /\ next_key'[w] = next_key[w]
          \/ worker'[w] = "gone"
      BY <1>s, <2>2, <2>8, WayOut
    <3> QED
      BY <2>2, <2>5, <2>6, <3>1
  <2> QED
    BY <2>7, <2>8
<1> QED
  BY <1>1, <1>2

\* Nothing but the failed pops is left for the next run.
LEMMA CleanExits ==
  ASSUME TypeOK, OrderInv, CleanInv PROVE CleanExit
<1> SUFFICES ASSUME Undisturbed, NEW w \in Ours, LastWorker(w), worker[w] = "returned",
                    stop[w] = First, NEW key \in Keys \ missed_late[w]
             PROVE  dict[key] = Absent
  BY DEF CleanExit
<1>1. \A i \in DOMAIN Pops : dict[Pops[i]] = Absent \/ Pops[i] \in missed_late[w]
  BY DEF CleanInv, TornDown
<1> QED
  BY <1>1 DEF OrderInv

\* What the client yields with was read after its clear.
LEMMA EndpointsKept ==
  ASSUME TypeOK, LoopInv, FreshInv, ReadyInv, OwnEndpoints, Next PROVE OwnEndpoints'
<1> SUFFICES ASSUME Undisturbed, Yielded', NEW i \in DOMAIN Reads
             PROVE  got'[Reads[i]] \in Ours \/ {Reads[i], "ready"} \subseteq missed
  <2>1. missed \subseteq missed' /\ Reads' = Reads
    BY MissedGrows, UndisturbedStays DEF Reads
  <2> QED
    BY <2>1, UndisturbedStays DEF OwnEndpoints
<1>l. /\ DOMAIN Reads = 1 .. Len(Reads) /\ Len(Reads) \in Nat
      /\ \A j \in DOMAIN Reads : Reads[j] \in Keys
  BY ListFacts DEF IsList
<1>1. CASE Read
  <2>1. client = "read" /\ step \in DOMAIN Reads
    BY <1>1 DEF Read, LoopInv
  <2>2. /\ got' = [got EXCEPT ![Reads[step]] = dict[Reads[step]]]
        /\ dict[Reads[step]] # Absent /\ ~(step < Len(Reads))
    BY <1>1, <2>1 DEF Read, Acceptable, Yielded, Become, Quit
  <2>3. dict[Reads[step]] \in Ours \/ {Reads[step], "ready"} \subseteq missed
    BY <2>1, <2>2, ReadOwn
  <2>4. i = step \/ i < step
    BY <1>l, <2>1, <2>2
  <2>5. ASSUME Reads[i] # Reads[step]
        PROVE  got'[Reads[i]] \in Ours \/ {Reads[i], "ready"} \subseteq missed
    <3>1. got'[Reads[i]] = got[Reads[i]] /\ i < step
      BY <1>l, <2>1, <2>2, <2>4, <2>5 DEF TypeOK
    <3> QED
      BY <2>1, <3>1 DEF ReadyInv
  <2> QED
    BY <1>l, <2>1, <2>2, <2>3, <2>5 DEF TypeOK
<1>2. CASE ~Read
  <2>1. Yielded /\ got' = got
    <3>1. CASE Spawn \/ ClearKey \/ SeeReady \/ HandshakeTimeout \/ BodyEnds \/ Drain \/ ClientKilled
            \/ PutTeardown \/ StopApp
      BY <3>1 DEF Spawn, ClearKey, SeeReady, HandshakeTimeout, BodyEnds, Drain, ClientKilled,
                  PutTeardown, StopApp, Become, Quit, Yielded
    <3>2. ASSUME NEW v \in Workers,
                 Start(v) \/ OwnDeadline(v) \/ SeeTeardown(v) \/ Load(v) \/ EarlyClear(v)
                   \/ CleanUp(v) \/ Put(v) \/ Preempt(v)
          PROVE client' = client /\ got' = got
      BY <3>2 DEF Start, OwnDeadline, SeeTeardown, Load, EarlyClear, CleanUp, Put, Preempt, clientVars
    <3> QED
      BY <1>2, <3>1, <3>2 DEF Next, Client, Worker, Yielded
  <2> QED
    BY <2>1 DEF OwnEndpoints
<1> QED
  BY <1>1, <1>2

\* A real-engine worker has cleared the teardown of an earlier run before it
\* looks.
LEMMA StopKept ==
  ASSUME TypeOK, LoopInv, FreshInv, NoStaleStop, Next PROVE NoStaleStop'
<1> SUFFICES ASSUME Undisturbed, kind = "m6", NEW w \in Ours
             PROVE  stop'[w] # Earlier \/ "teardown" \in missed_early[w]
  <2>1. \A w \in Ours : missed_early[w] \subseteq missed_early'[w]
    BY MissedGrows, WorkerFacts
  <2> QED
    BY <2>1, UndisturbedStays DEF NoStaleStop
<1>1. CASE SeeTeardown(w)
  <2>1. AllFresh(missed_early[w])
    BY <1>1 DEF SeeTeardown, FreshInv
  <2>2. stop'[w] = dict["teardown"]
    BY <1>1, WorkerFacts DEF SeeTeardown, TypeOK
  <2> QED
    BY <2>1, <2>2, ListFacts DEF AllFresh
<1> QED
  BY <1>1, StopSteps, WorkerFacts DEF NoStaleStop

LEMMA HandshakeInit == Init => HandshakeInv
<1> SUFFICES ASSUME Init PROVE HandshakeInv
  OBVIOUS
<1> USE WorkerFacts DEF Init
<1>0. dict \in [Keys -> {Absent, Earlier}]
  OBVIOUS
<1>1. TypeOK
  BY <1>0 DEF TypeOK
<1>2. \A w \in Ours : worker[w] = "off" /\ stop[w] = Absent
  OBVIOUS
<1>3. LoopInv
  BY DEF LoopInv
<1>4. FreshInv /\ ReadyInv
  <2>1. "ready" \in Keys
    BY DEF Keys
  <2>2. dict["ready"] \in {Absent, Earlier}
    BY <1>0, <2>1
  <2>3. dict["ready"] \notin Ours
    BY <2>2 DEF Ours, First, Earlier, Absent
  <2> QED
    BY <1>2, <2>3 DEF FreshInv, ReadyInv
<1>5. OrderInv
  <2>1. PICK keys \in SUBSET Keys :
          /\ Leftover(keys \ {"teardown"})
          /\ dict = [key \in Keys |-> IF key \in keys THEN Earlier ELSE Absent]
    OBVIOUS
  <2>2. ASSUME NEW key \in Keys, \A i \in DOMAIN Pops : Pops[i] # key PROVE key \notin keys
    <3>1. key # "teardown" /\ \A i \in DOMAIN Puts : Puts[i] # key
      BY <2>2, ListFacts DEF Within
    <3>2. \A i, j \in DOMAIN Puts : i .. j \subseteq DOMAIN Puts
      BY ListFacts DEF IsList
    <3> QED
      BY <2>1, <3>1, <3>2 DEF Leftover
  <2>3. TeardownLast
    BY <1>2, <2>1, <2>2 DEF TeardownLast, Keys
  <2>4. Sequential /\ Unstopped
    BY <1>2 DEF Sequential, Unstopped
  <2> QED
    BY <2>3, <2>4, OrderParts
<1>6. CleanInv /\ OwnEndpoints /\ NoStaleStop
  BY <1>2 DEF CleanInv, TornDown, OwnEndpoints, Yielded, NoStaleStop
<1> QED
  BY <1>1, <1>3, <1>4, <1>5, <1>6 DEF HandshakeInv

LEMMA HandshakeStep == HandshakeInv /\ [Next]_vars => HandshakeInv'
<1> SUFFICES ASSUME HandshakeInv, [Next]_vars PROVE HandshakeInv'
  OBVIOUS
<1> USE DEF HandshakeInv
<1>1. TypeOK'
  BY TypeKept
<1>2. LoopInv'
  BY LoopKept
<1>3. CASE Next
  <2>1. FreshInv' /\ ReadyInv'
    BY <1>1, <1>2, <1>3, FreshKept, ReadyKept
  <2>2. OrderInv'
    BY <1>1, <1>3, OrderParts, SequentialKept, UnstoppedKept, TeardownLastKept
       DEF OrderInv, Sequential, Unstopped, TeardownLast
  <2>3. CleanInv'
    BY <1>3, CleanKept
  <2>4. OwnEndpoints' /\ NoStaleStop'
    BY <1>3, EndpointsKept, StopKept
  <2> QED
    BY <1>1, <1>2, <2>1, <2>2, <2>3, <2>4
<1>4. CASE UNCHANGED vars
  <2>1. UNCHANGED <<kind, dict, client, step, got, missed, worker, next_key, stop, missed_early,
                    missed_late, Pops, Puts, Reads>>
    BY <1>4 DEF vars, clientVars, workerVars, missedOf, Pops, Puts, Reads
  <2>2. FreshInv'
    BY <2>1 DEF FreshInv, Fresh, AllFresh, Undisturbed
  <2>3. ReadyInv'
    BY <2>1 DEF ReadyInv, PutBefore, AllPut, Undisturbed
  <2>4. OrderInv'
    BY <2>1 DEF OrderInv
  <2>5. CleanInv'
    BY <2>1 DEF CleanInv, TornDown, LastWorker, Undisturbed
  <2>6. OwnEndpoints' /\ NoStaleStop'
    BY <2>1 DEF OwnEndpoints, NoStaleStop, Yielded, Undisturbed
  <2> QED
    BY <1>1, <1>2, <2>2, <2>3, <2>4, <2>5, <2>6
<1> QED
  BY <1>3, <1>4

\* The inductive invariant of the handshake, whatever an earlier run has left and
\* whichever pops fail.
THEOREM HandshakeInvariant == Spec => []HandshakeInv
<1> QED
  BY HandshakeInit, HandshakeStep, PTL DEF Spec

\* provide_*endpoint yields endpoints of its own workers only, unless its pops of
\* an old endpoint and of the old ready both failed.
THEOREM EndpointsAreOwn == Spec => []OwnEndpoints
<1>1. HandshakeInv => OwnEndpoints
  BY DEF HandshakeInv
<1> QED
  BY <1>1, HandshakeInvariant, PTL

\* The early clear of serve_bench_real_engine keeps an old teardown away from it
\* as long as its pop of teardown succeeds.
THEOREM StopsAreOwn == Spec => []NoStaleStop
<1>1. HandshakeInv => NoStaleStop
  BY DEF HandshakeInv
<1> QED
  BY <1>1, HandshakeInvariant, PTL

\* A run that is torn down in order leaves in the Dict only what its last worker
\* failed to pop.
THEOREM ExitsAreClean == Spec => []CleanExit
<1>1. HandshakeInv => CleanExit
  BY CleanExits DEF HandshakeInv
<1> QED
  BY <1>1, HandshakeInvariant, PTL
=============================================================================
