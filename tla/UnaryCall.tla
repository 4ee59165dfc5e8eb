------------------------------ MODULE UnaryCall ------------------------------
(***************************************************************************)
(* Unary requests: /v1/chat/completions and /v1/completions without        *)
(* stream, and /healthz, through the proxy (chat_router.py,                *)
(* completions_router.py, main.py, grpc_client.py); the same calls through *)
(* the client library (client.py, chat.py, completions.py); and a bare     *)
(* stub.  They meet in one frontend process (main.py), whose servicers     *)
(* drain the engine's generator and answer with its last output.           *)
(*                                                                         *)
(* A text is abstracted to the number of outputs it accumulates.           *)
(***************************************************************************)
EXTENDS Naturals

CONSTANTS
  Calls,      \* the requests
  Routes,     \* the ways each of them may take
  MaxOutputs  \* bound on the outputs the engine yields for a request

Rest == {"chat", "completions"}
Library == {"chat_client", "completions_client"}

ASSUME UnaryAssumption ==
  /\ Routes \in [Calls -> SUBSET (Rest \cup Library \cup {"healthz", "stub"})]
  /\ MaxOutputs \in Nat

VARIABLES
  route,     \* of each call
  input,     \* what the caller sent
  limited,   \* the caller passed a timeout of its own (client library)
  caller,    \* "start", "waiting" or "ended"
  answer,    \* HTTP status, or gRPC code or exception for the library
  rpc,       \* the server's side: "none", "active", "cancelled", or its status
  engine_input, \* what the engine was asked with
  engine,    \* the generator: "off", "running", "finished", "raised", "stopped"
  made,      \* outputs yielded so far
  reply,     \* outputs the text of the response accumulates
  trailers,  \* set_trailing_metadata was called
  frontend,  \* "down", "loaded" (engine constructed) or "listening"
  channel    \* the channel of VllmGrpcClient is open

request == <<route, input, limited>>
server == <<rpc, engine_input, engine, made, reply, trailers>>
vars == <<request, caller, answer, server, frontend, channel>>

\* "good": messages or a prompt.  "malformed": no or two inputs, no messages,
\* no tokens asked for.  "garbled": not base64.  "params": sampling parameters
\* vLLM refuses.  Prompt embeddings are a "tensor", a tensor of another type or
\* rank ("misshapen"), an archive of something else ("no_tensor") or bytes that
\* are no archive ("opaque").
InputsOf(r) ==
  CASE r = "healthz" -> {"good"}
    [] r = "chat" -> {"good", "malformed", "params"}
    [] r = "chat_client" -> {"good", "params"}
    [] r = "completions_client" -> {"good", "malformed", "params", "tensor", "misshapen"}
    [] r = "completions" -> {"good", "malformed", "params", "tensor", "misshapen",
                             "no_tensor", "opaque", "garbled"}
    [] r = "stub" -> {"good", "malformed"}
AnyRoute == UNION {Routes[c] : c \in Calls}
Inputs == UNION {InputsOf(r) : r \in AnyRoute}

Statuses == {"OK", "INVALID_ARGUMENT", "UNKNOWN", "UNAVAILABLE"}
Codes == Statuses \cup {"DEADLINE_EXCEEDED"}

----------------------------------------------------------------------------
(* The caller's side: router, client library or stub.                      *)

\* Mutant: a timeout of the frontend is reported like an outage.
HttpStatusNoTimeout(code) ==
  CASE code = "OK" -> "200"
    [] code \in {"UNAVAILABLE", "DEADLINE_EXCEEDED"} -> "502"
    [] code = "INVALID_ARGUMENT" -> "422"
    [] OTHER -> "500"
HttpStatus(code) ==
  CASE code = "OK" -> "200"
    [] code = "UNAVAILABLE" -> "502"
    [] code = "DEADLINE_EXCEEDED" -> "504"
    [] code = "INVALID_ARGUMENT" -> "422"
    [] OTHER -> "500"

\* healthz answers 503 whatever the error; the library raises what it gets.
AnswerOf(r, code) ==
  IF r \in Rest THEN HttpStatus(code)
  ELSE IF r = "healthz" THEN IF code = "OK" THEN "200" ELSE "503"
  ELSE code

\* Mutant: complete calls the stub without a timeout.
HasDeadlineNone(c) == route[c] = "healthz" \/ limited[c]
\* The proxy passes _CHAT_DEADLINE_SECONDS or _HEALTH_DEADLINE_SECONDS; the
\* library passes the argument of the call, None unless the caller gave one.
HasDeadline(c) == route[c] \in Rest \cup {"healthz"} \/ limited[c]

End(c, a) == caller' = [caller EXCEPT ![c] = "ended"] /\ answer' = [answer EXCEPT ![c] = a]

\* Refused before any call: by the request model, by the conversion to proto
\* (b64decode raises outside the router's try), by _build_request, or by the
\* property of a client that is not inside its context manager.
Refusal(c) ==
  CASE route[c] \in Rest /\ input[c] = "malformed" -> "422"
    [] input[c] = "garbled" -> "500"
    [] route[c] \in Library /\ ~channel -> "RuntimeError"
    [] route[c] = "completions_client" /\ input[c] = "malformed" -> "ValueError"
    [] OTHER -> "none"

Refuse(c) ==
  /\ caller[c] = "start" /\ Refusal(c) # "none"
  /\ End(c, Refusal(c))
  /\ UNCHANGED <<request, server, frontend, channel>>

Call(c) ==
  /\ caller[c] = "start" /\ Refusal(c) = "none"
  /\ caller' = [caller EXCEPT ![c] = "waiting"]
  /\ UNCHANGED <<request, answer, server, frontend, channel>>

\* The status of the call arrives.
Answer(c) ==
  /\ caller[c] = "waiting" /\ rpc[c] \in Statuses
  /\ End(c, AnswerOf(route[c], rpc[c]))
  /\ UNCHANGED <<request, server, frontend, channel>>

\* The deadline passes first, whatever the server is doing or has done.
DeadlinePasses(c) ==
  /\ caller[c] = "waiting" /\ HasDeadline(c)
  /\ End(c, AnswerOf(route[c], "DEADLINE_EXCEEDED"))
  /\ UNCHANGED <<request, server, frontend, channel>>

\* The task that awaits a call of the library is cancelled.  The proxy does
\* not notice that the HTTP client of a unary request has gone.
GiveUp(c) ==
  /\ caller[c] = "waiting" /\ route[c] \in Library
  /\ End(c, "CancelledError")
  /\ UNCHANGED <<request, server, frontend, channel>>

\* Mutant: the channel is dropped without being closed.
LeaveUnclosed ==
  /\ channel /\ channel' = FALSE
  /\ UNCHANGED <<request, caller, answer, server, frontend>>

\* __aexit__ closes the channel without grace: calls still waiting on it are
\* cancelled.
Leave ==
  LET ours == {c \in Calls : route[c] \in Library /\ caller[c] = "waiting"} IN
  /\ channel /\ channel' = FALSE
  /\ caller' = [c \in Calls |-> IF c \in ours THEN "ended" ELSE caller[c]]
  /\ answer' = [c \in Calls |-> IF c \in ours THEN "CancelledError" ELSE answer[c]]
  /\ UNCHANGED <<request, server, frontend>>

Enter ==
  /\ ~channel /\ channel' = TRUE
  /\ UNCHANGED <<request, caller, answer, server, frontend>>

----------------------------------------------------------------------------
(* The frontend's side.                                                    *)

Status(c, s) == rpc' = [rpc EXCEPT ![c] = s]
Engine(c, s) == engine' = [engine EXCEPT ![c] = s]

\* No frontend listens: the call fails at once.
Unreachable(c) ==
  /\ caller[c] = "waiting" /\ rpc[c] = "none" /\ frontend # "listening"
  /\ Status(c, "UNAVAILABLE")
  /\ UNCHANGED <<request, caller, answer, engine_input, engine, made, reply, trailers, frontend, channel>>

\* decode_embeds: only its ValueErrors are told apart from a result; what
\* loads and is no tensor has no dtype.
Decoded(i) ==
  CASE i = "tensor" -> "tensor" [] i = "no_tensor" -> "AttributeError" [] OTHER -> "ValueError"

\* The prompt, or what _resolve_prompt_embeds_input makes of the bytes: a
\* tensor the engine can take, otherwise a digest as a text prompt.
EngineInput(i) ==
  IF i \in {"good", "params"} THEN "prompt"
  ELSE IF i = "opaque" \/ Decoded(i) = "ValueError" THEN "digest"
  ELSE Decoded(i)

\* What the handler does before it calls the engine: Ping answers; a request
\* without an input is refused; SamplingParams and decode_embeds may raise.
Outset(c) ==
  CASE route[c] = "healthz" -> "OK"
    [] input[c] = "malformed" -> "INVALID_ARGUMENT"
    [] input[c] = "params" \/ EngineInput(input[c]) = "AttributeError" -> "UNKNOWN"
    [] OTHER -> "active"

Handle(c) ==
  /\ caller[c] = "waiting" /\ rpc[c] = "none" /\ frontend = "listening"
  /\ Status(c, Outset(c))
  /\ IF Outset(c) = "active"
       THEN Engine(c, "running") /\ engine_input' = [engine_input EXCEPT ![c] = EngineInput(input[c])]
       ELSE UNCHANGED <<engine, engine_input>>
  /\ UNCHANGED <<request, caller, answer, made, reply, trailers, frontend, channel>>

\* The engine yields its next cumulative output, or its generator ends.
Output(c) ==
  /\ engine[c] = "running" /\ made[c] < MaxOutputs
  /\ made' = [made EXCEPT ![c] = @ + 1]
  /\ UNCHANGED <<request, caller, answer, rpc, engine_input, engine, reply, trailers, frontend, channel>>
EngineEnds(c, how) ==
  /\ engine[c] = "running" /\ Engine(c, how)
  /\ UNCHANGED <<request, caller, answer, rpc, engine_input, made, reply, trailers, frontend, channel>>

\* Mutant: an engine that raises ends the loop like one that has finished.
ReturnAnyEnd(c) ==
  /\ rpc[c] = "active" /\ engine[c] \in {"finished", "raised"}
  /\ trailers' = [trailers EXCEPT ![c] = TRUE]
  /\ reply' = [reply EXCEPT ![c] = made[c]]
  /\ Status(c, IF made[c] = 0 THEN "UNKNOWN" ELSE "OK")
  /\ UNCHANGED <<request, caller, answer, engine_input, engine, made, frontend, channel>>

\* The loop is over: trailing metadata, then the assertion that there was an
\* output, then the response made from the last one.
Return(c) ==
  /\ rpc[c] = "active" /\ engine[c] = "finished"
  /\ trailers' = [trailers EXCEPT ![c] = TRUE]
  /\ reply' = [reply EXCEPT ![c] = made[c]]
  /\ Status(c, IF made[c] = 0 THEN "UNKNOWN" ELSE "OK")
  /\ UNCHANGED <<request, caller, answer, engine_input, engine, made, frontend, channel>>

\* The engine's exception leaves the handler.
HandlerRaises(c) ==
  /\ rpc[c] = "active" /\ engine[c] = "raised"
  /\ Status(c, "UNKNOWN")
  /\ UNCHANGED <<request, caller, answer, engine_input, engine, made, reply, trailers, frontend, channel>>

\* The server learns that the caller has gone and cancels the handler.
ServerLearns(c) ==
  /\ caller[c] = "ended" /\ rpc[c] = "active"
  /\ Status(c, "cancelled")
  /\ UNCHANGED <<request, caller, answer, engine_input, engine, made, reply, trailers, frontend, channel>>

\* The cancellation surfaces in the "async for" over the generator.
AbortGeneration(c) ==
  /\ rpc[c] = "cancelled" /\ engine[c] = "running"
  /\ Engine(c, "stopped")
  /\ UNCHANGED <<request, caller, answer, rpc, engine_input, made, reply, trailers, frontend, channel>>

----------------------------------------------------------------------------
(* The frontend process.                                                   *)

\* serve: the engine first, which takes minutes, then the server.
LoadEngine ==
  /\ frontend = "down" /\ frontend' = "loaded"
  /\ UNCHANGED <<request, caller, answer, server, channel>>
Listen ==
  /\ frontend = "loaded" /\ frontend' = "listening"
  /\ UNCHANGED <<request, caller, answer, server, channel>>

\* The process dies with its engine.  Callers see UNAVAILABLE; an answer on its
\* way may be lost with it.
Crash ==
  /\ frontend # "down" /\ frontend' = "down"
  /\ \E lost \in SUBSET {c \in Calls : caller[c] = "waiting" /\ rpc[c] \in Statuses} :
       rpc' = [c \in Calls |-> IF c \in lost \/ rpc[c] = "active" THEN "UNAVAILABLE" ELSE rpc[c]]
  /\ engine' = [c \in Calls |-> IF engine[c] = "running" THEN "stopped" ELSE engine[c]]
  /\ UNCHANGED <<request, caller, answer, engine_input, made, reply, trailers, channel>>

----------------------------------------------------------------------------
Init ==
  /\ route \in [Calls -> AnyRoute]
  /\ \A c \in Calls : route[c] \in Routes[c]
  /\ input \in [Calls -> Inputs] /\ \A c \in Calls : input[c] \in InputsOf(route[c])
  /\ limited \in [Calls -> BOOLEAN] /\ \A c \in Calls : limited[c] => route[c] \in Library
  /\ caller = [c \in Calls |-> "start"] /\ answer = [c \in Calls |-> "none"]
  /\ rpc = [c \in Calls |-> "none"] /\ engine = [c \in Calls |-> "off"]
  /\ engine_input = [c \in Calls |-> "none"]
  /\ made = [c \in Calls |-> 0] /\ reply = [c \in Calls |-> 0]
  /\ trailers = [c \in Calls |-> FALSE]
  /\ frontend = "down" /\ channel = FALSE

Caller(c) == Refuse(c) \/ Call(c) \/ Answer(c)
Servicer(c) ==
  \/ Unreachable(c) \/ Handle(c) \/ Return(c) \/ HandlerRaises(c)
  \/ ServerLearns(c) \/ AbortGeneration(c)
EngineStep(c) == Output(c) \/ EngineEnds(c, "finished") \/ EngineEnds(c, "raised")

Next ==
  \/ \E c \in Calls :
       Caller(c) \/ Servicer(c) \/ EngineStep(c) \/ DeadlinePasses(c) \/ GiveUp(c)
  \/ Enter \/ Leave \/ LoadEngine \/ Listen \/ Crash

\* The event loops run what is ready and a deadline passes.  The engine may
\* stall and the frontend may stay down.
Spec ==
  /\ Init /\ [][Next]_vars
  /\ \A c \in Calls :
       WF_vars(Caller(c)) /\ WF_vars(Servicer(c)) /\ WF_vars(DeadlinePasses(c))

----------------------------------------------------------------------------
(***************************************************************************)
(* Properties.                                                             *)
(***************************************************************************)

Answers ==
  {"none", "200", "422", "500", "502", "503", "504", "RuntimeError", "ValueError",
   "CancelledError"} \cup Codes

\* The variables have the types of the code.
TypeOK ==
  /\ route \in [Calls -> AnyRoute] /\ input \in [Calls -> Inputs]
  /\ limited \in [Calls -> BOOLEAN]
  /\ caller \in [Calls -> {"start", "waiting", "ended"}] /\ answer \in [Calls -> Answers]
  /\ rpc \in [Calls -> {"none", "active", "cancelled"} \cup Statuses]
  /\ engine \in [Calls -> {"off", "running", "finished", "raised", "stopped"}]
  /\ engine_input \in [Calls -> {"none", "prompt", "tensor", "digest"}]
  /\ made \in [Calls -> 0 .. MaxOutputs] /\ reply \in [Calls -> 0 .. MaxOutputs]
  /\ trailers \in [Calls -> BOOLEAN]
  /\ frontend \in {"down", "loaded", "listening"} /\ channel \in BOOLEAN

\* A success carries the whole text: the engine was asked with the prompt or
\* the tensor it was sent and had finished, the response was made from its last
\* output, and the timings the bench reads had been set.
WholeText(c) ==
  /\ engine[c] = "finished" /\ reply[c] = made[c] /\ made[c] > 0 /\ trailers[c]
  /\ input[c] = "tensor" <=> engine_input[c] = "tensor"
Success(c) == answer[c] \in {"200", "OK"} /\ route[c] # "healthz" => WholeText(c)
SuccessIsWhole == \A c \in Calls : Success(c)

\* Every failure has its own cause, whichever of the deadline, the engine, a
\* crash of the frontend and the closing of the channel comes first: 422 means
\* the engine was not asked, 500 that something broke and never an outage or a
\* slow engine, 502 that the frontend went away, 504 that there was a deadline.
Broken(c) ==
  \/ input[c] \in {"garbled", "params", "no_tensor"} \/ engine[c] = "raised"
  \/ engine[c] = "finished" /\ made[c] = 0
Failure(c) ==
  /\ answer[c] \in {"422", "INVALID_ARGUMENT", "ValueError", "RuntimeError"} =>
       engine[c] = "off" /\ rpc[c] \in {"none", "INVALID_ARGUMENT"}
  /\ answer[c] \in {"500", "UNKNOWN"} => Broken(c)
  /\ answer[c] \in {"502", "UNAVAILABLE"} => rpc[c] = "UNAVAILABLE"
  /\ answer[c] \in {"504", "DEADLINE_EXCEEDED"} => HasDeadline(c)
FailureHasCause == \A c \in Calls : Failure(c)

\* No generation runs outside a loaded frontend, and no call of the library
\* waits on a channel that has been closed.
Contained(c) ==
  /\ engine[c] = "running" => frontend = "listening"
  /\ caller[c] = "waiting" /\ route[c] \in Library => channel
NothingOutlives == \A c \in Calls : Contained(c)

\* The inductive invariant: how far the two sides of a call are.
Progress(c) ==
  /\ input[c] \in InputsOf(route[c])
  /\ caller[c] # "ended" => answer[c] = "none"
  /\ caller[c] = "start" => rpc[c] = "none"
  /\ rpc[c] = "none" => engine[c] = "off"
  /\ engine[c] # "off" => engine_input[c] = EngineInput(input[c])
  /\ rpc[c] = "active" => engine[c] \in {"running", "finished", "raised"}
  /\ rpc[c] \in {"active", "cancelled"} => route[c] # "healthz"
  /\ engine[c] = "running" => rpc[c] \in {"active", "cancelled"}
  /\ engine[c] = "off" => made[c] = 0
  /\ rpc[c] = "OK" => route[c] = "healthz" \/ WholeText(c)
  /\ rpc[c] = "UNKNOWN" => Broken(c)
  /\ rpc[c] = "INVALID_ARGUMENT" => engine[c] = "off"
UnaryInv ==
  /\ TypeOK /\ SuccessIsWhole /\ FailureHasCause /\ NothingOutlives
  /\ \A c \in Calls : Progress(c)

\* How a request for a text has ended for its caller, and how much of it the
\* caller was handed.
Refusals == {"422", "INVALID_ARGUMENT", "ValueError", "RuntimeError"}
Ended(a) ==
  IF a \in {"200", "OK"} THEN "text" ELSE IF a \in Refusals THEN "refused" ELSE "failed"
Outcome(c) ==
  IF route[c] = "healthz" THEN "no_text"
  ELSE IF caller[c] = "ended" THEN Ended(answer[c]) ELSE "open"
Got(c) == IF Outcome(c) = "text" THEN reply[c] ELSE 0

Outcomes == [c \in Calls |-> Outcome(c)]
Handed == [c \in Calls |-> Got(c)]
Asked == {c \in Calls : engine[c] # "off"}
Whole == {c \in Calls : engine[c] = "finished"}

\* The call implements the abstract call: every request for a text is worked on
\* at most once and answered once; a success is the whole of that work, a
\* refusal means that there was none and that there will be none.
Once == INSTANCE CallOnce
          WITH asked <- Asked, texts <- made, whole <- Whole,
               outcome <- Outcomes, got <- Handed
ImplementsCall == Once!CallSpec

\* A request that has a deadline is answered, whatever the engine does.
CallReturns ==
  \A c \in Calls :
    caller[c] = "waiting" /\ (route[c] \in Rest \cup {"healthz"} \/ limited[c])
      ~> caller[c] = "ended"

\* The engine does not work for ever for a caller that was answered or has
\* gone, a stalled generation included.
EngineFreed ==
  \A c \in Calls : engine[c] = "running" /\ caller[c] = "ended" ~> engine[c] # "running"

\* Neither side is kept waiting or working by the other.
CallEnds == CallReturns /\ EngineFreed

\* The argument behind it: what is left of a call for its caller and for the
\* servicer.  Whatever happens to a call takes it nearer to rest, a crash
\* included, and nothing takes it back: neither side ever starts over.
CallerLeft(c) == CASE caller[c] = "start" -> 2 [] caller[c] = "waiting" -> 1 [] OTHER -> 0
ServicerLeft(c) ==
  CASE rpc[c] = "none" -> 4 [] rpc[c] = "active" -> 3
    [] rpc[c] = "cancelled" -> IF engine[c] = "running" THEN 2 ELSE 1
    [] OTHER -> 0
Left(c) == CallerLeft(c) + ServicerLeft(c)
CallsSettle ==
  [][\A c \in Calls :
       /\ Left(c)' <= Left(c)
       /\ Caller(c) \/ Servicer(c) \/ DeadlinePasses(c) \/ GiveUp(c) => Left(c)' < Left(c)]_vars
============================================================================
