---------------------------- MODULE StreamBridge ----------------------------
(***************************************************************************)
(* One streaming request on its way through the proxy (chat_router.py,     *)
(* completions_router.py, grpc_client.py), the gRPC call, the frontend's   *)
(* CompleteStream servicer (chat.py, completions.py) and the engine's      *)
(* generator.  Each is an asyncio generator that the next one pulls; they  *)
(* run in two processes, and the HTTP client, the 30 s deadline of the     *)
(* call and the engine act when they like.                                 *)
(*                                                                         *)
(* Text is abstracted to positions: the engine's cumulative text is 1..made *)
(* and a chunk carries the positions from + 1 .. to.                       *)
(***************************************************************************)
EXTENDS Naturals, Sequences

CONSTANTS
  Endpoints,  \* subset of {"chat", "completions"}
  Window,     \* chunks the transport holds before a write blocks
  MaxText     \* bound on the length of the engine's text

ASSUME StreamAssumption ==
  /\ Endpoints \subseteq {"chat", "completions"}
  /\ Window \in Nat \ {0}
  /\ MaxText \in Nat

VARIABLES
  endpoint,     \* which of the two servicers and routers serves the request
  engine,       \* the engine's generator: "off", "running", "finished" (its
                \* last output had a finish_reason), "exhausted" (it ended
                \* without one), "raised" or "stopped" (cancelled or finalized)
  made,         \* length of the cumulative text of the last output
  spc,          \* the servicer: "idle", "pull", "send", "final", "return",
                \* "ended", or "dropped" (suspended in a yield nobody resumes)
  out,          \* the output at hand: its delta and whether it is the last
  prev_text,    \* length of the text already turned into deltas
  token_index,
  trailers,     \* set_trailing_metadata was called
  wire,         \* chunks written and not yet read
  rpc,          \* the server's side of the call: "none", "active",
                \* "cancelled", "ok" or "failed"
  call,         \* the proxy's side: "none", "open", "expired", "cancelled",
                \* "closed"
  ppc,          \* _stream_sse: "start", "next", "check", "yield", "returned"
                \* (its inner generator not finalized yet), "closed", or
                \* "raised" (an exception left it: the response just ends)
  chunk,        \* the chunk at hand between the read and the check
  http,         \* "connected" or "disconnected"
  events,       \* kinds of the SSE events yielded so far
  told          \* the text in them

engineVars == <<engine, made>>
servicerVars == <<spc, out, prev_text, token_index, trailers>>
proxyVars == <<ppc, chunk, events, told>>
vars == <<endpoint, engineVars, servicerVars, wire, rpc, call, proxyVars, http>>

Delta == [from : Nat, to : Nat, finish : BOOLEAN]
NoDelta == [from |-> 0, to |-> 0, finish |-> FALSE]
Chunk == [from : Nat, to : Nat, finish : BOOLEAN, index : Nat]
NoChunk == [from |-> 0, to |-> 0, finish |-> FALSE, index |-> 0]
Span(a, b) == [i \in 1 .. b - a |-> a + i]
Kinds == {"role", "delta", "finish", "done", "error"}
EndedItself == engine \in {"finished", "exhausted"}

----------------------------------------------------------------------------
(* The proxy.                                                              *)

\* The request cannot be converted (embeddings that are no base64, a number
\* too large for its field).  This happens inside the generator, after the
\* response has started and outside its try: nothing catches the exception.
ConversionFails ==
  /\ ppc = "start" /\ ppc' = "raised"
  /\ UNCHANGED <<endpoint, engineVars, servicerVars, wire, rpc, call, chunk, events, told, http>>

\* The request is converted.  The chat router yields the role delta before it
\* pulls the first chunk, which opens a channel and starts the call.
Begin ==
  /\ ppc = "start"
  /\ \/ /\ endpoint = "chat"
        /\ events' = <<"role">> /\ ppc' = "yield" /\ UNCHANGED call
     \/ /\ endpoint = "completions"
        /\ call' = "open" /\ ppc' = "next" /\ UNCHANGED events
  /\ UNCHANGED <<endpoint, engineVars, servicerVars, wire, rpc, chunk, told, http>>

\* The client's connection took the event and the framework pulls the next
\* one; a client that does not read leaves the proxy suspended here.
ClientTakes ==
  /\ ppc = "yield"
  /\ ppc' = "next" /\ call' = IF call = "none" THEN "open" ELSE call
  /\ UNCHANGED <<endpoint, engineVars, servicerVars, wire, rpc, chunk, events, told, http>>

ReadChunk ==
  /\ ppc = "next" /\ call = "open" /\ wire # <<>>
  /\ chunk' = Head(wire) /\ wire' = Tail(wire)
  /\ ppc' = "check"
  /\ UNCHANGED <<endpoint, engineVars, servicerVars, rpc, call, events, told, http>>

\* A disconnected client ends the loop; otherwise the chunk becomes an event.
\* A final chunk becomes an event without text.
CheckAndYield ==
  /\ ppc = "check"
  /\ \/ /\ http = "disconnected"
        /\ ppc' = "returned"
        /\ UNCHANGED <<events, told>>
     \/ /\ http = "connected"
        /\ ppc' = "yield"
        /\ events' = Append(events, IF chunk.finish THEN "finish" ELSE "delta")
        /\ told' = IF chunk.finish THEN told ELSE told \o Span(chunk.from, chunk.to)
  /\ UNCHANGED <<endpoint, engineVars, servicerVars, wire, rpc, call, chunk, http>>

CallEndedOk == rpc = "ok" /\ wire = <<>>

\* Mutant: any end of the server's side ends the loop like a regular one.
ReadEndAny ==
  /\ ppc = "next" /\ call = "open" /\ rpc \in {"ok", "failed"} /\ wire = <<>>
  /\ events' = Append(events, "done")
  /\ call' = "closed" /\ ppc' = "closed"
  /\ UNCHANGED <<endpoint, engineVars, servicerVars, wire, rpc, chunk, told, http>>

\* All chunks read and status OK: the loop ends and [DONE] is yielded.
ReadEnd ==
  /\ ppc = "next" /\ call = "open" /\ CallEndedOk
  /\ events' = Append(events, "done")
  /\ call' = "closed" /\ ppc' = "closed"
  /\ UNCHANGED <<endpoint, engineVars, servicerVars, wire, rpc, chunk, told, http>>

\* Mutant: an error is followed by [DONE].
ReadErrorThenDone ==
  /\ ppc = "next"
  /\ call = "expired" \/ (call = "open" /\ rpc = "failed")
  /\ events' = events \o <<"error", "done">>
  /\ call' = "closed" /\ ppc' = "closed"
  /\ UNCHANGED <<endpoint, engineVars, servicerVars, wire, rpc, chunk, told, http>>

\* The read raises AioRpcError: the deadline passed, or the server aborted
\* (its status may overtake chunks not read yet).  The error event is yielded.
ReadError ==
  /\ ppc = "next"
  /\ call = "expired" \/ (call = "open" /\ rpc = "failed")
  /\ events' = Append(events, "error")
  /\ call' = "closed" /\ ppc' = "closed"
  /\ UNCHANGED <<endpoint, engineVars, servicerVars, wire, rpc, chunk, told, http>>

\* The web framework cancels the task of a disconnected client.  In a read,
\* the finally clause of stream_complete cancels the call at once; in the
\* check or in a yield, the inner generator is left to the finalizer.
FrameworkCancels ==
  /\ http = "disconnected"
  /\ \/ /\ ppc \in {"start", "next"}
        /\ ppc' = "closed"
        /\ call' = IF call = "open" THEN "cancelled" ELSE call
     \/ /\ ppc \in {"check", "yield"}
        /\ ppc' = "returned" /\ UNCHANGED call
  /\ UNCHANGED <<endpoint, engineVars, servicerVars, wire, rpc, chunk, events, told, http>>

\* Leaving "async for" does not close stream_complete; the event loop does,
\* later, and its finally clause cancels the call.
FinalizeCall ==
  /\ ppc = "returned"
  /\ ppc' = "closed"
  /\ call' = IF call = "open" THEN "cancelled" ELSE call
  /\ UNCHANGED <<endpoint, engineVars, servicerVars, wire, rpc, chunk, events, told, http>>

----------------------------------------------------------------------------
(* The gRPC call.                                                          *)

\* Mutant: the call carries no deadline.
DeadlinePassesNever == call = "timeout" /\ UNCHANGED vars
\* _CHAT_DEADLINE_SECONDS after the call was started.
DeadlinePasses ==
  /\ call = "open" /\ call' = "expired"
  /\ UNCHANGED <<endpoint, engineVars, servicerVars, wire, rpc, proxyVars, http>>

\* The server learns that the call was cancelled or has expired; what is in
\* transit is lost.
ServerLearns ==
  /\ call \in {"cancelled", "expired", "closed"} /\ rpc = "active"
  /\ rpc' = "cancelled" /\ wire' = <<>>
  /\ UNCHANGED <<endpoint, engineVars, servicerVars, call, proxyVars, http>>

----------------------------------------------------------------------------
(* The servicer and the engine.                                            *)

\* CompleteStream is entered and calls engine.generate, unless the prompt or
\* the sampling parameters are refused.
Accept ==
  /\ rpc = "none" /\ call # "none" /\ spc = "idle"
  /\ \/ spc' = "pull" /\ engine' = "running" /\ rpc' = "active"
     \/ spc' = "ended" /\ rpc' = "failed" /\ UNCHANGED engine
  /\ UNCHANGED <<endpoint, made, out, prev_text, token_index, trailers,
                 wire, call, proxyVars, http>>

\* The engine yields its next cumulative output, possibly with no new text,
\* the last one with a finish_reason; the servicer takes the delta and goes on
\* to yield it, to the final chunk, or to the next output.
Output(n, fin) ==
  /\ spc = "pull" /\ engine = "running" /\ made + n <= MaxText
  /\ made' = made + n
  /\ engine' = IF fin THEN "finished" ELSE "running"
  /\ out' = [from |-> prev_text, to |-> made + n, finish |-> fin]
  /\ prev_text' = made + n
  /\ spc' = IF made + n > prev_text THEN "send" ELSE IF fin THEN "final" ELSE "pull"
  /\ UNCHANGED <<endpoint, token_index, trailers, wire, rpc, call, proxyVars, http>>

\* The engine's generator ends without a finish_reason, or without any output:
\* the servicer's loop runs out, and neither trailing metadata nor a final
\* chunk is sent.
EngineExhausted ==
  /\ spc = "pull" /\ engine = "running"
  /\ engine' = "exhausted" /\ spc' = "return"
  /\ UNCHANGED <<endpoint, made, out, prev_text, token_index, trailers, wire,
                 rpc, call, proxyVars, http>>

\* engine.generate raises and the servicer aborts with INTERNAL.
EngineRaises ==
  /\ spc = "pull" /\ engine = "running"
  /\ engine' = "raised" /\ spc' = "ended"
  /\ rpc' = IF rpc = "active" THEN "failed" ELSE rpc
  /\ UNCHANGED <<endpoint, made, out, prev_text, token_index, trailers, wire,
                 call, proxyVars, http>>

\* Only the completions servicer asks whether the call is still active.
Inactive == endpoint = "completions" /\ rpc # "active"
\* A write waits for room in the transport.
MayWrite == rpc = "active" /\ Len(wire) < Window

\* The delta chunk is yielded to the transport, when it has room for it.
SendDelta ==
  /\ spc = "send" /\ MayWrite
  /\ wire' = Append(wire, [from |-> out.from, to |-> out.to, finish |-> FALSE,
                           index |-> token_index])
  /\ token_index' = token_index + 1
  /\ spc' = IF out.finish THEN "final" ELSE "pull"
  /\ UNCHANGED <<endpoint, engineVars, out, prev_text, trailers, rpc, call,
                 proxyVars, http>>

\* Mutant: the timings are only set when the engine reported some.
SendFinalNoTrailers ==
  /\ spc = "final" /\ MayWrite
  /\ trailers' \in BOOLEAN
  /\ wire' = Append(wire, [from |-> made, to |-> made, finish |-> TRUE,
                           index |-> token_index])
  /\ spc' = "return"
  /\ UNCHANGED <<endpoint, engineVars, out, prev_text, token_index, rpc, call,
                 proxyVars, http>>

\* Trailing metadata first, then the final chunk, which carries no text.
SendFinal ==
  /\ spc = "final" /\ MayWrite
  /\ trailers' = TRUE
  /\ wire' = Append(wire, [from |-> made, to |-> made, finish |-> TRUE,
                           index |-> token_index])
  /\ spc' = "return"
  /\ UNCHANGED <<endpoint, engineVars, out, prev_text, token_index, rpc, call,
                 proxyVars, http>>

\* "if not context.is_active(): return", before either kind of chunk.
QuitInactive ==
  /\ spc \in {"send", "final"} /\ Inactive
  /\ spc' = "ended"
  /\ UNCHANGED <<endpoint, engineVars, out, prev_text, token_index, trailers,
                 wire, rpc, call, proxyVars, http>>

\* The context of grpc.aio may have no is_active ("type: ignore" in the code,
\* which its tests mock): the call of it raises and the servicer aborts.
IsActiveRaises ==
  /\ spc \in {"send", "final"} /\ endpoint = "completions"
  /\ spc' = "ended"
  /\ rpc' = IF rpc = "active" THEN "failed" ELSE rpc
  /\ UNCHANGED <<endpoint, engineVars, out, prev_text, token_index, trailers,
                 wire, call, proxyVars, http>>

\* The generator returned: the server closes the call with status OK.
Return ==
  /\ spc = "return" /\ spc' = "ended"
  /\ rpc' = IF rpc = "active" THEN "ok" ELSE rpc
  /\ UNCHANGED <<endpoint, engineVars, out, prev_text, token_index, trailers,
                 wire, call, proxyVars, http>>

\* The cancelled handler: CancelledError surfaces in the engine's generator
\* when the servicer waits for an output; when it is suspended in a yield it
\* is dropped there.
HandlerCancelled ==
  /\ rpc = "cancelled"
  /\ \/ spc = "pull" /\ spc' = "ended"
        /\ engine' = "stopped"
     \/ spc \in {"send", "final", "return"} /\ spc' = "dropped"
        /\ UNCHANGED engine
  /\ UNCHANGED <<endpoint, made, out, prev_text, token_index, trailers, wire,
                 rpc, call, proxyVars, http>>

\* The event loop finalizes the generators a dropped or returned servicer
\* left behind, which stops the engine's work on the request.
FinalizeEngine ==
  /\ spc \in {"dropped", "ended"} /\ engine = "running"
  /\ engine' = "stopped"
  /\ UNCHANGED <<endpoint, made, servicerVars, wire, rpc, call, proxyVars, http>>

Disconnect ==
  /\ http = "connected" /\ ppc \notin {"closed", "raised"}
  /\ http' = "disconnected"
  /\ UNCHANGED <<endpoint, engineVars, servicerVars, wire, rpc, call, proxyVars>>

----------------------------------------------------------------------------
Init ==
  /\ endpoint \in Endpoints
  /\ engine = "off" /\ made = 0
  /\ spc = "idle" /\ out = NoDelta /\ prev_text = 0 /\ token_index = 0
  /\ trailers = FALSE
  /\ wire = <<>> /\ rpc = "none" /\ call = "none"
  /\ ppc = "start" /\ chunk = NoChunk /\ events = <<>> /\ told = <<>>
  /\ http = "connected"

Proxy ==
  \/ ConversionFails \/ Begin \/ ReadChunk \/ CheckAndYield
  \/ ReadEnd \/ ReadError \/ FinalizeCall
Servicer ==
  \/ Accept \/ SendDelta \/ SendFinal \/ QuitInactive \/ IsActiveRaises
  \/ Return \/ HandlerCancelled \/ FinalizeEngine
Engine ==
  \/ EngineRaises \/ EngineExhausted
  \/ \E n \in 0 .. MaxText, fin \in BOOLEAN : Output(n, fin)

Next ==
  \/ Proxy \/ Servicer \/ Engine
  \/ DeadlinePasses \/ ServerLearns
  \/ ClientTakes \/ FrameworkCancels \/ Disconnect

\* The two event loops run what is ready, the deadline passes and the news of
\* it arrives.  The engine may stall, the client may stop reading and stay,
\* and the framework need not cancel.
Spec ==
  Init /\ [][Next]_vars /\ WF_vars(Proxy) /\ WF_vars(Servicer)
       /\ WF_vars(DeadlinePasses) /\ WF_vars(ServerLearns)

----------------------------------------------------------------------------
(***************************************************************************)
(* Properties.                                                             *)
(***************************************************************************)

\* The state has the shape the code gives it; the transport never holds more
\* than its window.
TypeOK ==
  /\ endpoint \in Endpoints
  /\ engine \in {"off", "running", "finished", "exhausted", "raised", "stopped"}
  /\ made \in 0 .. MaxText /\ prev_text \in Nat /\ token_index \in Nat
  /\ spc \in {"idle", "pull", "send", "final", "return", "ended", "dropped"}
  /\ out \in Delta /\ trailers \in BOOLEAN
  /\ wire \in Seq(Chunk) /\ Len(wire) <= Window
  /\ rpc \in {"none", "active", "cancelled", "ok", "failed"}
  /\ call \in {"none", "open", "expired", "cancelled", "closed"}
  /\ ppc \in {"start", "next", "check", "yield", "returned", "closed", "raised"}
  /\ chunk \in Chunk
  /\ events \in Seq(Kinds) /\ told \in Seq(Nat)
  /\ http \in {"connected", "disconnected"}

\* What the client has been told is the beginning of what the engine has
\* made: whatever outputs the engine merges or leaves empty, the deltas of
\* the cumulative texts neither repeat nor skip a piece.
ToldIsPrefix == Len(told) <= made /\ told = Span(0, Len(told))

\* "zero-based; strictly increasing within a stream": the index of a chunk is
\* the number of chunks that were turned into events before it.
RoleEvents == IF endpoint = "chat" THEN 1 ELSE 0
IndexCountsEvents == ppc = "check" => chunk.index + RoleEvents = Len(events)

\* What [DONE] means: the engine's generator has ended by itself and the client
\* was told all of its text (FR-008: no error passes for an end).  It does not
\* mean that the engine said why: the finish event just before it, and the
\* trailing metadata the bench client reads, are there exactly when the engine
\* gave a finish_reason.
Has(kind) == \E i \in DOMAIN events : events[i] = kind
FinishLast == events # <<>> /\ events[Len(events)] = "finish"
DoneIsWhole ==
  Has("done") =>
    /\ EndedItself /\ told = Span(0, made)
    /\ trailers <=> engine = "finished"
    /\ Len(events) > 1 /\ events[Len(events) - 1] = "finish" <=> engine = "finished"

\* A stream ends in exactly one [DONE] or error event, as its last event, and
\* two kinds of clients are left without one: those that have gone, and those
\* whose request could not be converted, who get no event at all.
Terminators == {"done", "error"}
OneTerminator ==
  /\ \A i \in DOMAIN events :
       events[i] \in Terminators => i = Len(events) /\ ppc = "closed"
  /\ ppc = "closed" /\ http = "connected" =>
       events # <<>> /\ events[Len(events)] \in Terminators
  /\ ppc = "raised" => events = <<>> /\ call = "none"

\* The parts of the inductive invariant below.  They speak of a proxy that
\* still reads, where "Reached" is the text and "ReadSoFar" the events it will
\* have sent once the chunk at hand is an event.
Reading == ppc \in {"next", "check", "yield"}
Reached == IF ppc = "check" THEN chunk.to ELSE Len(told)
ReadSoFar == IF ppc = "check" THEN Len(events) + 1 ELSE Len(events)
Tip == IF wire = <<>> THEN Reached ELSE wire[Len(wire)].to
WellFormed(c) ==
  /\ IF c.finish THEN c.from = c.to ELSE c.from < c.to
  /\ c.to <= made

\* What is on its way before the first chunk.
CallInv ==
  /\ call = "none" => rpc = "none"
  /\ rpc = "none" <=> spc = "idle"
  /\ rpc = "none" =>
       /\ wire = <<>> /\ told = <<>> /\ ppc # "check"
       /\ ~Has("finish")
       /\ Reading => Len(events) = RoleEvents
  /\ ppc = "start" => call = "none" /\ events = <<>>
  /\ ppc \in {"next", "check"} => call # "none"
  /\ ppc = "returned" => http = "disconnected"

\* The servicer and the engine move together.
ServicerInv ==
  /\ prev_text = made
  /\ spc = "idle" => engine = "off" /\ made = 0 /\ token_index = 0
  /\ spc = "pull" => engine = "running"
  /\ spc = "send" =>
       /\ out.to = made /\ out.from < out.to
       /\ engine = IF out.finish THEN "finished" ELSE "running"
  /\ spc = "final" => engine = "finished"
  /\ trailers => engine = "finished"
  /\ spc = "return" \/ rpc = "ok" => EndedItself /\ (engine = "finished" => trailers)
  /\ rpc = "active" => spc \in {"pull", "send", "final", "return"}
  /\ rpc = "ok" => spc = "ended"

\* The chunk at hand and the chunks on the wire continue, one after the
\* other, what was told.
ChunkInv ==
  ppc = "check" => chunk.from = Len(told) /\ WellFormed(chunk)
WireInv ==
  Reading => \A i \in DOMAIN wire :
    /\ WellFormed(wire[i])
    /\ wire[i].from = IF i = 1 THEN Reached ELSE wire[i - 1].to
    /\ wire[i].index + RoleEvents = ReadSoFar + (i - 1)

\* The last of them joins what the servicer has at hand; it is the final one
\* once the servicer has sent that.
LastIsFinish ==
  IF wire # <<>> THEN wire[Len(wire)].finish
  ELSE IF ppc = "check" THEN chunk.finish
  ELSE FinishLast
TipInv ==
  Reading /\ rpc \in {"active", "ok"} =>
    /\ Tip = IF spc = "send" THEN out.from ELSE made
    /\ spc \in {"pull", "send", "final"} => token_index + RoleEvents = ReadSoFar + Len(wire)
    /\ LastIsFinish <=> spc \in {"return", "ended"} /\ engine = "finished"

\* The inductive invariant: the text is cut into chunks without a gap between
\* the engine and the client, wherever the pieces are.
StreamInv ==
  /\ TypeOK /\ CallInv /\ ServicerInv /\ ChunkInv /\ WireInv /\ TipInv
  /\ ToldIsPrefix /\ IndexCountsEvents /\ DoneIsWhole /\ OneTerminator

\* Whatever the engine, the client and the transport do, a pull of the stream
\* returns and the engine is released: no request waits for ever, and no
\* generation goes on for a request that nobody reads any more (FR-005).
PullReturns == ppc = "next" ~> ppc # "next"
EngineReleased == engine = "running" ~> engine # "running"
\* Neither the client nor the engine is held for ever.
RequestEnds == PullReturns /\ EngineReleased

\* The bridge implements the abstract stream.
Outcome ==
  IF Has("done") THEN "done"
  ELSE IF Has("error") \/ ppc = "raised" THEN "failed"
  ELSE IF ppc \in {"returned", "closed"} THEN "left" ELSE "open"
Stream == INSTANCE TokenStream WITH outcome <- Outcome, complete <- EndedItself
ImplementsStream == Stream!StreamSpec

============================================================================
