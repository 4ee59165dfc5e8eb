---------------------------- MODULE TokenStream ----------------------------
(***************************************************************************)
(* What a streaming completion promises to its HTTP client, abstracting    *)
(* from the proxy, the RPC and the frontend: the text arrives in order and *)
(* without gaps while the engine makes it, and the stream is declared done *)
(* only when all of it has arrived; otherwise it fails or is left.         *)
(***************************************************************************)
EXTENDS Naturals, Sequences

VARIABLES
  made,      \* how much text the engine has made
  complete,  \* the engine has ended by itself: that is all of it
  told,      \* the text sent to the client, as positions in the engine's text
  outcome    \* "open", "done", "failed" or "left"

streamVars == <<made, complete, told, outcome>>

\* The text from position a + 1 to position b.
Span(a, b) == [i \in 1 .. b - a |-> a + i]

StreamInit == made = 0 /\ complete = FALSE /\ told = <<>> /\ outcome = "open"

Produce ==
  /\ ~complete /\ outcome # "done"
  /\ made' \in Nat /\ made' >= made
  /\ complete' \in BOOLEAN
  /\ UNCHANGED <<told, outcome>>

Deliver ==
  /\ outcome = "open"
  /\ Len(told') > Len(told) /\ Len(told') <= made
  /\ told' = Span(0, Len(told'))
  /\ UNCHANGED <<made, complete, outcome>>

Finish ==
  /\ outcome = "open" /\ complete /\ told = Span(0, made)
  /\ outcome' = "done" /\ UNCHANGED <<made, complete, told>>

GiveUp ==
  /\ outcome = "open" /\ outcome' \in {"failed", "left"}
  /\ UNCHANGED <<made, complete, told>>

StreamNext == Produce \/ Deliver \/ Finish \/ GiveUp

StreamSpec == StreamInit /\ [][StreamNext]_streamVars

============================================================================
