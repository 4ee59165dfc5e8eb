------------------------------ MODULE CallOnce ------------------------------
(***************************************************************************)
(* What a unary request promises to whoever made it, abstracting from      *)
(* routes, statuses, deadlines and processes: the engine works on a request *)
(* at most once, a request is answered once and for all, a success hands   *)
(* over all of the text and nothing else, and a refusal means that no work *)
(* was done and none will be.  A failure promises nothing of the kind.     *)
(***************************************************************************)
EXTENDS Naturals

CONSTANT Calls

VARIABLES
  asked,   \* requests the engine was asked to work on
  texts,   \* how much text it has made for each
  whole,   \* requests whose text is complete
  outcome, \* "open", "text", "refused" or "failed"; "no_text" for a health probe
  got      \* how much text the caller was handed

callVars == <<asked, texts, whole, outcome, got>>

CallInit ==
  /\ asked = {} /\ whole = {}
  /\ texts = [c \in Calls |-> 0] /\ got = [c \in Calls |-> 0]
  /\ outcome \in [Calls -> {"open", "no_text"}]

Ask(c) ==
  /\ c \notin asked /\ outcome[c] # "refused"
  /\ asked' = asked \cup {c}
  /\ UNCHANGED <<texts, whole, outcome, got>>

Work(c) ==
  /\ c \in asked /\ c \notin whole
  /\ texts' = [texts EXCEPT ![c] = @ + 1]
  /\ UNCHANGED <<asked, whole, outcome, got>>

Complete(c) ==
  /\ c \in asked /\ c \notin whole
  /\ whole' = whole \cup {c}
  /\ UNCHANGED <<asked, texts, outcome, got>>

Succeed(c) ==
  /\ outcome[c] = "open" /\ c \in whole /\ texts[c] > 0
  /\ outcome' = [outcome EXCEPT ![c] = "text"]
  /\ got' = [got EXCEPT ![c] = texts[c]]
  /\ UNCHANGED <<asked, texts, whole>>

Reject(c) ==
  /\ outcome[c] = "open" /\ c \notin asked
  /\ outcome' = [outcome EXCEPT ![c] = "refused"]
  /\ UNCHANGED <<asked, texts, whole, got>>

\* Several requests may fail together, when what they share goes away.
Fail(some) ==
  /\ \A c \in some : outcome[c] = "open"
  /\ outcome' = [c \in Calls |-> IF c \in some THEN "failed" ELSE outcome[c]]
  /\ UNCHANGED <<asked, texts, whole, got>>

CallNext ==
  \/ \E c \in Calls : Ask(c) \/ Work(c) \/ Complete(c) \/ Succeed(c) \/ Reject(c)
  \/ \E some \in SUBSET Calls : Fail(some)

CallSpec == CallInit /\ [][CallNext]_callVars
=============================================================================
