-------------------------- MODULE UnaryCall_proofs --------------------------
(***************************************************************************)
(* The invariants of UnaryCall for any number of concurrent requests, any  *)
(* choice of routes and any number of outputs.                             *)
(***************************************************************************)
EXTENDS UnaryCall, TLAPS

\* What the inductive invariant says of one call.
Local(c) == Success(c) /\ Failure(c) /\ Contained(c) /\ Progress(c)

LEMMA InvIsLocal == UnaryInv <=> TypeOK /\ \A c \in Calls : Local(c)
  BY DEF UnaryInv, Local, SuccessIsWhole, FailureHasCause, NothingOutlives

LEMMA UnaryInit == Init => UnaryInv
<1> SUFFICES ASSUME Init PROVE UnaryInv
  OBVIOUS
<1>1. TypeOK
  <2>1. made \in [Calls -> 0 .. MaxOutputs] /\ reply \in [Calls -> 0 .. MaxOutputs]
    BY UnaryAssumption, 0 \in 0 .. MaxOutputs DEF UnaryAssumption, Init
  <2>2. answer \in [Calls -> Answers]
    BY DEF Init, Answers
  <2> QED
    BY <2>1, <2>2 DEF Init, TypeOK
<1>2. ASSUME NEW c \in Calls PROVE Local(c)
  BY DEF Init, Local, Success, Failure, Contained, Progress, Broken
<1> QED
  BY <1>1, <1>2, InvIsLocal

\* The answer a caller gets is one of the answers.
LEMMA AnswersAreAnswers ==
  ASSUME NEW r, NEW code \in Codes PROVE AnswerOf(r, code) \in Answers
  BY DEF AnswerOf, HttpStatus, Answers, Codes, Statuses

LEMMA RefusalsAreAnswers ==
  ASSUME NEW c \in Calls PROVE Refusal(c) \in Answers
  BY DEF Refusal, Answers

LEMMA EngineInputs ==
  ASSUME NEW i PROVE EngineInput(i) \in {"prompt", "tensor", "digest", "AttributeError"}
  BY DEF EngineInput, Decoded

\* Every variable keeps its type.
LEMMA TypeKept == TypeOK /\ [Next]_vars => TypeOK'
<1> SUFFICES ASSUME TypeOK, [Next]_vars PROVE TypeOK'
  OBVIOUS
<1> USE UnaryAssumption DEF UnaryAssumption, TypeOK, request, server
<1>1. ASSUME NEW c \in Calls, Refuse(c) PROVE TypeOK'
  BY <1>1, RefusalsAreAnswers DEF Refuse, End
<1>2. ASSUME NEW c \in Calls, Call(c) PROVE TypeOK'
  BY <1>2 DEF Call
<1>3. ASSUME NEW c \in Calls, Answer(c) PROVE TypeOK'
  BY <1>3, AnswersAreAnswers DEF Answer, End, Codes
<1>4. ASSUME NEW c \in Calls, DeadlinePasses(c) PROVE TypeOK'
  BY <1>4, AnswersAreAnswers DEF DeadlinePasses, End, Codes
<1>5. ASSUME NEW c \in Calls, GiveUp(c) PROVE TypeOK'
  BY <1>5 DEF GiveUp, End, Answers
<1>6. ASSUME NEW c \in Calls, Unreachable(c) PROVE TypeOK'
  BY <1>6 DEF Unreachable, Status, Statuses
<1>7. ASSUME NEW c \in Calls, Handle(c) PROVE TypeOK'
  <2>1. Outset(c) \in {"active"} \cup Statuses
    BY DEF Outset, Statuses
  <2>2. Outset(c) = "active" => EngineInput(input[c]) \in {"prompt", "tensor", "digest"}
    BY EngineInputs DEF Outset
  <2>3. rpc' \in [Calls -> {"none", "active", "cancelled"} \cup Statuses]
    BY <1>7, <2>1 DEF Handle, Status
  <2>4. engine_input' \in [Calls -> {"none", "prompt", "tensor", "digest"}]
    BY <1>7, <2>2 DEF Handle
  <2>5. engine' \in [Calls -> {"off", "running", "finished", "raised", "stopped"}]
    BY <1>7 DEF Handle, Engine
  <2> QED
    BY <1>7, <2>3, <2>4, <2>5 DEF Handle
<1>8. ASSUME NEW c \in Calls, Return(c) PROVE TypeOK'
  BY <1>8 DEF Return, Status, Statuses
<1>9. ASSUME NEW c \in Calls, HandlerRaises(c) PROVE TypeOK'
  BY <1>9 DEF HandlerRaises, Status, Statuses
<1>10. ASSUME NEW c \in Calls, ServerLearns(c) PROVE TypeOK'
  BY <1>10 DEF ServerLearns, Status
<1>11. ASSUME NEW c \in Calls, AbortGeneration(c) PROVE TypeOK'
  BY <1>11 DEF AbortGeneration, Engine
<1>12. ASSUME NEW c \in Calls, Output(c) PROVE TypeOK'
  BY <1>12 DEF Output
<1>13. ASSUME NEW c \in Calls, NEW how \in {"finished", "raised"}, EngineEnds(c, how)
       PROVE TypeOK'
  BY <1>13 DEF EngineEnds, Engine
<1>14. CASE Leave
  BY <1>14 DEF Leave, Answers
<1>15. CASE Enter
  BY <1>15 DEF Enter
<1>16. CASE LoadEngine \/ Listen
  BY <1>16 DEF LoadEngine, Listen
<1>17. CASE Crash
  BY <1>17 DEF Crash, Statuses
<1>18. CASE UNCHANGED vars
  BY <1>18 DEF vars
<1> QED
  BY <1>1, <1>2, <1>3, <1>4, <1>5, <1>6, <1>7, <1>8, <1>9, <1>10, <1>11, <1>12, <1>13,
     <1>14, <1>15, <1>16, <1>17, <1>18
     DEF Next, Caller, Servicer, EngineStep

\* What a step of one call leaves alone: nothing of another call changes, so
\* what the invariant says of that one still holds.
LEMMA OthersKept ==
  ASSUME NEW d \in Calls, Local(d), UNCHANGED request,
         caller'[d] = caller[d], answer'[d] = answer[d], rpc'[d] = rpc[d],
         engine_input'[d] = engine_input[d], engine'[d] = engine[d], made'[d] = made[d],
         reply'[d] = reply[d], trailers'[d] = trailers[d],
         UNCHANGED <<frontend, channel>>
  PROVE  Local(d)'
  BY DEF Local, Success, Failure, Contained, Progress, WholeText, Broken, HasDeadline, request

\* One step, one call: the action's own call, then the others.
LEMMA LocalKept ==
  ASSUME TypeOK, TypeOK', \A c \in Calls : Local(c), Next, NEW d \in Calls
  PROVE  Local(d)'
<1>1. ASSUME NEW c \in Calls, Refuse(c) PROVE Local(d)'
  <2>1. CASE c = d
    BY <1>1, <2>1 DEF Local, Success, Failure, Contained, Progress, WholeText, Broken, HasDeadline, TypeOK, request, server, Refuse, End, Refusal, Rest, Library
  <2>2. CASE c # d
    BY <1>1, <2>2, OthersKept DEF TypeOK, request, server, Refuse, End
  <2> QED
    BY <2>1, <2>2
<1>2. ASSUME NEW c \in Calls, Call(c) PROVE Local(d)'
  <2>1. CASE c = d
    BY <1>2, <2>1 DEF Local, Success, Failure, Contained, Progress, WholeText, Broken, HasDeadline, TypeOK, request, server, Call, Refusal, Rest, Library
  <2>2. CASE c # d
    BY <1>2, <2>2, OthersKept DEF TypeOK, request, server, Call
  <2> QED
    BY <2>1, <2>2
<1>3. ASSUME NEW c \in Calls, Answer(c) PROVE Local(d)'
  <2>1. CASE c = d
    BY <1>3, <2>1 DEF Local, Success, Failure, Contained, Progress, WholeText, Broken, HasDeadline, TypeOK, request, server, Answer, End, AnswerOf, HttpStatus, Statuses, Rest
  <2>2. CASE c # d
    BY <1>3, <2>2, OthersKept DEF TypeOK, request, server, Answer, End
  <2> QED
    BY <2>1, <2>2
<1>4. ASSUME NEW c \in Calls, DeadlinePasses(c) PROVE Local(d)'
  <2>1. CASE c = d
    BY <1>4, <2>1 DEF Local, Success, Failure, Contained, Progress, WholeText, Broken, HasDeadline, TypeOK, request, server, DeadlinePasses, End, AnswerOf, HttpStatus, Rest
  <2>2. CASE c # d
    BY <1>4, <2>2, OthersKept DEF TypeOK, request, server, DeadlinePasses, End
  <2> QED
    BY <2>1, <2>2
<1>5. ASSUME NEW c \in Calls, GiveUp(c) PROVE Local(d)'
  <2>1. CASE c = d
    BY <1>5, <2>1 DEF Local, Success, Failure, Contained, Progress, WholeText, Broken, HasDeadline, TypeOK, request, server, GiveUp, End
  <2>2. CASE c # d
    BY <1>5, <2>2, OthersKept DEF TypeOK, request, server, GiveUp, End
  <2> QED
    BY <2>1, <2>2
<1>6. ASSUME NEW c \in Calls, Unreachable(c) PROVE Local(d)'
  <2>1. CASE c = d
    BY <1>6, <2>1 DEF Local, Success, Failure, Contained, Progress, WholeText, Broken, HasDeadline, TypeOK, request, server, Unreachable, Status
  <2>2. CASE c # d
    BY <1>6, <2>2, OthersKept DEF TypeOK, request, server, Unreachable, Status
  <2> QED
    BY <2>1, <2>2
<1>7. ASSUME NEW c \in Calls, Handle(c) PROVE Local(d)'
  <2>1. CASE c = d
    <3>1. /\ caller[c] = "waiting" /\ rpc[c] = "none" /\ frontend = "listening"
          /\ UNCHANGED <<route, input, limited, caller, answer, made, reply, trailers,
                        frontend, channel>>
          /\ rpc'[c] = Outset(c) /\ answer[c] = "none"
      BY <1>7, <2>1 DEF Handle, Status, TypeOK, request, Local, Progress
    <3>2. /\ engine[c] = "off" /\ made[c] = 0
      BY <2>1, <3>1 DEF Local, Progress
    <3>3. IF Outset(c) = "active"
            THEN engine'[c] = "running" /\ engine_input'[c] = EngineInput(input[c])
            ELSE engine'[c] = "off" /\ UNCHANGED engine_input
      BY <1>7, <3>2 DEF Handle, Engine, TypeOK
    <3>4. /\ Outset(c) \in {"OK", "INVALID_ARGUMENT", "UNKNOWN", "active"}
          /\ Outset(c) = "OK" => route[c] = "healthz"
          /\ Outset(c) = "UNKNOWN" => input[c] \in {"garbled", "params", "no_tensor"}
          /\ Outset(c) = "active" => route[c] # "healthz"
      BY DEF Outset, EngineInput, Decoded
    <3> HIDE DEF Outset
    <3>5. Success(c)' /\ Failure(c)'
      BY <3>1 DEF Success, Failure
    <3>6. Contained(c)'
      BY <2>1, <3>1, <3>3 DEF Contained, Local
    <3>7. Progress(c)'
      BY <2>1, <3>1, <3>2, <3>3, <3>4 DEF Progress, Broken, Local
    <3> QED
      BY <2>1, <3>5, <3>6, <3>7 DEF Local
  <2>2. CASE c # d
    BY <1>7, <2>2, OthersKept DEF TypeOK, request, server, Handle, Status, Engine
  <2> QED
    BY <2>1, <2>2
<1>8. ASSUME NEW c \in Calls, Return(c) PROVE Local(d)'
  <2>1. CASE c = d
    <3>1. /\ rpc[c] = "active" /\ engine[c] = "finished"
          /\ UNCHANGED <<route, input, limited, caller, answer, engine_input, engine, made,
                        frontend, channel>>
          /\ trailers'[c] /\ reply'[c] = made[c] /\ made[c] \in Nat
          /\ rpc'[c] = IF made[c] = 0 THEN "UNKNOWN" ELSE "OK"
      BY <1>8 DEF Return, Status, TypeOK, request
    <3>2. Progress(c) /\ Success(c) /\ Failure(c) /\ Contained(c)
      BY <2>1 DEF Local
    <3>3. engine_input[c] = EngineInput(input[c])
      BY <3>1, <3>2 DEF Progress
    <3>4. made[c] > 0 => WholeText(c)'
      BY <3>1, <3>3 DEF WholeText, EngineInput, Decoded
    <3>a. made[c] = 0 \/ made[c] > 0
      BY <3>1
    <3>5. Progress(c)'
      BY <3>1, <3>2, <3>4, <3>a DEF Progress, Broken
    <3>b. route[c] # "healthz"
      BY <3>1, <3>2 DEF Progress
    <3>6. Success(c)'
      BY <3>1, <3>2, <3>4, <3>b DEF Success, WholeText
    <3>7. Failure(c)'
      BY <3>1, <3>2 DEF Failure, Broken, HasDeadline
    <3>8. Contained(c)'
      BY <3>1, <3>2 DEF Contained
    <3> QED
      BY <2>1, <3>5, <3>6, <3>7, <3>8 DEF Local
  <2>2. CASE c # d
    <3>0. \E s : rpc' = [rpc EXCEPT ![c] = s]
      BY <1>8 DEF Return, Status
    <3>a. reply' = [reply EXCEPT ![c] = made[c]] /\ trailers' = [trailers EXCEPT ![c] = TRUE]
      BY <1>8 DEF Return
    <3>b. d \in DOMAIN rpc /\ d \in DOMAIN reply /\ d \in DOMAIN trailers
      BY DEF TypeOK
    <3>1. /\ rpc'[d] = rpc[d] /\ reply'[d] = reply[d] /\ trailers'[d] = trailers[d]
      BY <2>2, <3>0, <3>a, <3>b
    <3>2. /\ caller'[d] = caller[d] /\ answer'[d] = answer[d] /\ engine'[d] = engine[d]
          /\ engine_input'[d] = engine_input[d] /\ made'[d] = made[d]
      BY <1>8 DEF Return
    <3>3. UNCHANGED request /\ UNCHANGED <<frontend, channel>> /\ Local(d)
      BY <1>8 DEF Return
    <3> QED
      BY <3>1, <3>2, <3>3, OthersKept
  <2> QED
    BY <2>1, <2>2
<1>9. ASSUME NEW c \in Calls, HandlerRaises(c) PROVE Local(d)'
  <2>1. CASE c = d
    BY <1>9, <2>1, EngineInputs DEF Local, Success, Failure, Contained, Progress, WholeText, Broken, HasDeadline, TypeOK, request, server, HandlerRaises, Status
  <2>2. CASE c # d
    BY <1>9, <2>2, OthersKept DEF TypeOK, request, server, HandlerRaises, Status
  <2> QED
    BY <2>1, <2>2
<1>10. ASSUME NEW c \in Calls, ServerLearns(c) PROVE Local(d)'
  <2>1. CASE c = d
    BY <1>10, <2>1 DEF Local, Success, Failure, Contained, Progress, WholeText, Broken, HasDeadline, TypeOK, request, server, ServerLearns, Status
  <2>2. CASE c # d
    BY <1>10, <2>2, OthersKept DEF TypeOK, request, server, ServerLearns, Status
  <2> QED
    BY <2>1, <2>2
<1>11. ASSUME NEW c \in Calls, AbortGeneration(c) PROVE Local(d)'
  <2>1. CASE c = d
    BY <1>11, <2>1 DEF Local, Success, Failure, Contained, Progress, WholeText, Broken, HasDeadline, TypeOK, request, server, AbortGeneration, Engine
  <2>2. CASE c # d
    BY <1>11, <2>2, OthersKept DEF TypeOK, request, server, AbortGeneration, Engine
  <2> QED
    BY <2>1, <2>2
<1>12. ASSUME NEW c \in Calls, Output(c) PROVE Local(d)'
  <2>1. CASE c = d
    BY <1>12, <2>1 DEF Local, Success, Failure, Contained, Progress, WholeText, Broken, HasDeadline, TypeOK, request, server, Output
  <2>2. CASE c # d
    BY <1>12, <2>2, OthersKept DEF TypeOK, request, server, Output
  <2> QED
    BY <2>1, <2>2
<1>13. ASSUME NEW c \in Calls, NEW how \in {"finished", "raised"}, EngineEnds(c, how)
       PROVE Local(d)'
  <2>1. CASE c = d
    BY <1>13, <2>1 DEF Local, Success, Failure, Contained, Progress, WholeText, Broken, HasDeadline, TypeOK, request, EngineEnds, Engine
  <2>2. CASE c # d
    BY <1>13, <2>2, OthersKept DEF TypeOK, request, EngineEnds, Engine
  <2> QED
    BY <2>1, <2>2
<1>14. CASE Leave
  BY <1>14 DEF Local, Success, Failure, Contained, Progress, WholeText, Broken, HasDeadline, TypeOK, request, server, Leave, Library
<1>15. CASE Enter
  BY <1>15 DEF Local, Success, Failure, Contained, Progress, WholeText, Broken, HasDeadline, TypeOK, request, server, Enter
<1>16. CASE LoadEngine
  BY <1>16 DEF Local, Success, Failure, Contained, Progress, WholeText, Broken, HasDeadline, TypeOK, request, server, LoadEngine
<1>17. CASE Listen
  BY <1>17 DEF Local, Success, Failure, Contained, Progress, WholeText, Broken, HasDeadline, TypeOK, request, server, Listen
<1>18. CASE Crash
  BY <1>18 DEF Local, Success, Failure, Contained, Progress, WholeText, Broken, HasDeadline, TypeOK, request, server, Crash, Statuses
<1> QED
  BY <1>1, <1>2, <1>3, <1>4, <1>5, <1>6, <1>7, <1>8, <1>9, <1>10, <1>11, <1>12, <1>13, <1>14, <1>15, <1>16, <1>17, <1>18
     DEF Next, Caller, Servicer, EngineStep

LEMMA UnaryKept == UnaryInv /\ [Next]_vars => UnaryInv'
<1> SUFFICES ASSUME UnaryInv, [Next]_vars PROVE UnaryInv'
  OBVIOUS
<1>1. TypeOK /\ \A c \in Calls : Local(c)
  BY InvIsLocal
<1>2. TypeOK'
  BY <1>1, TypeKept
<1>3. ASSUME NEW d \in Calls PROVE Local(d)'
  <2>1. CASE Next
    BY <1>1, <1>2, <2>1, LocalKept
  <2>2. CASE UNCHANGED vars
    BY <1>1, <2>2, OthersKept DEF vars, request, server
  <2> QED
    BY <2>1, <2>2
<1>4. UnaryInv' <=> TypeOK' /\ \A c \in Calls : Local(c)'
  BY DEF UnaryInv, Local, SuccessIsWhole, FailureHasCause, NothingOutlives
<1> QED
  BY <1>2, <1>3, <1>4

\* The inductive invariant holds for every set of calls, of routes and of
\* engine outputs.
THEOREM UnaryInvariant == Spec => []UnaryInv
<1>1. Init => UnaryInv
  BY UnaryInit
<1>2. UnaryInv /\ [Next]_vars => UnaryInv'
  BY UnaryKept
<1> QED
  BY <1>1, <1>2, PTL DEF Spec

\* A 200 always carries the whole text of the input that was sent.
THEOREM SuccessesAreWhole == Spec => []SuccessIsWhole
<1>1. UnaryInv => SuccessIsWhole
  BY DEF UnaryInv
<1> QED
  BY <1>1, UnaryInvariant, PTL

\* Every error status names its own cause.
THEOREM FailuresHaveCauses == Spec => []FailureHasCause
<1>1. UnaryInv => FailureHasCause
  BY DEF UnaryInv
<1> QED
  BY <1>1, UnaryInvariant, PTL
----------------------------------------------------------------------------
(* The refinement of CallOnce.                                             *)

\* A step that leaves the engines alone leaves the work done alone.
LEMMA EnginesKept ==
  ASSUME engine' = engine
  PROVE  Asked' = Asked /\ Whole' = Whole
  BY DEF Asked, Whole

\* A step that leaves the callers and the replies alone leaves the outcomes alone.
LEMMA CallersKept ==
  ASSUME route' = route, caller' = caller, answer' = answer
  PROVE  /\ Outcomes' = Outcomes
         /\ reply' = reply => Handed' = Handed
<1>1. \A c \in Calls : Outcome(c)' = Outcome(c)
  BY DEF Outcome
<1>2. Outcomes' = Outcomes
  BY <1>1 DEF Outcomes
<1>3. ASSUME reply' = reply PROVE \A c \in Calls : Got(c)' = Got(c)
  BY <1>1, <1>3 DEF Got
<1> QED
  BY <1>2, <1>3 DEF Handed

\* When one call ends, its outcome changes and no other does.
LEMMA OneEnds ==
  ASSUME TypeOK, NEW c \in Calls, NEW a, caller[c] # "ended", route[c] # "healthz",
         End(c, a), UNCHANGED <<route, reply>>
  PROVE  /\ Outcomes[c] = "open"
         /\ Outcomes' = [Outcomes EXCEPT ![c] = Ended(a)]
         /\ Handed' = [Handed EXCEPT ![c] = IF Ended(a) = "text" THEN reply[c] ELSE 0]
<1>1. /\ caller'[c] = "ended" /\ answer'[c] = a
      /\ \A d \in Calls \ {c} : caller'[d] = caller[d] /\ answer'[d] = answer[d]
  BY DEF End, TypeOK
<1>2. Outcome(c) = "open" /\ Outcome(c)' = Ended(a)
  BY <1>1 DEF Outcome
<1>3. \A d \in Calls \ {c} : Outcome(d)' = Outcome(d) /\ Got(d)' = Got(d)
  BY <1>1 DEF Outcome, Got
<1>4. Got(c)' = IF Ended(a) = "text" THEN reply[c] ELSE 0
  BY <1>2 DEF Got
<1>5. Outcomes' = [Outcomes EXCEPT ![c] = Ended(a)]
  BY <1>2, <1>3 DEF Outcomes
<1>6. Handed' = [Handed EXCEPT ![c] = IF Ended(a) = "text" THEN reply[c] ELSE 0]
  BY <1>3, <1>4 DEF Handed
<1> QED
  BY <1>2, <1>5, <1>6 DEF Outcomes

\* The end of a health probe is no outcome.
LEMMA ProbeEnds ==
  ASSUME TypeOK, NEW c \in Calls, NEW a, route[c] = "healthz",
         End(c, a), UNCHANGED <<route, reply>>
  PROVE  Outcomes' = Outcomes /\ Handed' = Handed
<1>1. \A d \in Calls \ {c} : caller'[d] = caller[d] /\ answer'[d] = answer[d]
  BY DEF End, TypeOK
<1>2. \A d \in Calls : Outcome(d)' = Outcome(d) /\ Got(d)' = Got(d)
  BY <1>1 DEF Outcome, Got
<1> QED
  BY <1>2 DEF Outcomes, Handed

\* What is no text was not handed over.
LEMMA NothingHanded ==
  ASSUME NEW c \in Calls, Outcomes[c] # "text"
  PROVE  Handed[c] = 0
  BY DEF Outcomes, Handed, Got

\* A call that ends with neither a text nor a refusal fails.
LEMMA EndsFailed ==
  ASSUME TypeOK, NEW c \in Calls, NEW a, caller[c] # "ended", route[c] # "healthz",
         End(c, a), Ended(a) = "failed", UNCHANGED <<route, reply, engine, made>>
  PROVE  Once!Fail({c}) /\ {c} \in SUBSET Calls
<1>1. /\ Outcomes[c] = "open"
      /\ Outcomes' = [Outcomes EXCEPT ![c] = "failed"]
      /\ Handed' = [Handed EXCEPT ![c] = 0]
  BY OneEnds
<1>2. DOMAIN Outcomes = Calls /\ Outcomes = [d \in Calls |-> Outcomes[d]]
  BY DEF Outcomes
<1>3. Outcomes' = [d \in Calls |-> IF d \in {c} THEN "failed" ELSE Outcomes[d]]
  BY <1>1, <1>2
<1>4. Handed = [d \in Calls |-> Handed[d]] /\ Handed[c] = 0
  BY <1>1, NothingHanded DEF Handed
<1>5. Handed' = Handed
  BY <1>1, <1>4
<1> QED
  BY <1>1, <1>3, <1>5, EnginesKept DEF Once!Fail

\* A refused call was not worked on.
LEMMA EndsRefused ==
  ASSUME TypeOK, NEW c \in Calls, NEW a, caller[c] # "ended", route[c] # "healthz",
         engine[c] = "off",
         End(c, a), Ended(a) = "refused", UNCHANGED <<route, reply, engine, made>>
  PROVE  Once!Reject(c)
<1>1. /\ Outcomes[c] = "open"
      /\ Outcomes' = [Outcomes EXCEPT ![c] = "refused"]
      /\ Handed' = [Handed EXCEPT ![c] = 0]
  BY OneEnds
<1>4. Handed = [d \in Calls |-> Handed[d]] /\ Handed[c] = 0
  BY <1>1, NothingHanded DEF Handed
<1>5. Handed' = Handed
  BY <1>1, <1>4
<1>6. c \notin Asked
  BY DEF Asked
<1> QED
  BY <1>1, <1>5, <1>6, EnginesKept DEF Once!Reject

\* A step of one call, its caller's or its servicer's, is a step of the abstract
\* call or none.
LEMMA CallerRefines ==
  ASSUME UnaryInv, NEW c \in Calls, Refuse(c) \/ Answer(c) \/ DeadlinePasses(c) \/ GiveUp(c)
  PROVE  [Once!CallNext]_(Once!callVars)
<1> USE DEF Once!CallNext, Once!callVars
<1>0. TypeOK /\ Progress(c) /\ Failure(c)
  BY DEF UnaryInv, FailureHasCause
<1>1. CASE Refuse(c)
  <2>1. /\ caller[c] = "start" /\ Refusal(c) # "none" /\ End(c, Refusal(c))
        /\ UNCHANGED <<route, reply, engine, made>>
    BY <1>1 DEF Refuse, request, server
  <2>2. engine[c] = "off"
    BY <1>0, <2>1 DEF Progress
  <2>3. input[c] \in InputsOf(route[c])
    BY <1>0 DEF Progress
  <2>4. route[c] # "healthz"
    BY <2>1, <2>3 DEF InputsOf, Refusal, Rest, Library
  <2>5. Refusal(c) \in {"422", "500", "RuntimeError", "ValueError"}
    BY <2>1 DEF Refusal
  <2>6. CASE Refusal(c) = "500"
    <3>1. Ended(Refusal(c)) = "failed"
      BY <2>6 DEF Ended, Refusals
    <3> QED
      BY <1>0, <2>1, <2>4, <3>1, EndsFailed
  <2>7. CASE Refusal(c) # "500"
    <3>1. Ended(Refusal(c)) = "refused"
      BY <2>5, <2>7 DEF Ended, Refusals
    <3> QED
      BY <1>0, <2>1, <2>2, <2>4, <3>1, EndsRefused
  <2> QED
    BY <2>6, <2>7
<1>2. CASE Answer(c)
  <2> DEFINE a == AnswerOf(route[c], rpc[c])
  <2>1. /\ caller[c] = "waiting" /\ rpc[c] \in Statuses /\ End(c, a)
        /\ UNCHANGED <<route, reply, engine, made>>
    BY <1>2 DEF Answer, request, server
  <2>2. CASE route[c] = "healthz"
    BY <1>0, <2>1, <2>2, ProbeEnds, EnginesKept
  <2>3. CASE route[c] # "healthz" /\ rpc[c] = "OK"
    <3>1. Ended(a) = "text"
      BY <2>3 DEF Ended, AnswerOf, HttpStatus
    <3>2. WholeText(c)
      BY <1>0, <2>3 DEF Progress
    <3>3. c \in Whole /\ reply[c] = made[c] /\ made[c] > 0
      BY <3>2 DEF WholeText, Whole
    <3> HIDE DEF a
    <3>4. /\ Outcomes[c] = "open"
          /\ Outcomes' = [Outcomes EXCEPT ![c] = "text"]
          /\ Handed' = [Handed EXCEPT ![c] = made[c]]
      BY <1>0, <2>1, <2>3, <3>1, <3>3, OneEnds
    <3>5. Once!Succeed(c)
      BY <2>1, <3>3, <3>4, EnginesKept DEF Once!Succeed
    <3> QED
      BY <3>5
  <2>4. CASE route[c] # "healthz" /\ rpc[c] = "INVALID_ARGUMENT"
    <3>1. Ended(a) = "refused"
      BY <2>4 DEF Ended, Refusals, AnswerOf, HttpStatus
    <3>2. engine[c] = "off"
      BY <1>0, <2>4 DEF Progress
    <3> HIDE DEF a
    <3> QED
      BY <1>0, <2>1, <2>4, <3>1, <3>2, EndsRefused
  <2>5. CASE route[c] # "healthz" /\ rpc[c] \in {"UNKNOWN", "UNAVAILABLE"}
    <3>1. Ended(a) = "failed"
      BY <2>5 DEF Ended, Refusals, AnswerOf, HttpStatus
    <3> HIDE DEF a
    <3> QED
      BY <1>0, <2>1, <2>5, <3>1, EndsFailed
  <2> QED
    BY <2>1, <2>2, <2>3, <2>4, <2>5 DEF Statuses
<1>3. CASE DeadlinePasses(c)
  <2> DEFINE a == AnswerOf(route[c], "DEADLINE_EXCEEDED")
  <2>1. caller[c] = "waiting" /\ End(c, a) /\ UNCHANGED <<route, reply, engine, made>>
    BY <1>3 DEF DeadlinePasses, request, server
  <2>2. CASE route[c] = "healthz"
    BY <1>0, <2>1, <2>2, ProbeEnds, EnginesKept
  <2>3. CASE route[c] # "healthz"
    <3>1. Ended(a) = "failed"
      BY <2>3 DEF Ended, Refusals, AnswerOf, HttpStatus
    <3> HIDE DEF a
    <3> QED
      BY <1>0, <2>1, <2>3, <3>1, EndsFailed
  <2> QED
    BY <2>2, <2>3
<1>4. CASE GiveUp(c)
  <2>1. /\ caller[c] = "waiting" /\ End(c, "CancelledError") /\ route[c] # "healthz"
        /\ UNCHANGED <<route, reply, engine, made>>
    BY <1>4 DEF GiveUp, request, server, Library
  <2>2. Ended("CancelledError") = "failed"
    BY DEF Ended, Refusals
  <2> QED
    BY <1>0, <2>1, <2>2, EndsFailed
<1> QED
  BY <1>1, <1>2, <1>3, <1>4

\* What the frontend does for one call.
LEMMA ServerRefines ==
  ASSUME UnaryInv, NEW c \in Calls, NEW how \in {"finished", "raised"},
         Handle(c) \/ Output(c) \/ EngineEnds(c, how) \/ Return(c)
  PROVE  [Once!CallNext]_(Once!callVars)
<1> USE DEF Once!CallNext, Once!callVars
<1>0. TypeOK /\ Progress(c) /\ Success(c)
  BY DEF UnaryInv, SuccessIsWhole
<1>a. engine \in [Calls -> {"off", "running", "finished", "raised", "stopped"}]
  BY <1>0 DEF TypeOK
<1>1. CASE Handle(c)
  <2>1. /\ caller[c] = "waiting" /\ rpc[c] = "none" /\ UNCHANGED made
        /\ Outcomes' = Outcomes /\ Handed' = Handed
        /\ engine' = engine \/ engine' = [engine EXCEPT ![c] = "running"]
    BY <1>1, CallersKept DEF Handle, Engine, request
  <2>2. CASE engine' = engine
    BY <2>1, <2>2, EnginesKept
  <2>3. CASE engine' = [engine EXCEPT ![c] = "running"]
    <3>1. engine[c] = "off"
      BY <1>0, <2>1 DEF Progress
    <3>2. c \notin Asked /\ Asked' = Asked \cup {c} /\ Whole' = Whole
      BY <1>a, <2>3, <3>1 DEF Asked, Whole
    <3>3. Outcome(c) # "refused"
      BY <2>1 DEF Outcome
    <3>4. Outcomes[c] # "refused"
      BY <3>3 DEF Outcomes
    <3> QED
      BY <2>1, <3>2, <3>4 DEF Once!Ask
  <2> QED
    BY <2>1, <2>2, <2>3
<1>2. CASE Output(c)
  <2>1. /\ engine[c] = "running" /\ made' = [made EXCEPT ![c] = @ + 1] /\ engine' = engine
        /\ Outcomes' = Outcomes /\ Handed' = Handed
    BY <1>2, CallersKept DEF Output, request
  <2>2. c \in Asked /\ c \notin Whole
    BY <2>1 DEF Asked, Whole
  <2> QED
    BY <2>1, <2>2, EnginesKept DEF Once!Work
<1>3. CASE EngineEnds(c, how)
  <2>1. /\ engine[c] = "running" /\ engine' = [engine EXCEPT ![c] = how] /\ made' = made
        /\ Outcomes' = Outcomes /\ Handed' = Handed
    BY <1>3, CallersKept DEF EngineEnds, Engine, request
  <2>2. c \in Asked /\ c \notin Whole /\ Asked' = Asked
    BY <1>a, <2>1 DEF Asked, Whole
  <2>3. CASE how = "finished"
    <3>1. Whole' = Whole \cup {c}
      BY <1>a, <2>1, <2>3 DEF Whole
    <3> QED
      BY <2>1, <2>2, <3>1 DEF Once!Complete
  <2>4. CASE how = "raised"
    <3>1. Whole' = Whole
      BY <1>a, <2>1, <2>4 DEF Whole
    <3> QED
      BY <2>1, <2>2, <3>1
  <2> QED
    BY <2>3, <2>4
<1>4. CASE Return(c)
  <2>1. /\ made' = made /\ engine' = engine /\ reply' = [reply EXCEPT ![c] = made[c]]
        /\ UNCHANGED <<route, caller, answer>>
    BY <1>4 DEF Return, request
  <2>2. Outcomes' = Outcomes /\ \A d \in Calls : Outcome(d)' = Outcome(d)
    BY <2>1, CallersKept DEF Outcome
  <2>3. Outcome(c) = "text" => reply[c] = made[c]
    BY <1>0 DEF Outcome, Ended, Success, WholeText
  <2>4. \A d \in Calls : Got(d)' = Got(d)
    BY <1>0, <2>1, <2>2, <2>3 DEF Got, TypeOK
  <2>5. Handed' = Handed
    BY <2>4 DEF Handed
  <2> QED
    BY <2>1, <2>2, <2>5, EnginesKept
<1> QED
  BY <1>1, <1>2, <1>3, <1>4

\* Closing the channel fails all the calls that wait on it, at once.
LEMMA LeaveRefines == UnaryInv /\ Leave => [Once!CallNext]_(Once!callVars)
<1> SUFFICES ASSUME UnaryInv, Leave PROVE [Once!CallNext]_(Once!callVars)
  OBVIOUS
<1> DEFINE ours == {c \in Calls : route[c] \in Library /\ caller[c] = "waiting"}
<1>1. /\ caller' = [c \in Calls |-> IF c \in ours THEN "ended" ELSE caller[c]]
      /\ answer' = [c \in Calls |-> IF c \in ours THEN "CancelledError" ELSE answer[c]]
      /\ UNCHANGED <<route, reply, engine, made>>
  BY DEF Leave, request, server
<1>2. \A c \in ours : route[c] # "healthz" /\ caller[c] # "ended"
  BY DEF Library
<1>3. ASSUME NEW c \in ours
      PROVE  Outcome(c) = "open" /\ Outcome(c)' = "failed" /\ Got(c)' = Got(c)
  <2>1. caller'[c] = "ended" /\ answer'[c] = "CancelledError"
    BY <1>1
  <2>2. Outcome(c) = "open" /\ Outcome(c)' = "failed"
    BY <1>1, <1>2, <2>1 DEF Outcome, Ended, Refusals
  <2> QED
    BY <2>2 DEF Got
<1>4. ASSUME NEW c \in Calls \ ours PROVE Outcome(c)' = Outcome(c) /\ Got(c)' = Got(c)
  <2>1. caller'[c] = caller[c] /\ answer'[c] = answer[c]
    BY <1>1
  <2> QED
    BY <1>1, <2>1 DEF Outcome, Got
<1> HIDE DEF ours
<1>5. ours \in SUBSET Calls
  BY DEF ours
<1>6. \A c \in ours : Outcomes[c] = "open"
  BY <1>3, <1>5 DEF Outcomes
<1>7. Outcomes' = [c \in Calls |-> IF c \in ours THEN "failed" ELSE Outcomes[c]]
  <2>1. \A c \in Calls : Outcome(c)' = IF c \in ours THEN "failed" ELSE Outcomes[c]
    BY <1>3, <1>4, <1>5 DEF Outcomes
  <2> QED
    BY <2>1 DEF Outcomes
<1>8. Handed' = Handed
  BY <1>3, <1>4 DEF Handed
<1>9. Once!Fail(ours)
  BY <1>1, <1>6, <1>7, <1>8, EnginesKept DEF Once!Fail
<1> QED
  BY <1>5, <1>9 DEF Once!CallNext

\* The steps that no caller and no engine's work depend on.
LEMMA RestStutters ==
  ASSUME UnaryInv, NEW c \in Calls,
         \/ Call(c) \/ Unreachable(c) \/ HandlerRaises(c) \/ ServerLearns(c)
         \/ AbortGeneration(c) \/ Enter \/ LoadEngine \/ Listen \/ Crash \/ UNCHANGED vars
  PROVE  UNCHANGED Once!callVars
<1> USE DEF Once!callVars
<1>0. TypeOK /\ Progress(c)
  BY DEF UnaryInv
<1>a. engine \in [Calls -> {"off", "running", "finished", "raised", "stopped"}]
  BY <1>0 DEF TypeOK
<1>1. CASE Call(c)
  <2>1. /\ caller[c] = "start" /\ caller' = [caller EXCEPT ![c] = "waiting"]
        /\ UNCHANGED <<route, answer, reply, engine, made>>
    BY <1>1 DEF Call, request, server
  <2>2. \A d \in Calls : caller'[d] = "ended" <=> caller[d] = "ended"
    BY <1>0, <2>1 DEF TypeOK
  <2>3. \A d \in Calls : Outcome(d)' = Outcome(d) /\ Got(d)' = Got(d)
    BY <2>1, <2>2 DEF Outcome, Got
  <2>4. Outcomes' = Outcomes /\ Handed' = Handed
    BY <2>3 DEF Outcomes, Handed
  <2> QED
    BY <2>1, <2>4, EnginesKept
<1>2. CASE Unreachable(c) \/ HandlerRaises(c) \/ ServerLearns(c) \/ Enter \/ LoadEngine \/ Listen
  BY <1>2, CallersKept, EnginesKept
     DEF Unreachable, HandlerRaises, ServerLearns, Enter, LoadEngine, Listen, request, server
<1>3. CASE AbortGeneration(c)
  <2>1. /\ engine[c] = "running" /\ engine' = [engine EXCEPT ![c] = "stopped"]
        /\ UNCHANGED <<route, caller, answer, reply, made>>
    BY <1>3 DEF AbortGeneration, Engine, request
  <2>2. Asked' = Asked /\ Whole' = Whole
    BY <1>a, <2>1 DEF Asked, Whole
  <2> QED
    BY <2>1, <2>2, CallersKept
<1>4. CASE Crash
  <2>1. /\ engine' = [d \in Calls |-> IF engine[d] = "running" THEN "stopped" ELSE engine[d]]
        /\ UNCHANGED <<route, caller, answer, reply, made>>
    BY <1>4 DEF Crash, request
  <2>2. Asked' = Asked /\ Whole' = Whole
    BY <1>a, <2>1 DEF Asked, Whole
  <2> QED
    BY <2>1, <2>2, CallersKept
<1>5. CASE UNCHANGED vars
  BY <1>5, CallersKept, EnginesKept DEF vars, request, server
<1> QED
  BY <1>1, <1>2, <1>3, <1>4, <1>5

\* Unary calls implement calls that are worked on and answered at most once.
THEOREM UnaryImplementsCall == Spec => ImplementsCall
<1>1. Init => Once!CallInit
  <2> SUFFICES ASSUME Init PROVE Once!CallInit
    OBVIOUS
  <2>1. Asked = {} /\ Whole = {}
    BY DEF Init, Asked, Whole
  <2>2. \A c \in Calls : Outcome(c) \in {"open", "no_text"} /\ Got(c) = 0
    BY DEF Init, Outcome, Got
  <2>3. Outcomes \in [Calls -> {"open", "no_text"}] /\ Handed = [c \in Calls |-> 0]
    BY <2>2 DEF Outcomes, Handed
  <2> QED
    BY <2>1, <2>3 DEF Init, Once!CallInit
<1>2. UnaryInv /\ [Next]_vars => [Once!CallNext]_(Once!callVars)
  <2> SUFFICES ASSUME UnaryInv, [Next]_vars PROVE [Once!CallNext]_(Once!callVars)
    OBVIOUS
  <2>1. ASSUME NEW c \in Calls, Caller(c) \/ DeadlinePasses(c) \/ GiveUp(c)
        PROVE  [Once!CallNext]_(Once!callVars)
    BY <2>1, CallerRefines, RestStutters DEF Caller
  <2>2. ASSUME NEW c \in Calls, Servicer(c) \/ EngineStep(c)
        PROVE  [Once!CallNext]_(Once!callVars)
    BY <2>2, ServerRefines, RestStutters DEF Servicer, EngineStep
  <2>3. CASE Leave
    BY <2>3, LeaveRefines
  <2>4. CASE Enter \/ LoadEngine \/ Listen \/ Crash \/ UNCHANGED vars
    <3>1. CASE Calls = {}
      <4>1. Outcomes' = Outcomes /\ Handed' = Handed /\ Asked' = Asked /\ Whole' = Whole
        BY <3>1 DEF Outcomes, Handed, Asked, Whole
      <4>2. made' = made
        BY <2>4 DEF Enter, LoadEngine, Listen, Crash, vars, server
      <4> QED
        BY <4>1, <4>2 DEF Once!callVars
    <3>2. CASE Calls # {}
      <4>1. PICK c \in Calls : TRUE
        BY <3>2
      <4> QED
        BY <2>4, <4>1, RestStutters
    <3> QED
      BY <3>1, <3>2
  <2> QED
    BY <2>1, <2>2, <2>3, <2>4 DEF Next
<1> QED
  BY <1>1, <1>2, UnaryInvariant, PTL DEF Spec, ImplementsCall, Once!CallSpec

----------------------------------------------------------------------------
(* The variant of a call.                                                  *)

LEMMA LeftFacts ==
  ASSUME TypeOK, NEW c \in Calls
  PROVE  CallerLeft(c) \in 0 .. 2 /\ ServicerLeft(c) \in 0 .. 4
  BY DEF CallerLeft, ServicerLeft

\* A call of which neither side changes has as much left as before.
LEMMA LeftKept ==
  ASSUME NEW c \in Calls
  PROVE  /\ caller'[c] = caller[c] => CallerLeft(c)' <= CallerLeft(c)
         /\ rpc'[c] = rpc[c] /\ engine'[c] = engine[c] =>
              ServicerLeft(c)' <= ServicerLeft(c)
  BY DEF CallerLeft, ServicerLeft

\* One side of a call moves on.
LEMMA LeftAdds ==
  ASSUME TypeOK, TypeOK', NEW c \in Calls,
         CallerLeft(c)' <= CallerLeft(c), ServicerLeft(c)' <= ServicerLeft(c)
  PROVE  /\ Left(c)' <= Left(c)
         /\ \/ CallerLeft(c)' < CallerLeft(c)
            \/ ServicerLeft(c)' < ServicerLeft(c)
            => Left(c)' < Left(c)
<1>1. /\ CallerLeft(c) \in Nat /\ ServicerLeft(c) \in Nat
  BY LeftFacts
<1>2. (CallerLeft(c) \in 0 .. 2 /\ ServicerLeft(c) \in 0 .. 4)'
  BY DEF CallerLeft, ServicerLeft, TypeOK
<1> QED
  BY <1>1, <1>2 DEF Left

LEMMA CallerMovesOn ==
  ASSUME TypeOK, NEW c \in Calls, Caller(c) \/ DeadlinePasses(c) \/ GiveUp(c)
  PROVE  /\ CallerLeft(c)' < CallerLeft(c) /\ CallerLeft(c)' <= CallerLeft(c)
         /\ UNCHANGED <<rpc, engine>>
         /\ \A d \in Calls \ {c} : caller'[d] = caller[d]
  BY DEF Caller, Refuse, Call, Answer, DeadlinePasses, GiveUp, End, CallerLeft, TypeOK, server

LEMMA ServicerMovesOn ==
  ASSUME UnaryInv, UnaryInv', NEW c \in Calls, Servicer(c)
  PROVE  /\ ServicerLeft(c)' < ServicerLeft(c) /\ ServicerLeft(c)' <= ServicerLeft(c)
         /\ UNCHANGED caller
         /\ \A d \in Calls \ {c} : rpc'[d] = rpc[d] /\ engine'[d] = engine[d]
<1>1. TypeOK /\ TypeOK' /\ Progress(c)
  BY DEF UnaryInv
<1>2. CASE Unreachable(c)
  BY <1>1, <1>2 DEF Unreachable, Status, ServicerLeft, TypeOK
<1>3. CASE Handle(c)
  <2>1. /\ rpc[c] = "none" /\ rpc' = [rpc EXCEPT ![c] = Outset(c)]
        /\ UNCHANGED caller
        /\ engine' = engine \/ engine' = [engine EXCEPT ![c] = "running"]
    BY <1>3 DEF Handle, Status, Engine
  <2>2. Outset(c) \in {"active"} \cup Statuses
    BY DEF Outset, Statuses
  <2>3. rpc'[c] \in {"active"} \cup Statuses
    BY <1>1, <2>1, <2>2 DEF TypeOK
  <2>4. ServicerLeft(c)' < ServicerLeft(c) /\ ServicerLeft(c)' <= ServicerLeft(c)
    BY <2>1, <2>3 DEF ServicerLeft, Statuses
  <2> QED
    BY <1>1, <2>1, <2>4 DEF TypeOK
<1>4. CASE Return(c) \/ HandlerRaises(c)
  <2>1. /\ rpc[c] = "active" /\ UNCHANGED <<caller, engine>>
        /\ \E s \in {"UNKNOWN", "OK"} : rpc' = [rpc EXCEPT ![c] = s]
    BY <1>4 DEF Return, HandlerRaises, Status
  <2> QED
    BY <1>1, <2>1 DEF ServicerLeft, TypeOK
<1>5. CASE ServerLearns(c)
  BY <1>1, <1>5 DEF ServerLearns, Status, ServicerLeft, TypeOK
<1>6. CASE AbortGeneration(c)
  BY <1>1, <1>6 DEF AbortGeneration, Engine, ServicerLeft, TypeOK
<1> QED
  BY <1>2, <1>3, <1>4, <1>5, <1>6 DEF Servicer

\* What the calls share, and the engine, takes none of them back.
LEMMA NothingGoesBack ==
  ASSUME TypeOK, NEW d \in Calls,
         \/ \E c \in Calls : EngineStep(c)
         \/ Enter \/ Leave \/ LoadEngine \/ Listen \/ Crash
  PROVE  CallerLeft(d)' <= CallerLeft(d) /\ ServicerLeft(d)' <= ServicerLeft(d)
<1>0. CallerLeft(d) \in Nat /\ ServicerLeft(d) \in Nat
  BY LeftFacts
<1>1. CASE \E c \in Calls : Output(c)
  BY <1>0, <1>1, LeftKept DEF Output
<1>2. CASE Enter \/ LoadEngine \/ Listen
  BY <1>0, <1>2, LeftKept DEF Enter, LoadEngine, Listen, server
<1>3. ASSUME NEW c \in Calls, NEW how \in {"finished", "raised"}, EngineEnds(c, how)
      PROVE  CallerLeft(d)' <= CallerLeft(d) /\ ServicerLeft(d)' <= ServicerLeft(d)
  <2>1. /\ UNCHANGED <<caller, rpc>>
        /\ engine'[d] = "running" => engine[d] = "running"
    BY <1>3 DEF EngineEnds, Engine, TypeOK
  <2> QED
    BY <2>1 DEF CallerLeft, ServicerLeft
<1>4. CASE Leave
  <2>1. /\ UNCHANGED <<rpc, engine>>
        /\ caller'[d] = caller[d] \/ caller'[d] = "ended"
    BY <1>4 DEF Leave, server
  <2> QED
    BY <2>1 DEF CallerLeft, ServicerLeft
<1>5. CASE Crash
  <2>1. /\ UNCHANGED caller
        /\ engine'[d] = "running" => engine[d] = "running"
        /\ \/ rpc'[d] = rpc[d]
           \/ rpc'[d] = "UNAVAILABLE"
    BY <1>5 DEF Crash
  <2> QED
    BY <2>1 DEF CallerLeft, ServicerLeft
<1> QED
  BY <1>1, <1>2, <1>3, <1>4, <1>5 DEF EngineStep

\* Neither side of any call ever starts over, whatever the other calls do.
THEOREM CallsAlwaysSettle == Spec => CallsSettle
<1>1. ASSUME UnaryInv, UnaryInv', Next, NEW d \in Calls
      PROVE  /\ Left(d)' <= Left(d)
             /\ Caller(d) \/ Servicer(d) \/ DeadlinePasses(d) \/ GiveUp(d) => Left(d)' < Left(d)
  <2>1. TypeOK /\ TypeOK' /\ CallerLeft(d) \in Nat /\ ServicerLeft(d) \in Nat
    BY <1>1, LeftFacts DEF UnaryInv
  <2>2. Caller(d) \/ DeadlinePasses(d) \/ GiveUp(d) => Left(d)' < Left(d)
    BY <2>1, CallerMovesOn, LeftKept, LeftAdds
  <2>3. Servicer(d) => Left(d)' < Left(d)
    BY <1>1, <2>1, ServicerMovesOn, LeftKept, LeftAdds
  <2>4. Left(d)' <= Left(d)
    <3>1. ASSUME NEW c \in Calls, Caller(c) \/ DeadlinePasses(c) \/ GiveUp(c) PROVE Left(d)' <= Left(d)
      BY <2>1, <3>1, CallerMovesOn, LeftKept, LeftAdds
    <3>2. ASSUME NEW c \in Calls, Servicer(c) PROVE Left(d)' <= Left(d)
      BY <1>1, <2>1, <3>2, ServicerMovesOn, LeftKept, LeftAdds
    <3>3. CASE (\E c \in Calls : EngineStep(c)) \/ Enter \/ Leave \/ LoadEngine \/ Listen \/ Crash
      BY <2>1, <3>3, NothingGoesBack, LeftAdds
    <3> QED
      BY <1>1, <3>1, <3>2, <3>3 DEF Next
  <2> QED
    BY <2>2, <2>3, <2>4
<1>2. UnaryInv /\ UnaryInv' /\ [Next]_vars =>
        [\A c \in Calls :
           /\ Left(c)' <= Left(c)
           /\ Caller(c) \/ Servicer(c) \/ DeadlinePasses(c) \/ GiveUp(c) => Left(c)' < Left(c)]_vars
  BY <1>1
<1> QED
  BY <1>2, UnaryInvariant, PTL DEF Spec, CallsSettle
=============================================================================
