------------------------ MODULE StreamBridge_proofs ------------------------
(***************************************************************************)
(* Theorems about StreamBridge, for both endpoints, every window of the    *)
(* transport and every length of the engine's text.                        *)
(***************************************************************************)
EXTENDS StreamBridge, SequenceTheorems, TLAPS

\* Appending one element: the length, and where the elements are.
LEMMA AppendFacts ==
  ASSUME NEW S, NEW s \in Seq(S), NEW x \in S
  PROVE  /\ Append(s, x) \in Seq(S)
         /\ Len(Append(s, x)) = Len(s) + 1
         /\ DOMAIN Append(s, x) = 1 .. Len(s) + 1
         /\ Append(s, x)[Len(s) + 1] = x
         /\ \A i \in 1 .. Len(s) : Append(s, x)[i] = s[i]
         /\ Append(s, x) # <<>>
  OBVIOUS

\* Taking the head off: the rest shifts down by one.
LEMMA HeadTailFacts ==
  ASSUME NEW S, NEW s \in Seq(S), s # <<>>
  PROVE  /\ Head(s) \in S /\ Head(s) = s[1]
         /\ Tail(s) \in Seq(S) /\ Len(Tail(s)) = Len(s) - 1 /\ Len(s) \in Nat \ {0}
         /\ DOMAIN Tail(s) = 1 .. Len(s) - 1
         /\ \A i \in 1 .. Len(s) - 1 : Tail(s)[i] = s[i + 1]
  OBVIOUS

\* The empty sequence, as the provers need it stated.
LEMMA EmptyFacts ==
  ASSUME NEW S
  PROVE  <<>> \in Seq(S) /\ Len(<<>>) = 0 /\ DOMAIN <<>> = {}
  OBVIOUS

\* A piece of text and its continuation.
LEMMA SpanFacts ==
  ASSUME NEW a \in Nat, NEW b \in Nat, a <= b
  PROVE  /\ Span(a, b) \in Seq(Nat) /\ Len(Span(a, b)) = b - a
         /\ Span(0, a) \o Span(a, b) = Span(0, b)
<1>1. Span(a, b) \in Seq(Nat) /\ Len(Span(a, b)) = b - a
  BY DEF Span
<1>2. Span(0, a) \in Seq(Nat) /\ Len(Span(0, a)) = a
  BY DEF Span
<1>3. Span(0, b) \in Seq(Nat) /\ Len(Span(0, b)) = b
  BY DEF Span
<1>4. Len(Span(0, a) \o Span(a, b)) = b
  BY <1>1, <1>2
<1>5. ASSUME NEW i \in 1 .. b
      PROVE  (Span(0, a) \o Span(a, b))[i] = Span(0, b)[i]
  <2>1. CASE i <= a
    BY <2>1, <1>1, <1>2 DEF Span
  <2>2. CASE i > a
    <3>1. (Span(0, a) \o Span(a, b))[i] = Span(a, b)[i - a]
      BY <2>2, <1>1, <1>2
    <3> QED
      BY <3>1, <2>2 DEF Span
  <2>3. i <= a \/ i > a
    OBVIOUS
  <2> QED
    BY <2>1, <2>2, <2>3
<1>6. Span(0, a) \o Span(a, b) \in Seq(Nat)
  BY <1>1, <1>2
<1> DEFINE joined == Span(0, a) \o Span(a, b)
           whole == Span(0, b)
<1>7. /\ joined \in Seq(Nat) /\ whole \in Seq(Nat) /\ Len(joined) = b /\ Len(whole) = b
      /\ \A i \in 1 .. b : joined[i] = whole[i]
  BY <1>3, <1>4, <1>5, <1>6
<1>8. joined = whole
  <2> HIDE DEF joined, whole
  <2> QED
    BY <1>7, SeqEqual
<1> QED
  BY <1>1, <1>8

\* The text told so far, continued by the piece that starts where it ends.
LEMMA SpanOn ==
  ASSUME NEW a \in Nat, NEW b \in Nat, a <= b, NEW t, t = Span(0, a),
         NEW u, u = t \o Span(a, b)
  PROVE  u = Span(0, b) /\ Len(u) = b
<1>1. u = Span(0, b)
  BY SpanFacts, Zenon
<1>2. Len(Span(0, b)) = b
  BY DEF Span
<1> QED
  BY <1>1, <1>2, Zenon

\* A step is one of the actions, or a stutter: the case split of every step lemma.
LEMMA StepCases ==
  ASSUME [Next]_vars
  PROVE  \/ ConversionFails \/ Begin \/ ReadChunk \/ CheckAndYield
         \/ ReadEnd \/ ReadError \/ FinalizeCall
         \/ Accept \/ SendDelta \/ SendFinal \/ QuitInactive \/ IsActiveRaises \/ Return
         \/ HandlerCancelled \/ FinalizeEngine
         \/ EngineRaises \/ EngineExhausted
         \/ (\E n \in 0 .. MaxText, fin \in BOOLEAN : Output(n, fin))
         \/ DeadlinePasses \/ ServerLearns
         \/ ClientTakes \/ FrameworkCancels \/ Disconnect \/ UNCHANGED vars
  BY DEF Next, Proxy, Servicer, Engine

----------------------------------------------------------------------------
(* Initially.                                                              *)
LEMMA InitInv == Init => StreamInv
<1> SUFFICES ASSUME Init PROVE StreamInv
  OBVIOUS
<1> USE StreamAssumption, EmptyFacts DEF Init
<1>1. TypeOK
  <2>1. NoDelta \in Delta /\ NoChunk \in Chunk
    BY DEF NoDelta, Delta, NoChunk, Chunk
  <2>2. <<>> \in Seq(Chunk) /\ <<>> \in Seq(Kinds) /\ <<>> \in Seq(Nat)
    BY EmptyFacts
  <2>3. wire \in Seq(Chunk) /\ Len(wire) <= Window
    <3>1. wire = <<>> /\ Len(<<>>) = 0
      BY EmptyFacts
    <3> QED
      BY <2>2, <3>1
  <2>4. events \in Seq(Kinds) /\ told \in Seq(Nat)
    BY <2>2
  <2>5. made \in 0 .. MaxText /\ prev_text \in Nat /\ token_index \in Nat
    OBVIOUS
  <2>6. out \in Delta /\ trailers \in BOOLEAN /\ chunk \in Chunk
    BY <2>1
  <2> QED
    BY <2>3, <2>4, <2>5, <2>6 DEF TypeOK
<1>2. CallInv /\ ServicerInv /\ ChunkInv /\ WireInv /\ TipInv
  BY DEF CallInv, ServicerInv, ChunkInv, WireInv, TipInv, Reading, NoDelta, Has
<1>3. ToldIsPrefix /\ IndexCountsEvents /\ DoneIsWhole /\ OneTerminator
  BY DEF ToldIsPrefix, IndexCountsEvents, DoneIsWhole, OneTerminator, Has, Span
<1> QED
  BY <1>1, <1>2, <1>3 DEF StreamInv

----------------------------------------------------------------------------
(* Each part of the invariant is preserved.                                *)
LEMMA TypeStep ==
  ASSUME StreamInv, [Next]_vars
  PROVE  TypeOK'
<1> USE StreamAssumption DEF StreamInv, TypeOK, engineVars, servicerVars, proxyVars
<1>0. \A k \in Kinds : Append(events, k) \in Seq(Kinds)
  BY AppendFacts
<1>1. CASE Begin
  <2>1. <<"role">> \in Seq(Kinds)
    BY DEF Kinds
  <2>2. events' \in Seq(Kinds)
    BY <1>1, <2>1 DEF Begin
  <2> QED
    BY <1>1, <2>2 DEF Begin
<1>2. CASE ReadChunk
  BY <1>2, HeadTailFacts DEF ReadChunk
<1>3. CASE CheckAndYield
  <2>1. ppc = "check"
    BY <1>3 DEF CheckAndYield
  <2>2. chunk.from \in Nat /\ chunk.to \in Nat /\ chunk.from <= chunk.to
    BY <2>1 DEF ChunkInv, WellFormed, Chunk
  <2>3. Span(chunk.from, chunk.to) \in Seq(Nat)
    BY <2>2, SpanFacts
  <2>4. told \o Span(chunk.from, chunk.to) \in Seq(Nat)
    BY <2>3
  <2>5. told' \in Seq(Nat)
    BY <1>3, <2>4 DEF CheckAndYield
  <2>6. events' \in Seq(Kinds)
    BY <1>3, <1>0 DEF CheckAndYield, Kinds
  <2>7. /\ ppc' \in {"returned", "yield"}
        /\ UNCHANGED <<endpoint, engineVars, servicerVars, wire, rpc, call, chunk, http>>
    BY <1>3 DEF CheckAndYield
  <2> QED
    BY <2>5, <2>6, <2>7
<1>4. CASE ReadEnd \/ ReadError
  <2>1. events' \in Seq(Kinds)
    BY <1>4, <1>0 DEF ReadEnd, ReadError, Kinds
  <2> QED
    BY <1>4, <2>1 DEF ReadEnd, ReadError
<1>5. CASE \/ ConversionFails \/ FinalizeCall \/ DeadlinePasses \/ ClientTakes
           \/ FrameworkCancels \/ Disconnect
  BY <1>5 DEF ConversionFails, FinalizeCall, DeadlinePasses, ClientTakes, FrameworkCancels,
              Disconnect
<1>6. CASE ServerLearns
  BY <1>6, EmptyFacts DEF ServerLearns
<1>7. CASE Accept \/ QuitInactive \/ IsActiveRaises \/ Return \/ HandlerCancelled
           \/ FinalizeEngine \/ EngineRaises \/ EngineExhausted
  BY <1>7 DEF Accept, QuitInactive, IsActiveRaises, Return, HandlerCancelled, FinalizeEngine,
              EngineRaises, EngineExhausted
<1>8. CASE SendDelta \/ SendFinal
  <2>1. ASSUME NEW x \in Chunk, Len(wire) < Window
        PROVE  Append(wire, x) \in Seq(Chunk) /\ Len(Append(wire, x)) <= Window
    BY <2>1, AppendFacts
  <2>2. CASE SendDelta
    <3>1. [from |-> out.from, to |-> out.to, finish |-> FALSE, index |-> token_index] \in Chunk
      BY DEF Chunk, Delta
    <3> QED
      BY <2>2, <2>1, <3>1 DEF SendDelta, MayWrite
  <2>3. CASE SendFinal
    <3>1. [from |-> made, to |-> made, finish |-> TRUE, index |-> token_index] \in Chunk
      BY DEF Chunk
    <3> QED
      BY <2>3, <2>1, <3>1 DEF SendFinal, MayWrite
  <2> QED
    BY <1>8, <2>2, <2>3
<1>9. ASSUME NEW n \in 0 .. MaxText, NEW fin \in BOOLEAN, Output(n, fin)
      PROVE  TypeOK'
  BY <1>9 DEF Output, Delta
<1>10. CASE UNCHANGED vars
  BY <1>10 DEF vars
<1> QED
  BY <1>1, <1>2, <1>3, <1>4, <1>5, <1>6, <1>7, <1>8, <1>9, <1>10, StepCases

\* The proxy's place and the state of its call stay in agreement.
LEMMA CallStep ==
  ASSUME StreamInv, [Next]_vars
  PROVE  CallInv'
<1> USE DEF StreamInv, TypeOK, CallInv, Reading, RoleEvents, engineVars, servicerVars, proxyVars
<1>0. ASSUME rpc' = "none", events' = events PROVE ~Has("finish")'
  BY <1>0, StepCases DEF Has, Accept, ServerLearns, EngineRaises, IsActiveRaises, Return,
     ReadEnd, ReadError, CheckAndYield, Begin, ReadChunk, FinalizeCall, SendDelta, SendFinal,
     QuitInactive, HandlerCancelled, FinalizeEngine, EngineExhausted, Output, DeadlinePasses,
     ClientTakes, FrameworkCancels, Disconnect, ConversionFails, vars
<1>1. CASE Begin
  <2>1. rpc = "none" => ~Has("finish")'
    BY <1>1 DEF Begin, Has
  <2> QED
    BY <1>1, <2>1 DEF Begin
<1>2. CASE ReadChunk \/ CheckAndYield
  BY <1>0, <1>2 DEF ReadChunk, CheckAndYield
<1>3. CASE ReadEnd \/ ReadError
  <2>1. rpc = "none" => events' = Append(events, "error")
    BY <1>3 DEF ReadEnd, CallEndedOk, ReadError
  <2>2. rpc = "none" => ~Has("finish")'
    BY <2>1, AppendFacts DEF Has, Kinds
  <2> QED
    BY <1>3, <2>2 DEF ReadEnd, ReadError
<1>4. CASE \/ ConversionFails \/ FinalizeCall \/ DeadlinePasses \/ ClientTakes
           \/ FrameworkCancels \/ Disconnect
  BY <1>0, <1>4 DEF ConversionFails, FinalizeCall, DeadlinePasses, ClientTakes, FrameworkCancels,
              Disconnect
<1>5. CASE ServerLearns
  BY <1>0, <1>5, ServicerInv DEF ServerLearns
<1>6. CASE Accept \/ QuitInactive \/ IsActiveRaises \/ Return \/ HandlerCancelled
           \/ FinalizeEngine \/ EngineRaises \/ EngineExhausted
  BY <1>0, <1>6 DEF Accept, QuitInactive, IsActiveRaises, Return, HandlerCancelled, FinalizeEngine,
              EngineRaises, EngineExhausted
<1>7. CASE SendDelta \/ SendFinal
  BY <1>0, <1>7 DEF SendDelta, SendFinal, MayWrite
<1>8. ASSUME NEW n \in 0 .. MaxText, NEW fin \in BOOLEAN, Output(n, fin)
      PROVE  CallInv'
  BY <1>0, <1>8 DEF Output
<1>9. CASE UNCHANGED vars
  BY <1>0, <1>9 DEF vars
<1> QED
  BY <1>1, <1>2, <1>3, <1>4, <1>5, <1>6, <1>7, <1>8, <1>9, StepCases

\* The servicer's place, its delta and the engine stay in agreement.
LEMMA ServicerStep ==
  ASSUME StreamInv, [Next]_vars
  PROVE  ServicerInv'
<1> USE DEF StreamInv, TypeOK, ServicerInv, EndedItself, CallInv, engineVars, servicerVars,
            proxyVars
<1>1. CASE Begin \/ ReadChunk \/ CheckAndYield \/ ReadEnd \/ ReadError
  BY <1>1 DEF Begin, ReadChunk, CheckAndYield, ReadEnd, ReadError
<1>2. CASE ConversionFails \/ FinalizeCall \/ DeadlinePasses \/ ClientTakes
           \/ FrameworkCancels \/ Disconnect \/ ServerLearns
  BY <1>2 DEF ConversionFails, FinalizeCall, DeadlinePasses, ClientTakes, FrameworkCancels,
              Disconnect, ServerLearns
<1>3. CASE Accept \/ QuitInactive \/ IsActiveRaises \/ Return \/ HandlerCancelled
           \/ FinalizeEngine \/ EngineRaises \/ EngineExhausted
  BY <1>3 DEF Accept, QuitInactive, Inactive, IsActiveRaises, Return, HandlerCancelled,
              FinalizeEngine, EngineRaises, EngineExhausted
<1>4. CASE SendDelta \/ SendFinal
  BY <1>4 DEF SendDelta, SendFinal, MayWrite
<1>5. ASSUME NEW n \in 0 .. MaxText, NEW fin \in BOOLEAN, Output(n, fin)
      PROVE  ServicerInv'
  BY <1>5 DEF Output
<1>6. CASE UNCHANGED vars
  BY <1>6 DEF vars
<1> QED
  BY <1>1, <1>2, <1>3, <1>4, <1>5, <1>6, StepCases


\* A chunk that was read continues what the client was told.
LEMMA ChunkStep ==
  ASSUME StreamInv, [Next]_vars
  PROVE  ChunkInv'
<1> USE DEF StreamInv, ChunkInv, WellFormed, engineVars, servicerVars, proxyVars
<1>1. CASE ReadChunk
  <2>1. Reading /\ Reached = Len(told) /\ wire # <<>> /\ wire \in Seq(Chunk)
    BY <1>1 DEF ReadChunk, Reading, Reached, TypeOK
  <2>2. 1 \in DOMAIN wire /\ Head(wire) = wire[1]
    BY <2>1, HeadTailFacts
  <2>3. wire[1].from = Len(told) /\ WellFormed(wire[1])
    BY <2>1, <2>2 DEF WireInv
  <2> QED
    BY <1>1, <2>2, <2>3 DEF ReadChunk
<1>2. CASE Begin \/ CheckAndYield \/ ReadEnd \/ ReadError
  BY <1>2 DEF Begin, CheckAndYield, ReadEnd, ReadError
<1>3. CASE ConversionFails \/ FinalizeCall \/ DeadlinePasses \/ ClientTakes
           \/ FrameworkCancels \/ Disconnect \/ ServerLearns
  BY <1>3 DEF ConversionFails, FinalizeCall, DeadlinePasses, ClientTakes, FrameworkCancels,
              Disconnect, ServerLearns
<1>4. CASE Accept \/ QuitInactive \/ IsActiveRaises \/ Return \/ HandlerCancelled
           \/ FinalizeEngine \/ EngineRaises \/ EngineExhausted
  BY <1>4 DEF Accept, QuitInactive, IsActiveRaises, Return, HandlerCancelled, FinalizeEngine,
              EngineRaises, EngineExhausted
<1>5. CASE SendDelta \/ SendFinal
  BY <1>5 DEF SendDelta, SendFinal
<1>6. ASSUME NEW n \in 0 .. MaxText, NEW fin \in BOOLEAN, Output(n, fin)
      PROVE  ChunkInv'
  BY <1>6 DEF Output, TypeOK, Chunk
<1>7. CASE UNCHANGED vars
  BY <1>7 DEF vars
<1> QED
  BY <1>1, <1>2, <1>3, <1>4, <1>5, <1>6, <1>7, StepCases

\* Yielding the chunk at hand extends the told text by what the engine made
\* next, so it stays a prefix (_stream_sse).
LEMMA ToldStep ==
  ASSUME StreamInv, [Next]_vars
  PROVE  ToldIsPrefix'
<1> USE DEF StreamInv, ToldIsPrefix, engineVars, servicerVars, proxyVars
<1>1. CASE CheckAndYield
  <2>0. ppc = "check" /\ chunk \in Chunk /\ chunk.finish \in BOOLEAN /\ made' = made
    BY <1>1 DEF CheckAndYield, TypeOK, Chunk
  <2>1. \/ told' = told
        \/ told' = told \o Span(chunk.from, chunk.to) /\ ~chunk.finish
    BY <1>1, <2>0 DEF CheckAndYield
  <2>2. /\ chunk.from = Len(told) /\ chunk.from \in Nat /\ chunk.to \in Nat
        /\ ~chunk.finish => chunk.from <= chunk.to
        /\ chunk.to <= made
    BY <2>0 DEF ChunkInv, WellFormed, Chunk
  <2>3. CASE told' = told
    BY <2>0, <2>3 DEF Span
  <2>4. CASE told' = told \o Span(chunk.from, chunk.to) /\ ~chunk.finish
    <3>1. told = Span(0, chunk.from) /\ chunk.from <= chunk.to
      BY <2>2, <2>4
    <3>2. told' = Span(0, chunk.to) /\ Len(told') = chunk.to
      <4> DEFINE a == chunk.from
                 b == chunk.to
      <4>1. a \in Nat /\ b \in Nat /\ a <= b /\ told = Span(0, a) /\ told' = told \o Span(a, b)
        BY <3>1, <2>2, <2>4
      <4> HIDE DEF a, b, ToldIsPrefix, StreamInv
      <4>2. told' = Span(0, b) /\ Len(told') = b
        BY <4>1, SpanOn
      <4> QED
        BY <4>2 DEF b
    <3> QED
      BY <3>2, <2>0, <2>2
  <2> QED
    BY <2>1, <2>3, <2>4
<1>2. CASE Begin \/ ReadChunk \/ ReadEnd \/ ReadError
  BY <1>2 DEF Begin, ReadChunk, ReadEnd, ReadError, Span
<1>3. CASE ConversionFails \/ FinalizeCall \/ DeadlinePasses \/ ClientTakes
           \/ FrameworkCancels \/ Disconnect \/ ServerLearns
  BY <1>3 DEF ConversionFails, FinalizeCall, DeadlinePasses, ClientTakes, FrameworkCancels,
              Disconnect, ServerLearns, Span
<1>4. CASE Accept \/ QuitInactive \/ IsActiveRaises \/ Return \/ HandlerCancelled
           \/ FinalizeEngine \/ EngineRaises \/ EngineExhausted
  BY <1>4 DEF Accept, QuitInactive, IsActiveRaises, Return, HandlerCancelled, FinalizeEngine,
              EngineRaises, EngineExhausted, Span
<1>5. CASE SendDelta \/ SendFinal
  BY <1>5 DEF SendDelta, SendFinal, Span
<1>6. ASSUME NEW n \in 0 .. MaxText, NEW fin \in BOOLEAN, Output(n, fin)
      PROVE  ToldIsPrefix'
  <2>1. told' = told /\ made' = made + n /\ Len(told) \in Nat /\ made \in Nat /\ n \in Nat
    BY <1>6 DEF Output, TypeOK
  <2> QED
    BY <2>1 DEF Span
<1>7. CASE UNCHANGED vars
  BY <1>7 DEF vars, Span
<1> QED
  BY <1>1, <1>2, <1>3, <1>4, <1>5, <1>6, <1>7, StepCases

\* The chunk read next carries the index of the event it becomes.
LEMMA IndexStep ==
  ASSUME StreamInv, [Next]_vars
  PROVE  IndexCountsEvents'
<1> USE DEF StreamInv, IndexCountsEvents, RoleEvents, engineVars, servicerVars, proxyVars
<1>1. CASE ReadChunk
  <2>1. Reading /\ ReadSoFar = Len(events) /\ wire # <<>> /\ wire \in Seq(Chunk)
    BY <1>1 DEF ReadChunk, Reading, ReadSoFar, TypeOK
  <2>2. 1 \in DOMAIN wire /\ Head(wire) = wire[1] /\ wire[1] \in Chunk
    BY <2>1, HeadTailFacts
  <2>3. wire[1].index + RoleEvents = Len(events) + (1 - 1)
    BY <2>1, <2>2 DEF WireInv
  <2>4. wire[1].index + RoleEvents = Len(events)
    BY <2>3 DEF TypeOK
  <2> QED
    BY <1>1, <2>2, <2>4 DEF ReadChunk
<1>2. CASE Begin \/ CheckAndYield \/ ReadEnd \/ ReadError
  BY <1>2 DEF Begin, CheckAndYield, ReadEnd, ReadError
<1>3. CASE ConversionFails \/ FinalizeCall \/ DeadlinePasses \/ ClientTakes
           \/ FrameworkCancels \/ Disconnect \/ ServerLearns
  BY <1>3 DEF ConversionFails, FinalizeCall, DeadlinePasses, ClientTakes, FrameworkCancels,
              Disconnect, ServerLearns
<1>4. CASE Accept \/ QuitInactive \/ IsActiveRaises \/ Return \/ HandlerCancelled
           \/ FinalizeEngine \/ EngineRaises \/ EngineExhausted
  BY <1>4 DEF Accept, QuitInactive, IsActiveRaises, Return, HandlerCancelled, FinalizeEngine,
              EngineRaises, EngineExhausted
<1>5. CASE SendDelta \/ SendFinal
  BY <1>5 DEF SendDelta, SendFinal
<1>6. ASSUME NEW n \in 0 .. MaxText, NEW fin \in BOOLEAN, Output(n, fin)
      PROVE  IndexCountsEvents'
  BY <1>6 DEF Output
<1>7. CASE UNCHANGED vars
  BY <1>7 DEF vars
<1> QED
  BY <1>1, <1>2, <1>3, <1>4, <1>5, <1>6, <1>7, StepCases

\* An event that is sent takes the place of the chunk it was made of.
LEMMA SentFacts ==
  ASSUME StreamInv, CheckAndYield, Reading'
  PROVE  /\ ppc = "check" /\ ppc' = "yield" /\ Reading
         /\ Reached' = Reached /\ ReadSoFar' = ReadSoFar
         /\ events' # <<>> /\ (events'[Len(events')] = "finish" <=> chunk.finish)
         /\ UNCHANGED <<endpoint, engine, made, spc, out, token_index, wire, rpc, chunk>>
<1>1. /\ ppc = "check" /\ ppc' = "yield" /\ Reading
      /\ events' = Append(events, IF chunk.finish THEN "finish" ELSE "delta")
      /\ UNCHANGED <<endpoint, engine, made, spc, out, token_index, wire, rpc, chunk>>
  BY DEF CheckAndYield, Reading, engineVars, servicerVars
<1>2. /\ events \in Seq(Kinds) /\ chunk.finish \in BOOLEAN
      /\ chunk.from \in Nat /\ chunk.to \in Nat
  BY DEF StreamInv, TypeOK, Chunk
<1>3. /\ Len(events') = Len(events) + 1 /\ events' # <<>>
      /\ events'[Len(events')] = IF chunk.finish THEN "finish" ELSE "delta"
  BY <1>1, <1>2, AppendFacts DEF Kinds
<1>4. /\ chunk.from = Len(told)
      /\ IF chunk.finish THEN chunk.from = chunk.to ELSE chunk.from < chunk.to
  BY <1>1 DEF StreamInv, ChunkInv, WellFormed
<1>5. Len(told') = chunk.to
  <2>1. CASE chunk.finish
    BY <1>1, <1>4, <2>1 DEF CheckAndYield
  <2>2. CASE ~chunk.finish
    <3>1. told' = told \o Span(chunk.from, chunk.to)
      BY <1>1, <2>2 DEF CheckAndYield
    <3>2. told = Span(0, chunk.from)
      BY <1>4 DEF StreamInv, ToldIsPrefix
    <3>3. chunk.from <= chunk.to
      BY <1>2, <1>4, <2>2
    <3>4. told' = Span(0, chunk.to)
      BY <1>2, <3>1, <3>2, <3>3, SpanFacts
    <3> QED
      BY <3>4, <1>2 DEF Span
  <2> QED
    BY <2>1, <2>2
<1> QED
  BY <1>1, <1>3, <1>5 DEF Reached, ReadSoFar

\* What the servicer puts on the wire continues what is there.
LEMMA WriteFacts ==
  ASSUME StreamInv, SendDelta \/ SendFinal
  PROVE  \E x \in Chunk :
           /\ wire' = Append(wire, x) /\ rpc = "active" /\ rpc' = "active"
           /\ WellFormed(x) /\ x.from = IF spc = "send" THEN out.from ELSE made
           /\ x.to = made /\ x.index = token_index
           /\ spc \in {"send", "final"} /\ spc' \in {"pull", "final", "return"}
           /\ x.finish <=> spc' = "return"
           /\ spc' # "return" => token_index' = token_index + 1
           /\ UNCHANGED <<endpoint, engine, made, ppc, chunk, events, told>>
<1> USE DEF StreamInv, engineVars, proxyVars
<1>1. CASE SendDelta
  <2> DEFINE x == [from |-> out.from, to |-> out.to, finish |-> FALSE, index |-> token_index]
  <2>1. x \in Chunk
    BY DEF TypeOK, Chunk, Delta
  <2>2. WellFormed(x) /\ x.from = out.from /\ x.to = made /\ x.index = token_index /\ ~x.finish
    BY <1>1 DEF SendDelta, ServicerInv, WellFormed, TypeOK
  <2>3. /\ wire' = Append(wire, x) /\ rpc = "active" /\ rpc' = "active" /\ spc = "send"
        /\ spc' \in {"pull", "final"} /\ token_index' = token_index + 1
        /\ UNCHANGED <<endpoint, engine, made, ppc, chunk, events, told>>
    BY <1>1 DEF SendDelta, MayWrite
  <2> HIDE DEF x
  <2> QED
    BY <2>1, <2>2, <2>3
<1>2. CASE SendFinal
  <2> DEFINE x == [from |-> made, to |-> made, finish |-> TRUE, index |-> token_index]
  <2>1. x \in Chunk
    BY DEF TypeOK, Chunk
  <2>2. WellFormed(x) /\ x.from = made /\ x.to = made /\ x.index = token_index /\ x.finish
    BY <1>2 DEF WellFormed, TypeOK
  <2>3. /\ wire' = Append(wire, x) /\ rpc = "active" /\ rpc' = "active" /\ spc = "final"
        /\ spc' = "return"
        /\ UNCHANGED <<endpoint, engine, made, ppc, chunk, events, told>>
    BY <1>2 DEF SendFinal, MayWrite
  <2> HIDE DEF x
  <2> QED
    BY <2>1, <2>2, <2>3
<1> QED
  BY <1>1, <1>2

\* A read moves the first chunk of the wire to the proxy's hand.
LEMMA ReadFacts ==
  ASSUME StreamInv, ReadChunk
  PROVE  /\ Reading /\ ppc' = "check" /\ wire \in Seq(Chunk) /\ wire # <<>>
         /\ Len(wire) \in Nat \ {0} /\ wire' \in Seq(Chunk) /\ Len(wire') = Len(wire) - 1
         /\ DOMAIN wire' = 1 .. Len(wire) - 1
         /\ \A i \in 1 .. Len(wire) - 1 : wire'[i] = wire[i + 1]
         /\ chunk' = wire[1] /\ Reached' = wire[1].to /\ ReadSoFar' = ReadSoFar + 1
         /\ UNCHANGED <<endpoint, engine, made, spc, out, token_index, rpc, events, told>>
<1>1. wire \in Seq(Chunk) /\ wire # <<>> /\ wire' = Tail(wire) /\ chunk' = Head(wire)
  BY DEF StreamInv, TypeOK, ReadChunk
<1>2. /\ ppc = "next" /\ ppc' = "check"
      /\ UNCHANGED <<endpoint, engine, made, spc, out, token_index, rpc, events, told>>
  BY DEF ReadChunk, engineVars, servicerVars
<1> QED
  BY <1>1, <1>2, HeadTailFacts DEF Reading, Reached, ReadSoFar

\* Reading the first chunk, or sending one after the last, leaves the chunks
\* on the wire contiguous.
LEMMA WireStep ==
  ASSUME StreamInv, [Next]_vars
  PROVE  WireInv'
<1> SUFFICES ASSUME Reading'
             PROVE  \A i \in DOMAIN wire' :
                      /\ WellFormed(wire[i])'
                      /\ wire'[i].from = IF i = 1 THEN Reached' ELSE wire'[i - 1].to
                      /\ wire'[i].index + RoleEvents' = ReadSoFar' + (i - 1)
  BY DEF WireInv
<1> DEFINE Linked(i) ==
      /\ WellFormed(wire[i])
      /\ wire[i].from = IF i = 1 THEN Reached ELSE wire[i - 1].to
      /\ wire[i].index + RoleEvents = ReadSoFar + (i - 1)
<1>0. Reading => \A i \in DOMAIN wire : Linked(i)
  BY DEF StreamInv, WireInv
<1>a. ReadSoFar \in Nat /\ RoleEvents \in Nat /\ wire \in Seq(Chunk) /\ made \in Nat
  BY DEF StreamInv, TypeOK, ReadSoFar, RoleEvents
<1>1. CASE ReadChunk
  <2> SUFFICES ASSUME NEW i \in DOMAIN wire'
               PROVE  Linked(i)'
    OBVIOUS
  <2>1. i \in 1 .. Len(wire) - 1 /\ i + 1 \in DOMAIN wire /\ Linked(i + 1)
    BY <1>0, <1>1, ReadFacts
  <2>2. wire'[i] = wire[i + 1] /\ UNCHANGED <<made, RoleEvents>>
    BY <1>1, <2>1, ReadFacts DEF RoleEvents
  <2>3. WellFormed(wire[i])'
    BY <2>1, <2>2 DEF WellFormed
  <2>4. wire'[i].from = IF i = 1 THEN Reached' ELSE wire'[i - 1].to
    <3>1. CASE i = 1
      BY <1>1, <2>1, <2>2, <3>1, ReadFacts
    <3>2. CASE i # 1
      <4>1. i - 1 \in 1 .. Len(wire) - 1 /\ wire'[i - 1] = wire[i]
        BY <1>1, <2>1, <3>2, ReadFacts
      <4> QED
        BY <2>1, <2>2, <3>2, <4>1
    <3> QED
      BY <3>1, <3>2
  <2>5. wire'[i].index + RoleEvents' = ReadSoFar' + (i - 1)
    BY <1>1, <1>a, <2>1, <2>2, ReadFacts
  <2> QED
    BY <2>3, <2>4, <2>5
<1>2. CASE CheckAndYield
  BY <1>0, <1>2, SentFacts DEF WellFormed, RoleEvents
<1>3. CASE ClientTakes
  BY <1>0, <1>3 DEF ClientTakes, Reading, Reached, ReadSoFar, WellFormed, RoleEvents, engineVars
<1>4. CASE SendDelta \/ SendFinal
  <2>1. PICK x \in Chunk :
           /\ wire' = Append(wire, x) /\ rpc = "active" /\ spc \in {"send", "final"}
           /\ WellFormed(x) /\ x.from = IF spc = "send" THEN out.from ELSE made
           /\ x.to = made /\ x.index = token_index
           /\ UNCHANGED <<endpoint, made, ppc, chunk, events, told>>
    BY <1>4, WriteFacts
  <2>2. /\ Reading /\ Reached' = Reached /\ ReadSoFar' = ReadSoFar
        /\ RoleEvents' = RoleEvents /\ made' = made
    BY <2>1 DEF Reading, Reached, ReadSoFar, RoleEvents
  <2>3. x.from = Tip /\ x.index + RoleEvents = ReadSoFar + Len(wire)
    BY <2>1, <2>2 DEF StreamInv, TipInv
  <2>4. /\ DOMAIN wire' = 1 .. Len(wire) + 1 /\ wire'[Len(wire) + 1] = x
        /\ \A i \in 1 .. Len(wire) : wire'[i] = wire[i]
        /\ Len(wire) \in Nat /\ DOMAIN wire = 1 .. Len(wire)
    BY <1>a, <2>1, AppendFacts
  <2> SUFFICES ASSUME NEW i \in DOMAIN wire'
               PROVE  Linked(i)'
    OBVIOUS
  <2>5. CASE i \in 1 .. Len(wire)
    <3>1. Linked(i) /\ wire'[i] = wire[i] /\ (i # 1 => wire'[i - 1] = wire[i - 1])
      BY <1>0, <2>2, <2>4, <2>5
    <3> QED
      BY <2>2, <3>1 DEF WellFormed
  <2>6. CASE i = Len(wire) + 1
    <3>1. wire'[i] = x /\ (i # 1 => wire'[i - 1] = wire[Len(wire)])
      BY <2>4, <2>6
    <3>2. Tip = IF i = 1 THEN Reached ELSE wire[Len(wire)].to
      BY <1>a, <2>6 DEF Tip
    <3>3. WellFormed(wire[i])'
      BY <2>1, <2>2, <3>1 DEF WellFormed
    <3>4. wire'[i].from = IF i = 1 THEN Reached' ELSE wire'[i - 1].to
      BY <2>2, <2>3, <3>1, <3>2
    <3>5. wire'[i].index + RoleEvents' = ReadSoFar' + (i - 1)
      BY <2>2, <2>3, <2>4, <2>6, <3>1
    <3> QED
      BY <3>3, <3>4, <3>5
  <2> QED
    BY <2>4, <2>5, <2>6
<1>5. CASE Begin \/ ServerLearns
  <2>1. wire' = <<>>
    BY <1>5 DEF Begin, ServerLearns, StreamInv, CallInv
  <2> QED
    BY <2>1
<1>6. ASSUME NEW n \in 0 .. MaxText, NEW fin \in BOOLEAN, Output(n, fin)
      PROVE  WireInv'
  <2>1. /\ made' = made + n /\ n \in Nat
        /\ UNCHANGED <<endpoint, ppc, wire, chunk, events, told>>
    BY <1>6, StreamAssumption DEF Output, proxyVars
  <2>2. /\ Reading /\ Reached' = Reached /\ ReadSoFar' = ReadSoFar
        /\ RoleEvents' = RoleEvents
    BY <2>1 DEF Reading, Reached, ReadSoFar, RoleEvents
  <2>3. \A i \in DOMAIN wire : wire[i] \in Chunk
    BY <1>a
  <2>4. \A i \in DOMAIN wire : WellFormed(wire[i]) => WellFormed(wire[i])'
    BY <1>a, <2>1, <2>3 DEF WellFormed, Chunk
  <2> QED
    BY <1>0, <2>1, <2>2, <2>4 DEF WireInv
<1>7. CASE ConversionFails \/ ReadEnd \/ ReadError \/ FrameworkCancels \/ FinalizeCall
  BY <1>7 DEF ConversionFails, ReadEnd, ReadError, FrameworkCancels, FinalizeCall, Reading
<1>8. CASE \/ Accept \/ QuitInactive \/ IsActiveRaises \/ Return \/ HandlerCancelled
           \/ FinalizeEngine \/ EngineRaises \/ EngineExhausted \/ DeadlinePasses
           \/ Disconnect \/ UNCHANGED vars
  <2>1. UNCHANGED <<endpoint, made, ppc, wire, chunk, events, told>>
    BY <1>8 DEF Accept, QuitInactive, IsActiveRaises, Return, HandlerCancelled, FinalizeEngine,
                EngineRaises, EngineExhausted, DeadlinePasses, Disconnect, vars, engineVars,
                servicerVars, proxyVars
  <2> QED
    BY <1>0, <2>1 DEF Reading, Reached, ReadSoFar, RoleEvents, WellFormed
<1> QED
  BY <1>1, <1>2, <1>3, <1>4, <1>5, <1>6, <1>7, <1>8, StepCases DEF WireInv

\* What was sent last ends where the servicer's next delta begins.
LEMMA TipStep ==
  ASSUME StreamInv, [Next]_vars
  PROVE  TipInv'
<1> SUFFICES ASSUME Reading', rpc' \in {"active", "ok"}
             PROVE  /\ Tip' = IF spc' = "send" THEN out'.from ELSE made'
                    /\ spc' \in {"pull", "send", "final"} =>
                         token_index' + RoleEvents' = ReadSoFar' + Len(wire')
                    /\ LastIsFinish' <=> spc' \in {"return", "ended"} /\ engine' = "finished"
  BY DEF TipInv
<1>a. /\ wire \in Seq(Chunk) /\ made \in Nat /\ token_index \in Nat /\ Len(wire) \in Nat
      /\ RoleEvents \in Nat /\ ReadSoFar \in Nat
  BY DEF StreamInv, TypeOK, RoleEvents, ReadSoFar
<1>b. Reading /\ rpc \in {"active", "ok"} =>
        /\ Tip = IF spc = "send" THEN out.from ELSE made
        /\ spc \in {"pull", "send", "final"} => token_index + RoleEvents = ReadSoFar + Len(wire)
        /\ LastIsFinish <=> spc \in {"return", "ended"} /\ engine = "finished"
  BY DEF StreamInv, TipInv
<1>c. /\ CallInv /\ ServicerInv
  BY DEF StreamInv
<1>1. CASE ReadChunk
  <2>1. Tip' = Tip /\ ReadSoFar' + Len(wire') = ReadSoFar + Len(wire)
    <3>1. CASE Len(wire) = 1
      BY <1>1, <1>a, <3>1, ReadFacts DEF Tip
    <3>2. CASE Len(wire) # 1
      <4>1. /\ wire' # <<>> /\ Len(wire') = Len(wire) - 1
            /\ Len(wire) - 1 \in 1 .. Len(wire) - 1
        BY <1>1, <3>2, ReadFacts
      <4>2. wire'[Len(wire')] = wire[Len(wire)]
        BY <1>1, <1>a, <4>1, ReadFacts
      <4> QED
        BY <1>1, <1>a, <4>1, <4>2, ReadFacts DEF Tip
    <3> QED
      BY <3>1, <3>2
  <2>2. LastIsFinish' <=> LastIsFinish
    <3>1. CASE Len(wire) = 1
      <4>1. wire' = <<>> /\ ppc' = "check" /\ chunk' = wire[Len(wire)] /\ wire # <<>>
        BY <1>1, <3>1, ReadFacts
      <4> QED
        BY <4>1 DEF LastIsFinish
    <3>2. CASE Len(wire) # 1
      <4>1. /\ wire' # <<>> /\ Len(wire') = Len(wire) - 1
            /\ Len(wire) - 1 \in 1 .. Len(wire) - 1
        BY <1>1, <3>2, ReadFacts
      <4>2. wire'[Len(wire')] = wire[Len(wire)]
        BY <1>1, <1>a, <4>1, ReadFacts
      <4> QED
        BY <1>1, <4>1, <4>2, ReadFacts DEF LastIsFinish
    <3> QED
      BY <3>1, <3>2
  <2>3. UNCHANGED <<engine, made, spc, out, token_index, rpc, RoleEvents>> /\ Reading
    BY <1>1, ReadFacts DEF RoleEvents
  <2> QED
    BY <1>b, <2>1, <2>2, <2>3
<1>2. CASE CheckAndYield
  <2>1. Tip' = Tip /\ ReadSoFar' = ReadSoFar /\ RoleEvents' = RoleEvents /\ Len(wire') = Len(wire)
    BY <1>2, SentFacts DEF Tip, RoleEvents
  <2>2. LastIsFinish' <=> LastIsFinish
    <3>1. /\ ppc = "check" /\ ppc' = "yield" /\ wire' = wire
          /\ events' # <<>> /\ (events'[Len(events')] = "finish" <=> chunk.finish)
      BY <1>2, SentFacts
    <3>2. FinishLast' <=> chunk.finish
      BY <3>1 DEF FinishLast
    <3> QED
      BY <3>1, <3>2 DEF LastIsFinish
  <2> QED
    BY <1>2, <1>b, <2>1, <2>2, SentFacts
<1>3. CASE ClientTakes
  <2>1. /\ ppc = "yield" /\ ppc' = "next"
        /\ UNCHANGED <<engine, made, spc, out, token_index, rpc, wire, events, told, endpoint>>
    BY <1>3 DEF ClientTakes, engineVars, servicerVars
  <2> QED
    BY <1>b, <2>1 DEF Reading, Tip, Reached, ReadSoFar, RoleEvents, LastIsFinish, FinishLast
<1>4. CASE SendDelta \/ SendFinal
  <2>1. PICK x \in Chunk :
           /\ wire' = Append(wire, x) /\ rpc = "active"
           /\ x.to = made /\ spc \in {"send", "final"} /\ spc' \in {"pull", "final", "return"}
           /\ x.finish <=> spc' = "return"
           /\ spc' # "return" => token_index' = token_index + 1
           /\ UNCHANGED <<endpoint, engine, made, ppc, chunk, events, told>>
    BY <1>4, WriteFacts
  <2>2. Reading /\ ReadSoFar' = ReadSoFar /\ RoleEvents' = RoleEvents
    BY <2>1 DEF Reading, ReadSoFar, RoleEvents
  <2>3. wire' # <<>> /\ Len(wire') = Len(wire) + 1 /\ wire'[Len(wire')] = x
    BY <1>a, <2>1, AppendFacts
  <2>4. Tip' = made'
    BY <2>1, <2>3 DEF Tip
  <2>5. LastIsFinish' <=> spc' = "return"
    BY <2>1, <2>3 DEF LastIsFinish
  <2>7. spc' = "return" => engine' = "finished"
    BY <1>4, <1>c DEF SendDelta, SendFinal, ServicerInv, engineVars
  <2>6. spc' # "return" => token_index' + RoleEvents' = ReadSoFar' + Len(wire')
    BY <1>a, <1>b, <2>1, <2>2, <2>3
  <2> QED
    BY <2>1, <2>4, <2>5, <2>6, <2>7
<1>5. CASE Accept
  <2>1. /\ rpc = "none" /\ spc' = "pull"
        /\ UNCHANGED <<endpoint, made, token_index, wire, ppc, chunk, events, told>>
    BY <1>5 DEF Accept, proxyVars
  <2>2. /\ wire = <<>> /\ told = <<>> /\ ppc # "check" /\ Len(events) = RoleEvents
        /\ made = 0 /\ token_index = 0 /\ ~Has("finish")
    BY <1>c, <2>1 DEF CallInv, ServicerInv, Reading
  <2>3. ~LastIsFinish'
    <3>1. events # <<>> => Len(events) \in DOMAIN events
      BY HeadTailFacts DEF StreamInv, TypeOK
    <3>2. ~FinishLast
      BY <2>2, <3>1 DEF FinishLast, Has
    <3> QED
      BY <2>1, <2>2, <3>2 DEF LastIsFinish, FinishLast
  <2> QED
    BY <1>a, <2>1, <2>2, <2>3 DEF Tip, Reached, ReadSoFar, RoleEvents
<1>6. ASSUME NEW n \in 0 .. MaxText, NEW fin \in BOOLEAN, Output(n, fin)
      PROVE  TipInv'
  <2>1. /\ spc = "pull" /\ made' = made + n /\ n \in Nat
        /\ spc' \in {"pull", "send", "final"} /\ out'.from = prev_text
        /\ spc' = "send" <=> made + n > prev_text
        /\ UNCHANGED <<endpoint, token_index, rpc, wire, ppc, chunk, events, told>>
    BY <1>6, StreamAssumption DEF Output, proxyVars
  <2>2. prev_text = made
    BY <1>c DEF ServicerInv
  <2>3. Reading /\ Tip' = Tip /\ ReadSoFar' = ReadSoFar /\ RoleEvents' = RoleEvents
    BY <2>1 DEF Reading, Tip, Reached, ReadSoFar, RoleEvents
  <2>4. Tip' = IF spc' = "send" THEN out'.from ELSE made'
    BY <1>a, <1>b, <2>1, <2>2, <2>3
  <2>5. token_index' + RoleEvents' = ReadSoFar' + Len(wire')
    BY <1>b, <2>1, <2>3
  <2>6. ~LastIsFinish'
    BY <1>b, <2>1, <2>3 DEF LastIsFinish, FinishLast
  <2> QED
    BY <2>1, <2>4, <2>5, <2>6 DEF TipInv
<1>7. CASE Return
  <2>1. /\ spc = "return" /\ spc' = "ended" /\ rpc \in {"active", "ok"}
        /\ UNCHANGED <<engine, made, ppc, wire, chunk, events, told>>
    BY <1>7 DEF Return, engineVars, proxyVars
  <2> QED
    BY <1>b, <2>1 DEF Reading, Tip, Reached, LastIsFinish, FinishLast
<1>8. CASE EngineRaises \/ QuitInactive \/ IsActiveRaises \/ HandlerCancelled
  BY <1>8, <1>c DEF EngineRaises, QuitInactive, Inactive, IsActiveRaises, HandlerCancelled,
                    ServicerInv
<1>12. CASE EngineExhausted
  <2>1. /\ spc = "pull" /\ spc' = "return" /\ engine' = "exhausted"
        /\ UNCHANGED <<made, rpc, ppc, wire, chunk, events, told>>
    BY <1>12 DEF EngineExhausted, proxyVars
  <2> QED
    BY <1>b, <2>1 DEF Reading, Tip, Reached, LastIsFinish, FinishLast
<1>9. CASE Begin \/ ServerLearns
  BY <1>9, <1>c DEF Begin, ServerLearns, CallInv
<1>10. CASE ConversionFails \/ ReadEnd \/ ReadError \/ FrameworkCancels \/ FinalizeCall
  BY <1>10 DEF ConversionFails, ReadEnd, ReadError, FrameworkCancels, FinalizeCall, Reading
<1>11. CASE FinalizeEngine \/ DeadlinePasses \/ Disconnect \/ UNCHANGED vars
  <2>1. /\ UNCHANGED <<endpoint, made, spc, out, token_index, rpc, ppc, wire, chunk, events,
                        told>>
        /\ engine = "finished" <=> engine' = "finished"
    BY <1>11 DEF FinalizeEngine, DeadlinePasses, Disconnect, vars, engineVars, servicerVars,
                 proxyVars
  <2> QED
    BY <1>b, <2>1 DEF Reading, Tip, Reached, ReadSoFar, RoleEvents, LastIsFinish, FinishLast
<1> QED
  BY <1>1, <1>2, <1>3, <1>4, <1>5, <1>6, <1>7, <1>8, <1>9, <1>10, <1>11, <1>12, StepCases
  DEF TipInv

\* While the proxy works, no terminator has been sent.
LEMMA NoneYet ==
  ASSUME StreamInv, ppc # "closed"
  PROVE  \A i \in DOMAIN events : events[i] \notin Terminators
  BY DEF StreamInv, OneTerminator

\* A terminator is added only by the step that closes the generator.
LEMMA TerminatorStep ==
  ASSUME StreamInv, [Next]_vars
  PROVE  OneTerminator'
<1>a. events \in Seq(Kinds) /\ DOMAIN events = 1 .. Len(events) /\ Len(events) \in Nat
  BY DEF StreamInv, TypeOK
<1>b. OneTerminator /\ CallInv
  BY DEF StreamInv
<1>1. CASE Begin
  <2>1. /\ ppc = "start" /\ events = <<>> /\ ppc' # "closed"
        /\ ppc' # "raised"
        /\ events' = <<"role">> \/ events' = <<>>
    BY <1>1, <1>b DEF Begin, CallInv
  <2> QED
    BY <2>1 DEF OneTerminator, Terminators
<1>2. CASE CheckAndYield
  <2>1. ppc = "check" /\ ppc' \notin {"closed", "raised"}
    BY <1>2 DEF CheckAndYield
  <2>2. \/ events' = events
        \/ events' = Append(events, "finish")
        \/ events' = Append(events, "delta")
    BY <1>2 DEF CheckAndYield
  <2>3. \A i \in DOMAIN events' : events'[i] \notin Terminators
    BY <1>a, <2>1, <2>2, NoneYet, AppendFacts DEF Kinds, Terminators
  <2> QED
    BY <2>1, <2>3 DEF OneTerminator
<1>3. CASE ReadEnd \/ ReadError
  <2>1. /\ ppc = "next" /\ ppc' = "closed"
        /\ events' = Append(events, "done") \/ events' = Append(events, "error")
    BY <1>3 DEF ReadEnd, ReadError
  <2>2. /\ events' # <<>> /\ events'[Len(events')] \in Terminators
        /\ Len(events') = Len(events) + 1 /\ DOMAIN events' = 1 .. Len(events) + 1
        /\ \A i \in 1 .. Len(events) : events'[i] = events[i]
    BY <1>a, <2>1, AppendFacts DEF Kinds, Terminators
  <2>3. \A i \in DOMAIN events' : events'[i] \in Terminators => i = Len(events')
    BY <1>a, <2>1, <2>2, NoneYet
  <2> QED
    BY <2>1, <2>2, <2>3 DEF OneTerminator
<1>6. CASE ConversionFails
  BY <1>6, <1>b DEF ConversionFails, OneTerminator, CallInv, Terminators
<1>4. CASE ReadChunk \/ FinalizeCall \/ DeadlinePasses \/ ClientTakes \/ FrameworkCancels
           \/ Disconnect
  <2>1. events' = events
    BY <1>4 DEF ReadChunk, FinalizeCall, DeadlinePasses, ClientTakes, FrameworkCancels, Disconnect,
                proxyVars
  <2>2. ppc = "closed" => ppc' = "closed"
    BY <1>4 DEF ReadChunk, FinalizeCall, DeadlinePasses, ClientTakes, FrameworkCancels, Disconnect,
                proxyVars
  <2>3. ppc' = "closed" /\ http' = "connected" => ppc = "closed" /\ http = "connected"
    BY <1>4, <1>b DEF ReadChunk, FinalizeCall, DeadlinePasses, ClientTakes, FrameworkCancels,
                      Disconnect, proxyVars, CallInv
  <2>4. ppc' = "raised" => ppc = "raised" /\ call' = call
    BY <1>4, <1>b DEF ReadChunk, FinalizeCall, DeadlinePasses, ClientTakes, FrameworkCancels,
                      Disconnect, proxyVars, OneTerminator
  <2> QED
    BY <1>b, <2>1, <2>2, <2>3, <2>4 DEF OneTerminator
<1>5. CASE \/ ServerLearns \/ Accept \/ SendDelta \/ SendFinal \/ QuitInactive
           \/ IsActiveRaises \/ Return \/ HandlerCancelled \/ FinalizeEngine
           \/ EngineRaises \/ EngineExhausted \/ UNCHANGED vars
           \/ \E n \in 0 .. MaxText, fin \in BOOLEAN : Output(n, fin)
  <2>1. UNCHANGED <<ppc, events, http, call>>
    BY <1>5 DEF ServerLearns, Accept, SendDelta, SendFinal, QuitInactive, IsActiveRaises, Return,
                HandlerCancelled, FinalizeEngine, EngineRaises, EngineExhausted, Output, vars,
                proxyVars
  <2> QED
    BY <1>b, <2>1 DEF OneTerminator
<1> QED
  BY <1>1, <1>2, <1>3, <1>4, <1>5, <1>6, StepCases

\* [DONE] is sent only after the call ended OK, with nothing left on the wire.
LEMMA DoneStep ==
  ASSUME StreamInv, [Next]_vars
  PROVE  DoneIsWhole'
<1>a. events \in Seq(Kinds) /\ DOMAIN events = 1 .. Len(events) /\ Len(events) \in Nat
  BY DEF StreamInv, TypeOK
<1>b. DoneIsWhole /\ CallInv /\ ServicerInv
  BY DEF StreamInv
<1>c. Has("done") => ppc = "closed"
  BY NoneYet DEF Has, Terminators
<1>1. CASE ReadEnd
  <2>1. /\ ppc = "next" /\ rpc = "ok" /\ wire = <<>> /\ events' = Append(events, "done")
        /\ UNCHANGED <<engine, made, trailers, told>>
    BY <1>1 DEF ReadEnd, CallEndedOk, engineVars, servicerVars
  <2>2. EndedItself /\ (trailers <=> engine = "finished") /\ spc = "ended"
    BY <1>b, <2>1 DEF ServicerInv
  <2>3. Tip = made /\ (LastIsFinish <=> engine = "finished")
    BY <2>1, <2>2 DEF StreamInv, TipInv, Reading
  <2>4. Len(told) = made /\ (FinishLast <=> engine = "finished")
    BY <2>1, <2>3 DEF Tip, Reached, LastIsFinish
  <2>5. told = Span(0, made)
    BY <2>4 DEF StreamInv, ToldIsPrefix
  <2>6. /\ Len(events') = Len(events) + 1
        /\ \A i \in 1 .. Len(events) : events'[i] = events[i]
    BY <1>a, <2>1, AppendFacts DEF Kinds
  <2>7. Len(events') > 1 <=> events # <<>>
    BY <1>a, <2>6
  <2>8. events # <<>> => events'[Len(events') - 1] = events[Len(events)]
    <3>1. events # <<>> => Len(events) \in 1 .. Len(events)
      BY <1>a, HeadTailFacts
    <3>2. Len(events') - 1 = Len(events)
      BY <1>a, <2>6
    <3> QED
      BY <2>6, <3>1, <3>2
  <2>9. told' = Span(0, made)' /\ EndedItself' /\ UNCHANGED <<engine, trailers>>
    BY <2>1, <2>2, <2>5 DEF Span, EndedItself
  <2> QED
    BY <2>2, <2>4, <2>7, <2>8, <2>9 DEF DoneIsWhole, FinishLast
<1>2. CASE Begin \/ CheckAndYield \/ ReadError
  <2>1. ppc # "closed"
    BY <1>2 DEF Begin, CheckAndYield, ReadError
  <2>2. \/ events' = events \/ events' = <<"role">> \/ events' = Append(events, "error")
        \/ events' = Append(events, "finish") \/ events' = Append(events, "delta")
    BY <1>2 DEF Begin, CheckAndYield, ReadError
  <2>3. \A i \in DOMAIN events : events[i] # "done"
    BY <2>1, NoneYet DEF Terminators
  <2>4. \A i \in DOMAIN events' : events'[i] # "done"
    BY <1>a, <2>2, <2>3, AppendFacts DEF Kinds
  <2> QED
    BY <2>4 DEF DoneIsWhole, Has
<1>3. CASE ~(ReadEnd \/ Begin \/ CheckAndYield \/ ReadError)
  <2>1. events' = events /\ told' = told
    BY <1>3, StepCases DEF ConversionFails, ReadChunk, FinalizeCall, DeadlinePasses, ClientTakes,
         FrameworkCancels, Disconnect, ServerLearns, Accept, SendDelta, SendFinal, QuitInactive,
         IsActiveRaises, Return, HandlerCancelled, FinalizeEngine, EngineRaises, EngineExhausted,
         Output, vars, proxyVars
  <2>2. EndedItself => UNCHANGED <<engine, made>>
    BY <1>3, <1>b, StepCases DEF EndedItself, ConversionFails, ReadChunk, FinalizeCall,
         DeadlinePasses, ClientTakes, FrameworkCancels, Disconnect, ServerLearns, Accept, SendDelta,
         SendFinal, QuitInactive, IsActiveRaises, Return, HandlerCancelled, FinalizeEngine,
         EngineRaises, EngineExhausted, Output, vars, engineVars, ServicerInv
  <2>3. EndedItself /\ (trailers <=> engine = "finished") => trailers' = trailers
    BY <1>3, <1>b, StepCases DEF EndedItself, ConversionFails, ReadChunk, FinalizeCall,
         DeadlinePasses, ClientTakes, FrameworkCancels, Disconnect, ServerLearns, Accept, SendDelta,
         SendFinal, QuitInactive, IsActiveRaises, Return, HandlerCancelled, FinalizeEngine,
         EngineRaises, EngineExhausted, Output, vars, servicerVars, ServicerInv
  <2> QED
    BY <1>b, <2>1, <2>2, <2>3 DEF DoneIsWhole, Has, Span, EndedItself
<1> QED
  BY <1>1, <1>2, <1>3

----------------------------------------------------------------------------
(* The theorems.                                                           *)

\* The inductive invariant holds in every reachable state.
THEOREM StreamInvariant == Spec => []StreamInv
<1>1. StreamInv /\ [Next]_vars => StreamInv'
  BY TypeStep, CallStep, ServicerStep, ChunkStep, WireStep, TipStep, ToldStep, IndexStep,
     DoneStep, TerminatorStep DEF StreamInv
<1> QED
  BY <1>1, InitInv, PTL DEF Spec

\* Type correctness; the transport never holds more than its window.
THEOREM StreamTypeCorrect == Spec => []TypeOK
<1>1. StreamInv => TypeOK
  BY DEF StreamInv
<1> QED
  BY <1>1, StreamInvariant, PTL

\* The client has always been told a beginning of what the engine made.
THEOREM NoGapNoRepetition == Spec => []ToldIsPrefix
<1>1. StreamInv => ToldIsPrefix
  BY DEF StreamInv
<1> QED
  BY <1>1, StreamInvariant, PTL

\* The index of a chunk is the number of chunks sent before it.
THEOREM IndicesCount == Spec => []IndexCountsEvents
<1>1. StreamInv => IndexCountsEvents
  BY DEF StreamInv
<1> QED
  BY <1>1, StreamInvariant, PTL

\* [DONE] is sent only after the engine has ended by itself and all of its text
\* was told, and a finish event and the trailing metadata come with it exactly
\* when the engine gave a reason.
THEOREM DoneIsTheTruth == Spec => []DoneIsWhole
<1>1. StreamInv => DoneIsWhole
  BY DEF StreamInv
<1> QED
  BY <1>1, StreamInvariant, PTL

\* Exactly one terminator, at the end, for a client that stays and whose request
\* can be converted.
THEOREM EndsOnce == Spec => []OneTerminator
<1>1. StreamInv => OneTerminator
  BY DEF StreamInv
<1> QED
  BY <1>1, StreamInvariant, PTL

\* What a step makes of the outcome, seen from the client.
LEMMA OutcomeFacts ==
  ASSUME StreamInv
  PROVE  /\ Outcome \in {"open", "done", "failed", "left"}
         /\ ppc \notin {"returned", "closed", "raised"} => Outcome = "open"
         /\ Outcome = "done" => EndedItself
<1>1. ppc # "closed" => ~Has("done") /\ ~Has("error")
  BY NoneYet DEF Has, Terminators
<1>2. Has("done") => EndedItself
  BY DEF StreamInv, DoneIsWhole
<1> QED
  BY <1>1, <1>2 DEF Outcome

\* The bridge implements the abstract stream.
THEOREM BridgeImplementsStream == Spec => ImplementsStream
<1>1. Init => Stream!StreamInit
  BY DEF Init, Stream!StreamInit, Outcome, Has, EndedItself
<1>2. ASSUME StreamInv, StreamInv', [Next]_vars
      PROVE  [Stream!StreamNext]_(Stream!streamVars)
  <2> USE <1>2 DEF Stream!StreamNext, Stream!streamVars, EndedItself
  <2>a. events \in Seq(Kinds) /\ DOMAIN events = 1 .. Len(events) /\ Len(events) \in Nat
    BY DEF StreamInv, TypeOK
  <2>1. CASE CheckAndYield
    <3>1. Outcome = "open" /\ UNCHANGED <<made, engine>>
      BY <2>1, OutcomeFacts DEF CheckAndYield, engineVars
    <3>2. CASE ppc' = "returned"
      <4>1. told' = told /\ events' = events
        BY <2>1, <3>2 DEF CheckAndYield
      <4>2. Outcome' = "left"
        BY <3>1, <3>2, <4>1 DEF Outcome, Has
      <4> QED
        BY <3>1, <4>1, <4>2 DEF Stream!GiveUp
    <3>3. CASE ppc' = "yield"
      <4>1. Outcome' = "open"
        BY <3>3, OutcomeFacts DEF Outcome, Has, StreamInv, OneTerminator, Terminators
      <4>2. CASE chunk.finish
        <5>1. told' = told
          BY <2>1, <3>3, <4>2 DEF CheckAndYield
        <5> QED
          BY <3>1, <4>1, <5>1
      <4>3. CASE ~chunk.finish
        <5>1. Reading' /\ Reached' = Reached /\ ppc = "check"
          BY <2>1, <3>3, SentFacts DEF Reading
        <5>2. Len(told') = chunk.to /\ chunk.from = Len(told) /\ chunk.from < chunk.to
          BY <3>3, <4>3, <5>1 DEF Reached, StreamInv, ChunkInv, WellFormed
        <5>3. chunk.to <= made /\ told' = Span(0, Len(told'))
          BY <5>1 DEF StreamInv, ChunkInv, WellFormed, ToldIsPrefix
        <5>4. Len(told') > Len(told) /\ Len(told') <= made
          BY <5>2, <5>3 DEF StreamInv, TypeOK, Chunk
        <5> QED
          BY <3>1, <4>1, <5>3, <5>4 DEF Stream!Deliver, Stream!Span, Span
      <4> QED
        BY <4>2, <4>3
    <3> QED
      BY <2>1, <3>2, <3>3 DEF CheckAndYield
  <2>2. CASE ReadEnd
    <3>1. Outcome = "open" /\ UNCHANGED <<made, engine, told>> /\ events' = Append(events, "done")
      BY <2>2, OutcomeFacts DEF ReadEnd, engineVars
    <3>2. events'[Len(events) + 1] = "done" /\ Len(events) + 1 \in DOMAIN events'
      BY <2>a, <3>1, AppendFacts DEF Kinds
    <3>3. Has("done")'
      BY <3>2 DEF Has
    <3>4. EndedItself /\ told = Span(0, made) /\ Outcome' = "done"
      BY <3>1, <3>3 DEF StreamInv, DoneIsWhole, Outcome, Span
    <3> QED
      BY <3>1, <3>4 DEF Stream!Finish, Stream!Span, Span
  <2>3. CASE ReadError
    <3>1. /\ Outcome = "open" /\ UNCHANGED <<made, engine, told>> /\ ppc # "closed"
          /\ events' = Append(events, "error")
      BY <2>3, OutcomeFacts DEF ReadError, engineVars
    <3>2. /\ events'[Len(events) + 1] = "error" /\ DOMAIN events' = 1 .. Len(events) + 1
          /\ \A i \in 1 .. Len(events) : events'[i] = events[i]
      BY <2>a, <3>1, AppendFacts DEF Kinds
    <3>3. Has("error")' /\ ~Has("done")'
      BY <2>a, <3>1, <3>2, NoneYet DEF Has, Terminators
    <3>4. Outcome' = "failed"
      BY <3>3 DEF Outcome
    <3> QED
      BY <3>1, <3>4 DEF Stream!GiveUp
  <2>4. CASE FrameworkCancels
    <3>1. /\ Outcome = "open" /\ UNCHANGED <<made, engine, told, events>>
          /\ ppc' \in {"returned", "closed"}
      BY <2>4, OutcomeFacts DEF FrameworkCancels, engineVars
    <3>2. Outcome' = "left"
      BY <3>1 DEF Outcome, Has
    <3> QED
      BY <3>1, <3>2 DEF Stream!GiveUp
  <2>5. ASSUME NEW n \in 0 .. MaxText, NEW fin \in BOOLEAN, Output(n, fin)
        PROVE  Stream!StreamNext
    <3>1. /\ ~EndedItself /\ made' = made + n /\ n \in Nat /\ made \in Nat
          /\ UNCHANGED <<told, events, ppc>>
      BY <2>5, StreamAssumption DEF Output, proxyVars, StreamInv, TypeOK
    <3>2. Outcome' = Outcome /\ Outcome # "done"
      BY <3>1, OutcomeFacts DEF Outcome, Has
    <3>3. made' \in Nat /\ made' >= made
      BY <3>1
    <3> QED
      BY <3>1, <3>2, <3>3 DEF Stream!Produce
  <2>9. CASE EngineExhausted
    <3>1. /\ ~EndedItself /\ EndedItself' /\ made' = made /\ made \in Nat
          /\ UNCHANGED <<told, events, ppc>>
      BY <2>9 DEF EngineExhausted, proxyVars, StreamInv, TypeOK
    <3>2. Outcome' = Outcome /\ Outcome # "done"
      BY <3>1, OutcomeFacts DEF Outcome, Has
    <3> QED
      BY <3>1, <3>2 DEF Stream!Produce
  <2>10. CASE ConversionFails
    <3>1. /\ Outcome = "open" /\ UNCHANGED <<made, engine, told, events>> /\ ppc' = "raised"
          /\ ~Has("done")
      BY <2>10, OutcomeFacts DEF ConversionFails, engineVars, Outcome
    <3>2. Outcome' = "failed"
      BY <3>1 DEF Outcome, Has
    <3> QED
      BY <3>1, <3>2 DEF Stream!GiveUp
  <2>6. CASE \/ Accept \/ EngineRaises \/ HandlerCancelled \/ FinalizeEngine
    <3>1. EndedItself <=> EndedItself'
      BY <2>6 DEF Accept, EngineRaises, HandlerCancelled, FinalizeEngine, StreamInv, ServicerInv,
                  CallInv
    <3>2. UNCHANGED <<made, told, events, ppc>>
      BY <2>6 DEF Accept, EngineRaises, HandlerCancelled, FinalizeEngine, proxyVars
    <3> QED
      BY <3>1, <3>2 DEF Outcome, Has
  <2>7. CASE Begin
    <3>1. /\ ppc \notin {"returned", "closed", "raised"}
          /\ ppc' \notin {"returned", "closed", "raised"}
          /\ UNCHANGED <<made, engine, told>>
      BY <2>7 DEF Begin, engineVars
    <3>2. Outcome = "open" /\ Outcome' = "open"
      BY <3>1, OutcomeFacts DEF Outcome, Has, StreamInv, OneTerminator, Terminators
    <3> QED
      BY <3>1, <3>2
  <2>8. CASE \/ ReadChunk \/ FinalizeCall \/ DeadlinePasses \/ ServerLearns \/ ClientTakes
             \/ Disconnect \/ SendDelta \/ SendFinal \/ QuitInactive \/ IsActiveRaises \/ Return
             \/ UNCHANGED vars
    <3>1. UNCHANGED <<made, engine, told, events>>
      BY <2>8 DEF ReadChunk, FinalizeCall, DeadlinePasses, ServerLearns, ClientTakes, Disconnect,
                  SendDelta, SendFinal, QuitInactive, IsActiveRaises, Return, vars, engineVars,
                  proxyVars
    <3>2. /\ ppc \in {"returned", "closed"} <=> ppc' \in {"returned", "closed"}
          /\ ppc = "raised" <=> ppc' = "raised"
      BY <2>8 DEF ReadChunk, FinalizeCall, DeadlinePasses, ServerLearns, ClientTakes, Disconnect,
                  SendDelta, SendFinal, QuitInactive, IsActiveRaises, Return, vars, proxyVars
    <3> QED
      BY <3>1, <3>2 DEF Outcome, Has
  <2> QED
    BY <2>1, <2>2, <2>3, <2>4, <2>5, <2>6, <2>7, <2>8, <2>9, <2>10, StepCases
<1> QED
  BY <1>1, <1>2, StreamInvariant, PTL DEF Spec, ImplementsStream, Stream!StreamSpec

============================================================================
