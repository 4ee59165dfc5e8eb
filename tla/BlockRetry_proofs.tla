------------------------- MODULE BlockRetry_proofs -------------------------
(***************************************************************************)
(* Theorems about BlockRetry, for every number of blocks, every set of     *)
(* failure reasons and every dispatcher the Protocol allows.               *)
(***************************************************************************)
EXTENDS BlockRetry, TLAPS

\* A dispatcher of the Protocol answers with outcomes of this kind.
LEMMA OutcomeFacts ==
  ASSUME NEW o \in Outcomes
  PROVE  /\ o.raised \in BOOLEAN /\ o.retryable \in BOOLEAN
         /\ o.reason \in Reasons \cup {NoReason}
  BY RetryAssumption DEF Outcome

LEMMA TryTyped ==
  ASSUME TypeOK, NEW o \in Outcomes
  PROVE  /\ [outcome |-> o, at |-> clock] \in Try
         /\ Append(tries, [outcome |-> o, at |-> clock]) \in Seq(Try)
  BY DEF TypeOK, Try

\* Times are numbers.
LEMMA Elements ==
  ASSUME TypeOK
  PROVE  /\ \A j \in DOMAIN tries : tries[j].at \in Nat
         /\ \A i \in DOMAIN rows : rows[i].block_start \in Nat /\ rows[i].block_end \in Nat
<1>1. \A j \in DOMAIN tries : tries[j] \in Try
  BY DEF TypeOK
<1>2. \A i \in DOMAIN rows : rows[i] \in Row
  BY DEF TypeOK
<1> QED
  BY <1>1, <1>2 DEF Try, Row

\* The attempts of a row: those made before, and the last one.
LEMMA TriesOf ==
  ASSUME TypeOK, NEW o \in Outcomes
  PROVE  LET ts == Append(tries, [outcome |-> o, at |-> clock]) IN
         /\ Len(ts) = Len(tries) + 1 /\ ts # <<>>
         /\ DOMAIN ts = 1 .. Len(tries) + 1
         /\ \A j \in 1 .. Len(tries) : ts[j] = tries[j]
         /\ ts[Len(tries) + 1] = [outcome |-> o, at |-> clock]
<1> DEFINE t == [outcome |-> o, at |-> clock]
<1>1. t \in Try /\ tries \in Seq(Try)
  BY TryTyped DEF TypeOK
<1> HIDE DEF t
<1>2. /\ Len(Append(tries, t)) = Len(tries) + 1 /\ Append(tries, t) # <<>>
      /\ DOMAIN Append(tries, t) = 1 .. Len(tries) + 1
      /\ \A j \in 1 .. Len(tries) : Append(tries, t)[j] = tries[j]
      /\ Append(tries, t)[Len(tries) + 1] = t
  BY <1>1
<1> QED
  BY <1>2 DEF t

\* A row recorded in a window that opened after the last row closed, from
\* attempts that were all retryable but the last, keeps the invariant.
LEMMA RecordKeeps ==
  ASSUME RetryInv, NEW o \in Outcomes, NEW start \in Nat, NEW retried \in BOOLEAN,
         Len(rows) < NumBlocks,
         Record(o, start, retried),
         clock' = clock + 1, block_start' = start,
         start <= clock,
         \A j \in DOMAIN tries : start <= tries[j].at,
         \A i \in DOMAIN rows : rows[i].block_end <= start,
         retried <=> Len(tries) > 0,
         Len(tries) <= 2,
         Len(tries) = 2 => tries[1].outcome.raised /\ ~tries[2].outcome.raised
  PROVE  RetryInv'
<1> DEFINE r == NewRow(o, start, retried)
           ts == Append(tries, [outcome |-> o, at |-> clock])
           k == Len(rows)
<1>1. /\ rows' = Append(rows, r) /\ tries' = <<>> /\ retry_attempted' = FALSE
      /\ pc' \in {"first", "done"}
  BY DEF Record, NewRow
<1>2. /\ r.failed_reason = o.reason /\ r.retry_attempted = retried
      /\ r.block_start = start /\ r.block_end = clock + 1 /\ r.tries = ts
  BY DEF NewRow
<1>3. /\ Len(ts) = Len(tries) + 1 /\ ts # <<>>
      /\ DOMAIN ts = 1 .. Len(tries) + 1
      /\ \A j \in 1 .. Len(tries) : ts[j] = tries[j]
      /\ ts[Len(tries) + 1] = [outcome |-> o, at |-> clock]
      /\ ts \in Seq(Try)
  BY TriesOf, TryTyped DEF RetryInv
<1>4. /\ clock \in Nat /\ rows \in Seq(Row) /\ tries \in Seq(Try)
      /\ DOMAIN tries = 1 .. Len(tries) /\ Len(tries) \in Nat /\ k \in Nat
  BY DEF RetryInv, TypeOK
<1>5. r \in Row
  <2>1. o.reason \in Reasons \cup {NoReason}
    BY OutcomeFacts
  <2> QED
    BY <2>1, <1>3, <1>4 DEF NewRow, Row
<1> HIDE DEF r, ts
<1>6. /\ Len(rows') = k + 1 /\ rows' \in Seq(Row)
      /\ DOMAIN rows = 1 .. k /\ DOMAIN rows' = 1 .. k + 1
      /\ \A i \in 1 .. k : rows'[i] = rows[i]
      /\ rows'[k + 1] = r
  BY <1>1, <1>4, <1>5
<1> HIDE DEF k
<1>7. TypeOK'
  <2>1. k + 1 <= NumBlocks
    BY <1>4, RetryAssumption DEF k
  <2> QED
    <3>1. /\ clock' \in Nat /\ block_start' \in Nat /\ <<>> \in Seq(Try)
          /\ pc' \in {"first", "second", "coded", "done"}
      BY <1>1, <1>4
    <3> QED
      BY <3>1, <1>1, <1>6, <2>1 DEF TypeOK
<1>8. AttemptInv'
  BY <1>1 DEF AttemptInv
<1>9. WindowInv'
  <2>1. \A i \in 1 .. k : rows[i].block_end <= clock /\ rows[i].block_end \in Nat
    BY <1>4, <1>6, Elements DEF RetryInv, WindowInv
  <2>2. \A i \in DOMAIN rows' : rows'[i].block_end <= clock + 1
    BY <2>1, <1>2, <1>4, <1>6
  <2> QED
    BY <2>2, <1>1 DEF WindowInv
<1>10. RetryFlagHonest'
  <2>1. \A i \in 1 .. k : rows[i].retry_attempted <=> Len(rows[i].tries) > 1
    BY <1>6 DEF RetryInv, RetryFlagHonest
  <2>2. r.retry_attempted <=> Len(r.tries) > 1
    <3>1. r.retry_attempted = retried /\ Len(r.tries) = Len(tries) + 1
      BY <1>2, <1>3
    <3> QED
      BY <3>1, <1>4
  <2>3. \A i \in 1 .. k + 1 : rows'[i].retry_attempted <=> Len(rows'[i].tries) > 1
    <3> TAKE i \in 1 .. k + 1
    <3>1. CASE i \in 1 .. k
      BY <3>1, <2>1, <1>6
    <3>2. CASE i = k + 1
      BY <3>2, <2>2, <1>6
    <3> QED
      BY <3>1, <3>2, <1>4
  <2> QED
    BY <2>3, <1>6 DEF RetryFlagHonest
<1>11. OnlyTransientRetried'
  <2> DEFINE Fine(row) ==
        /\ row.tries # <<>>
        /\ \A j \in 1 .. Len(row.tries) - 1 : row.tries[j].outcome.retryable
        /\ row.failed_reason = row.tries[Len(row.tries)].outcome.reason
  <2>1. \A i \in 1 .. k : Fine(rows[i])
    BY <1>6 DEF RetryInv, OnlyTransientRetried
  <2>2. Fine(r)
    <3>1. \A j \in 1 .. Len(tries) : tries[j].outcome.retryable
      BY <1>4 DEF RetryInv, WindowInv
    <3>2. \A j \in 1 .. Len(tries) : ts[j].outcome.retryable
      BY <3>1, <1>3
    <3>3. ts[Len(ts)].outcome = o /\ Len(ts) - 1 = Len(tries)
      BY <1>3, <1>4
    <3> QED
      BY <3>2, <3>3, <1>2, <1>3
  <2> HIDE DEF Fine
  <2>3. \A i \in 1 .. k + 1 : Fine(rows'[i])
    <3> TAKE i \in 1 .. k + 1
    <3>1. CASE i \in 1 .. k
      BY <3>1, <2>1, <1>6
    <3>2. CASE i = k + 1
      BY <3>2, <2>2, <1>6
    <3> QED
      BY <3>1, <3>2, <1>4
  <2> QED
    BY <2>3, <1>6 DEF Fine, OnlyTransientRetried
<1>12. DispatchesBounded'
  <2> DEFINE Fine(row) ==
        /\ Len(row.tries) <= 3
        /\ Len(row.tries) = 3 => /\ row.tries[1].outcome.raised
                                /\ ~row.tries[2].outcome.raised
  <2>1. \A i \in 1 .. k : Fine(rows[i])
    BY <1>6 DEF RetryInv, DispatchesBounded
  <2>2. Fine(r)
    BY <1>2, <1>3, <1>4
  <2> HIDE DEF Fine
  <2>3. \A i \in 1 .. k + 1 : Fine(rows'[i])
    <3> TAKE i \in 1 .. k + 1
    <3>1. CASE i \in 1 .. k
      BY <3>1, <2>1, <1>6
    <3>2. CASE i = k + 1
      BY <3>2, <2>2, <1>6
    <3> QED
      BY <3>1, <3>2, <1>4
  <2> QED
    BY <2>3, <1>6 DEF Fine, DispatchesBounded
<1>13. RetriesInWindow'
  <2>1. \A j \in DOMAIN tries : tries[j].at < clock /\ tries[j].at \in Nat
    BY Elements DEF RetryInv, WindowInv
  <2>2. \A j \in DOMAIN r.tries :
          r.block_start <= r.tries[j].at /\ r.tries[j].at < r.block_end
    BY <2>1, <1>2, <1>3, <1>4
  <2>3. k # 0 => rows[k].block_end <= r.block_start
    BY <1>2, <1>4, <1>6
  <2>4. \A i \in DOMAIN rows' : \A j \in DOMAIN rows'[i].tries :
          /\ rows'[i].block_start <= rows'[i].tries[j].at
          /\ rows'[i].tries[j].at < rows'[i].block_end
    <3> DEFINE Fine(row) ==
          \A j \in DOMAIN row.tries :
            row.block_start <= row.tries[j].at /\ row.tries[j].at < row.block_end
    <3>1. \A i \in 1 .. k : Fine(rows[i])
      BY <1>6 DEF RetryInv, RetriesInWindow
    <3>2. Fine(r)
      BY <2>2
    <3> HIDE DEF Fine
    <3>3. \A i \in 1 .. k + 1 : Fine(rows'[i])
      <4> TAKE i \in 1 .. k + 1
      <4>1. CASE i \in 1 .. k
        BY <4>1, <3>1, <1>6
      <4>2. CASE i = k + 1
        BY <4>2, <3>2, <1>6
      <4> QED
        BY <4>1, <4>2, <1>4
    <3> QED
      BY <3>3, <1>6 DEF Fine
  <2>5. \A i \in 1 .. k : rows'[i].block_end <= rows'[i + 1].block_start
    <3> TAKE i \in 1 .. k
    <3>1. CASE i = k
      BY <3>1, <2>3, <1>4, <1>6
    <3>2. CASE i < k
      <4>1. i + 1 \in 1 .. k /\ i \in 1 .. k - 1
        BY <3>2, <1>4
      <4>2. rows[i].block_end <= rows[i + 1].block_start
        BY <4>1 DEF RetryInv, RetriesInWindow, k
      <4> QED
        BY <4>1, <4>2, <1>6
    <3> QED
      BY <3>1, <3>2, <1>4
  <2>6. Len(rows') - 1 = k
    BY <1>4, <1>6
  <2> QED
    BY <2>4, <2>5, <2>6 DEF RetriesInWindow
<1> QED
  BY <1>7, <1>8, <1>9, <1>10, <1>11, <1>12, <1>13 DEF RetryInv

LEMMA OneBefore == \A n \in Nat : n + 1 = 2 => n = 1
  OBVIOUS

\* Another attempt of the block under way keeps the invariant.
LEMMA RetryKeeps ==
  ASSUME RetryInv, NEW o \in Outcomes, NEW start \in Nat,
         Len(rows) < NumBlocks,
         Retry(o, IF o.raised THEN "second" ELSE "coded"),
         o.retryable,
         clock' = clock + 1, block_start' = start,
         start <= clock,
         \A j \in DOMAIN tries : start <= tries[j].at,
         \A i \in DOMAIN rows : rows[i].block_end <= start,
         Len(tries) <= 1,
         Len(tries) = 1 => tries[1].outcome.raised /\ ~o.raised
  PROVE  RetryInv'
<1> DEFINE ts == Append(tries, [outcome |-> o, at |-> clock])
<1>1. /\ Len(ts) = Len(tries) + 1 /\ ts # <<>>
      /\ DOMAIN ts = 1 .. Len(tries) + 1
      /\ \A j \in 1 .. Len(tries) : ts[j] = tries[j]
      /\ ts[Len(tries) + 1] = [outcome |-> o, at |-> clock]
      /\ ts \in Seq(Try)
  BY TriesOf, TryTyped DEF RetryInv
<1>2. /\ tries' = ts /\ rows' = rows /\ retry_attempted' = TRUE
      /\ pc' = IF o.raised THEN "second" ELSE "coded"
  BY DEF Retry
<1> HIDE DEF ts
<1>3. /\ clock \in Nat /\ tries \in Seq(Try) /\ DOMAIN tries = 1 .. Len(tries)
      /\ Len(tries) \in Nat /\ rows \in Seq(Row)
  BY DEF RetryInv, TypeOK
<1>4. TypeOK'
  BY <1>1, <1>2, <1>3, OutcomeFacts DEF RetryInv, TypeOK
<1>5. AttemptInv'
  <2>1. pc' \in {"second", "coded"} /\ Len(rows') < NumBlocks
    BY <1>2
  <2>2. retry_attempted' <=> tries' # <<>>
    BY <1>1, <1>2
  <2>3. pc' = "second" => Len(tries') = 1 /\ tries'[1].outcome.raised
    <3> SUFFICES ASSUME pc' = "second"
                 PROVE  Len(tries') = 1 /\ tries'[1].outcome.raised
      OBVIOUS
    <3>1. o.raised
      BY <1>2, OutcomeFacts
    <3>2. Len(tries) = 0
      BY <3>1, <1>3
    <3>3. Len(ts) = 1 /\ ts[1].outcome = o
      BY <3>2, <1>1
    <3> QED
      BY <3>1, <3>3, <1>2
  <2>4. pc' = "coded" => /\ Len(tries') \in 1 .. 2
                         /\ ~tries'[Len(tries')].outcome.raised
                         /\ Len(tries') = 2 => tries'[1].outcome.raised
    <3> SUFFICES ASSUME pc' = "coded"
                 PROVE  /\ Len(ts) \in 1 .. 2
                        /\ ~ts[Len(ts)].outcome.raised
                        /\ Len(ts) = 2 => ts[1].outcome.raised
      BY <1>2
    <3>1. ~o.raised
      BY <1>2, OutcomeFacts
    <3>2. Len(ts) \in 1 .. 2 /\ ts[Len(ts)].outcome = o
      BY <1>1, <1>3
    <3>3. Len(ts) = 2 => Len(tries) = 1 /\ ts[1] = tries[1]
      <4> SUFFICES ASSUME Len(ts) = 2
                   PROVE  Len(tries) = 1 /\ ts[1] = tries[1]
        OBVIOUS
      <4>0. Len(ts) = Len(tries) + 1 /\ Len(tries) \in Nat
        BY <1>1, <1>3
      <4>1. Len(tries) = 1
        BY <4>0, OneBefore, Zenon
      <4>2. 1 \in 1 .. Len(tries)
        BY <4>1
      <4> QED
        BY <4>1, <4>2, <1>1
    <3> QED
      BY <3>1, <3>2, <3>3
  <2> QED
    BY <2>1, <2>2, <2>3, <2>4 DEF AttemptInv
<1>6. WindowInv'
  <2>1. \A j \in DOMAIN tries : tries[j].at \in Nat /\ tries[j].at < clock
    BY Elements DEF RetryInv, WindowInv
  <2>2. \A j \in DOMAIN ts : /\ ts[j].outcome.retryable
                             /\ start <= ts[j].at /\ ts[j].at < clock + 1
    BY <2>1, <1>1, <1>3 DEF RetryInv, WindowInv
  <2>3. \A i \in DOMAIN rows : rows[i].block_end <= clock + 1
    BY <1>3, Elements DEF RetryInv, WindowInv
  <2> QED
    BY <2>2, <2>3, <1>2 DEF WindowInv
<1>7. /\ RetryFlagHonest' /\ OnlyTransientRetried' /\ DispatchesBounded' /\ RetriesInWindow'
  BY <1>2 DEF RetryInv, RetryFlagHonest, OnlyTransientRetried, DispatchesBounded,
              RetriesInWindow
<1> QED
  BY <1>4, <1>5, <1>6, <1>7 DEF RetryInv

\* The inductive invariant holds of every behaviour of the wrapper.
THEOREM RetryInvariant == Spec => []RetryInv
<1>1. Init => RetryInv
  <2> SUFFICES ASSUME Init
               PROVE  RetryInv
    OBVIOUS
  <2>1. Len(<<>>) = 0 /\ DOMAIN <<>> = {} /\ <<>> \in Seq(Try) /\ <<>> \in Seq(Row)
    OBVIOUS
  <2>2. TypeOK
    <3>1. 0 <= NumBlocks
      BY RetryAssumption
    <3>2. Len(rows) = 0
      BY <2>1 DEF Init
    <3> QED
      BY <2>1, <3>1, <3>2 DEF Init, TypeOK
  <2>3. AttemptInv
    BY DEF Init, AttemptInv
  <2> QED
    BY <2>1, <2>2, <2>3 DEF Init, RetryInv, WindowInv, RetryFlagHonest,
       OnlyTransientRetried, DispatchesBounded, RetriesInWindow
<1>2. ASSUME RetryInv, [Next]_vars
      PROVE  RetryInv'
  <2> USE <1>2
  <2>0. /\ clock \in Nat /\ block_start \in Nat /\ tries \in Seq(Try)
        /\ Len(tries) \in Nat /\ DOMAIN tries = 1 .. Len(tries)
        /\ \A i \in DOMAIN rows : rows[i].block_end <= clock
    BY DEF RetryInv, TypeOK, WindowInv
  <2>1. CASE FirstAttempt
    <3>1. Len(tries) = 0 /\ Len(rows) < NumBlocks /\ clock' = clock + 1 /\ block_start' = clock
      BY <2>1 DEF FirstAttempt, RetryInv, AttemptInv
    <3>2. PICK o \in Outcomes :
            \/ o.retryable /\ Retry(o, IF o.raised THEN "second" ELSE "coded")
            \/ ~o.retryable /\ Record(o, clock, FALSE)
      BY <2>1 DEF FirstAttempt
    <3>3. CASE o.retryable /\ Retry(o, IF o.raised THEN "second" ELSE "coded")
      BY <3>1, <3>3, <2>0, RetryKeeps
    <3>4. CASE Record(o, clock, FALSE)
      <4>1. /\ clock <= clock /\ \A j \in DOMAIN tries : clock <= tries[j].at
            /\ FALSE <=> Len(tries) > 0
            /\ Len(tries) <= 2
            /\ Len(tries) = 2 => tries[1].outcome.raised /\ ~tries[2].outcome.raised
        BY <3>1, <2>0
      <4> QED
        BY <4>1, <3>1, <3>4, <2>0, RecordKeeps, Zenon
    <3> QED
      BY <3>2, <3>3, <3>4
  <2>2. ASSUME pc \in {"second", "coded"}
        PROVE  /\ Len(rows) < NumBlocks
               /\ block_start <= clock
               /\ \A j \in DOMAIN tries : block_start <= tries[j].at
               /\ \A i \in DOMAIN rows : rows[i].block_end <= block_start
    <3>1. Len(rows) < NumBlocks /\ 1 \in DOMAIN tries
      BY <2>0, <2>2 DEF RetryInv, AttemptInv
    <3>2. /\ \A j \in DOMAIN tries : block_start <= tries[j].at /\ tries[j].at < clock
          /\ \A i \in DOMAIN rows : rows[i].block_end <= block_start
      BY <2>2 DEF RetryInv, WindowInv
    <3>3. block_start <= tries[1].at /\ tries[1].at < clock /\ tries[1].at \in Nat
      BY <3>1, <3>2, Elements DEF RetryInv
    <3> QED
      BY <3>1, <3>2, <3>3, <2>0
  <2>3. CASE SecondAttempt
    <3>1. /\ Len(tries) = 1 /\ tries[1].outcome.raised
          /\ clock' = clock + 1 /\ block_start' = block_start
      BY <2>3 DEF SecondAttempt, RetryInv, AttemptInv
    <3>2. PICK o \in Outcomes :
            \/ ~o.raised /\ o.retryable /\ Retry(o, "coded")
            \/ (o.raised \/ ~o.retryable) /\ Record(o, block_start, TRUE)
      BY <2>3 DEF SecondAttempt
    <3>3. CASE ~o.raised /\ o.retryable /\ Retry(o, "coded")
      <4>1. Retry(o, IF o.raised THEN "second" ELSE "coded")
        BY <3>3
      <4> QED
        BY <4>1, <3>1, <3>3, <2>0, <2>2, <2>3, RetryKeeps DEF SecondAttempt
    <3>4. CASE Record(o, block_start, TRUE)
      <4>1. /\ TRUE <=> Len(tries) > 0
            /\ Len(tries) <= 2
            /\ Len(tries) = 2 => tries[1].outcome.raised /\ ~tries[2].outcome.raised
            /\ pc \in {"second", "coded"}
        BY <3>1, <2>0, <2>3 DEF SecondAttempt
      <4> QED
        BY <4>1, <3>1, <3>4, <2>0, <2>2, RecordKeeps, Zenon
    <3> QED
      BY <3>2, <3>3, <3>4
  <2>4. CASE CodedAttempt
    <3>1. /\ Len(tries) \in 1 .. 2 /\ ~tries[Len(tries)].outcome.raised
          /\ Len(tries) = 2 => tries[1].outcome.raised
          /\ clock' = clock + 1 /\ block_start' = block_start
      BY <2>4 DEF CodedAttempt, RetryInv, AttemptInv
    <3>2. PICK o \in Outcomes : Record(o, block_start, TRUE)
      BY <2>4 DEF CodedAttempt
    <3>3. /\ TRUE <=> Len(tries) > 0
          /\ Len(tries) <= 2
          /\ Len(tries) = 2 => tries[1].outcome.raised /\ ~tries[2].outcome.raised
          /\ pc \in {"second", "coded"}
      BY <3>1, <2>0, <2>4 DEF CodedAttempt
    <3> QED
      BY <3>1, <3>2, <3>3, <2>0, <2>2, RecordKeeps, Zenon
  <2>5. CASE UNCHANGED vars
    BY <2>5 DEF vars, RetryInv, TypeOK, AttemptInv, WindowInv, RetryFlagHonest,
       OnlyTransientRetried, DispatchesBounded, RetriesInWindow
  <2> QED
    BY <2>1, <2>3, <2>4, <2>5 DEF Next
<1> QED
  BY <1>1, <1>2, PTL DEF Spec

\* The flag tells a retried block from one measured at once.
THEOREM FlagIsHonest == Spec => []RetryFlagHonest
  BY RetryInvariant, PTL DEF RetryInv

\* Only transient failures are followed by another attempt, and the last
\* attempt is the one that counts.
THEOREM TransientOnly == Spec => []OnlyTransientRetried
  BY RetryInvariant, PTL DEF RetryInv

\* Three dispatches of a block at most.
THEOREM ThreeAtMost == Spec => []DispatchesBounded
  BY RetryInvariant, PTL DEF RetryInv

\* Retries stay in the windows of their blocks, which do not overlap.
THEOREM WindowsHold == Spec => []RetriesInWindow
  BY RetryInvariant, PTL DEF RetryInv
============================================================================
