----------------------- MODULE SweepCheckpoint_proofs -----------------------
(***************************************************************************)
(* Theorems about SweepCheckpoint, for every dispatch order, every set of  *)
(* cohorts, every choice of durations and any number of invocations.       *)
(***************************************************************************)
EXTENDS SweepCheckpoint, FiniteSetTheorems, TLAPS

----------------------------------------------------------------------------
(***************************************************************************)
(* Sequences of measurements.                                              *)
(***************************************************************************)
LEMMA AppendFacts ==
  ASSUME NEW S, NEW s \in Seq(S), NEW x \in S
  PROVE  /\ Append(s, x) \in Seq(S)
         /\ Len(Append(s, x)) = Len(s) + 1
         /\ DOMAIN Append(s, x) = (DOMAIN s) \cup {Len(s) + 1}
         /\ Append(s, x)[Len(s) + 1] = x
         /\ \A i \in DOMAIN s : Append(s, x)[i] = s[i] /\ i # Len(s) + 1
  OBVIOUS

LEMMA AllButLastFacts ==
  ASSUME NEW S, NEW s \in Seq(S)
  PROVE  /\ AllButLast(s) \in Seq(S)
         /\ DOMAIN AllButLast(s) \subseteq DOMAIN s
         /\ \A i \in DOMAIN AllButLast(s) : AllButLast(s)[i] = s[i]
  BY DEF AllButLast

LEMMA EmptyFacts ==
  ASSUME NEW S
  PROVE  <<>> \in Seq(S) /\ Len(<<>>) = 0 /\ DOMAIN <<>> = {}
  OBVIOUS

LEMMA IsSeq ==
  ASSUME NEW S, NEW n \in Nat, NEW s \in [1..n -> S]
  PROVE  s \in Seq(S) /\ Len(s) = n
  OBVIOUS

LEMMA HeadTailFacts ==
  ASSUME NEW S, NEW s \in Seq(S), s # <<>>
  PROVE  Head(s) \in S /\ Tail(s) \in Seq(S)
  OBVIOUS

LEMMA MeasuredBlocks ==
  ASSUME NEW ms \in Seq(Measurement)
  PROVE  /\ BlocksIn(ms) \subseteq Blocks
         /\ \A i \in DOMAIN ms : ms[i] \in Measurement
<1>1. \A i \in DOMAIN ms : ms[i] \in Measurement
  OBVIOUS
<1>2. \A i \in DOMAIN ms : ms[i].block \in Blocks
  BY <1>1 DEF Measurement
<1> QED
  BY <1>1, <1>2 DEF BlocksIn

\* A measurement of a new block keeps a list free of repetitions.
LEMMA AppendMeasurement ==
  ASSUME NEW ms \in Seq(Measurement), NEW m \in Measurement
  PROVE  /\ BlocksIn(Append(ms, m)) = BlocksIn(ms) \cup {m.block}
         /\ UniqueBlocks(ms) /\ m.block \notin BlocksIn(ms) => UniqueBlocks(Append(ms, m))
         /\ \A p : SignedBy(ms, p) /\ m.by = p => SignedBy(Append(ms, m), p)
<1> DEFINE l == Append(ms, m)
<1>1. /\ DOMAIN l = (DOMAIN ms) \cup {Len(ms) + 1}
      /\ l[Len(ms) + 1] = m
      /\ \A i \in DOMAIN ms : l[i] = ms[i] /\ i # Len(ms) + 1
  BY AppendFacts
<1> HIDE DEF l
<1>2. BlocksIn(l) = BlocksIn(ms) \cup {m.block}
  BY <1>1 DEF BlocksIn
<1>3. UniqueBlocks(ms) /\ m.block \notin BlocksIn(ms) => UniqueBlocks(l)
  BY <1>1 DEF BlocksIn, UniqueBlocks
<1>4. \A p : SignedBy(ms, p) /\ m.by = p => SignedBy(l, p)
  BY <1>1 DEF SignedBy
<1> QED
  BY <1>2, <1>3, <1>4 DEF l

\* Losing the last measurement brings in nothing new.
LEMMA DropMeasurement ==
  ASSUME NEW ms \in Seq(Measurement)
  PROVE  /\ BlocksIn(AllButLast(ms)) \subseteq BlocksIn(ms)
         /\ UniqueBlocks(ms) => UniqueBlocks(AllButLast(ms))
         /\ \A p : SignedBy(ms, p) => SignedBy(AllButLast(ms), p)
<1> DEFINE l == AllButLast(ms)
<1>1. DOMAIN l \subseteq DOMAIN ms /\ \A i \in DOMAIN l : l[i] = ms[i]
  BY AllButLastFacts
<1> HIDE DEF l
<1>2. BlocksIn(l) \subseteq BlocksIn(ms)
  BY <1>1 DEF BlocksIn
<1>3. UniqueBlocks(ms) => UniqueBlocks(l)
  BY <1>1 DEF UniqueBlocks
<1>4. \A p : SignedBy(ms, p) => SignedBy(l, p)
  BY <1>1 DEF SignedBy
<1> QED
  BY <1>2, <1>3, <1>4 DEF l

----------------------------------------------------------------------------
(***************************************************************************)
(* Type correctness.                                                       *)
(***************************************************************************)
LEMMA ConstantFacts ==
  /\ N \in Nat
  /\ DOMAIN Order = 1..N
  /\ \A i \in 1..N : Order[i] \in Blocks
  BY OrderAssumption DEF N, Blocks

\* What one append, finished or interrupted, does to the file.
LEMMA FileAfterAppend ==
  ASSUME TypeOK, NEW kind \in {"meas", "anchors"}, NEW x,
         kind = "meas" => x \in Measurement,
         kind = "anchors" => x \in Snapshot,
         NEW f, f = AppendLine(file, kind, x) \/ f \in InterruptedAppend(file, kind, x)
  PROVE  /\ f \in File
         /\ f.hdr \in {file.hdr, NoHeader}
         /\ f.meas \in {file.meas, AllButLast(file.meas)}
              \cup (IF kind = "meas" THEN {Append(file.meas, x)} ELSE {})
<1>1. file \in File
  BY DEF TypeOK
<1>2. /\ AllButLast(file.meas) \in Seq(Measurement)
      /\ AllButLast(file.anchors) \in Seq(Snapshot)
  BY <1>1, AllButLastFacts DEF File
<1>3. /\ Spoiled(file) \in File
      /\ Spoiled(file).hdr \in {file.hdr, NoHeader}
      /\ Spoiled(file).meas \in {file.meas, AllButLast(file.meas)}
  BY <1>1, <1>2 DEF Spoiled, File, Tails
<1>4. /\ PlusLine(file, kind, x) \in File
      /\ PlusLine(file, kind, x).hdr = file.hdr
      /\ PlusLine(file, kind, x).meas
           = IF kind = "meas" THEN Append(file.meas, x) ELSE file.meas
  BY <1>1, AppendFacts DEF PlusLine, File
<1> DEFINE PL == PlusLine(file, kind, x)
           SP == Spoiled(file)
<1>a. /\ file \in File /\ SP \in File /\ PL \in File
      /\ SP.hdr \in {file.hdr, NoHeader} /\ PL.hdr = file.hdr
      /\ SP.meas \in {file.meas, AllButLast(file.meas)}
      /\ PL.meas = IF kind = "meas" THEN Append(file.meas, x) ELSE file.meas
  BY <1>1, <1>3, <1>4
<1>5. CASE f = AppendLine(file, kind, x)
  <2>1. f \in {PL, [SP EXCEPT !.tail = "clean"]}
    BY <1>5 DEF AppendLine
  <2> HIDE DEF PL, SP
  <2> QED
    BY <1>a, <2>1 DEF File, Tails
<1>6. CASE f \in InterruptedAppend(file, kind, x)
  <2>1. f \in {[file EXCEPT !.tail = "partial"], [PL EXCEPT !.tail = kind], SP}
    BY <1>6 DEF InterruptedAppend
  <2> HIDE DEF PL, SP
  <2> QED
    BY <1>a, <2>1 DEF File, Tails
<1> QED
  BY <1>5, <1>6

LEMMA HeaderTypes ==
  ASSUME NEW p \in Params
  PROVE  EmptyFile \in File /\ HeaderLine(p) \in File /\ InterruptedHeader(p) \subseteq File
<1>1. EmptyFile \in File
  BY EmptyFacts DEF EmptyFile, File, Tails
<1>2. HeaderLine(p) \in File
  BY <1>1 DEF HeaderLine, File
<1> QED
  BY <1>1, <1>2 DEF InterruptedHeader, File, Tails

LEMMA NewMeasurementType ==
  ASSUME TypeOK, pos <= N
  PROVE  Order[pos] \in Blocks /\ NewMeasurement \in Measurement
  BY ConstantFacts DEF TypeOK, NewMeasurement, Measurement, IterIdx

\* A capture leaves snapshots to write exactly when it goes to write them.
LEMMA CaptureTypes ==
  ASSUME TypeOK, NEW mark \in Nat, NEW busy \in Nat, NEW after \in Pcs,
         after \in {"loop", "lastProbe"}, CaptureAnchorBlock(mark, busy, after)
  PROVE  /\ pending' \in Seq(Snapshot) /\ elapsed' \in Nat
         /\ ret' = after /\ ret' \in {"loop", "lastProbe"}
         /\ pc' \in {after, "anchorWrite"}
         /\ pc' = "anchorWrite" => pending' # <<>>
<1>1. PICK yield \in AnchorYields, d \in AnchorTicks :
        /\ pending' = [i \in DOMAIN yield |-> [cohort |-> yield[i], mark |-> mark]]
        /\ elapsed' = elapsed + busy + d
  BY DEF CaptureAnchorBlock
<1>2. yield \in Seq(Cohorts) /\ d \in Nat
  BY EnvironmentAssumption, ClockAssumption
<1>3. pending' \in Seq(Snapshot)
  <2>1. /\ Len(yield) \in Nat /\ DOMAIN yield = 1..Len(yield)
        /\ \A i \in DOMAIN yield : yield[i] \in Cohorts
    BY <1>2
  <2>2. \A i \in DOMAIN yield : [cohort |-> yield[i], mark |-> mark] \in Snapshot
    BY <2>1 DEF Snapshot
  <2>3. pending' \in [1..Len(yield) -> Snapshot]
    BY <1>1, <2>1, <2>2
  <2> QED
    BY <2>1, <2>3, IsSeq
<1> QED
  BY <1>1, <1>2, <1>3 DEF CaptureAnchorBlock, TypeOK

\* The values every process starts from.
LEMMA InitialTypes ==
  /\ <<>> \in Seq(Measurement) /\ <<>> \in Seq(Snapshot) /\ <<>> \in Seq(Nat)
  /\ 1 \in 1..(N + 1) /\ 0 \in Nat
  /\ {} \subseteq Blocks
  /\ 0 \in 0..MaxStarts
  /\ starts \in 0..MaxStarts /\ starts < MaxStarts => starts + 1 \in 0..MaxStarts
  BY EmptyFacts, ConstantFacts, EnvironmentAssumption

THEOREM TypeCorrect == Spec => []TypeOK
<1> USE DEF Pcs
<1>1. Init => TypeOK
  BY InitialTypes, HeaderTypes DEF Init, TypeOK
<1>2. ASSUME TypeOK, [Next]_vars
      PROVE  TypeOK'
  <2> USE <1>2 DEF TypeOK
  <2>1. CASE BeginSweep
    <3>1. PICK d \in ProbeTicks :
            \/ /\ snapshots = <<>>
               /\ CaptureAnchorBlock(0, d, "loop")
            \/ /\ snapshots # <<>>
               /\ pc' = "loop" /\ elapsed' = elapsed + d
               /\ UNCHANGED <<ret, pending>>
      BY <2>1 DEF BeginSweep
    <3>2. d \in Nat
      BY ClockAssumption
    <3>3. /\ pending' \in Seq(Snapshot) /\ elapsed' \in Nat
          /\ ret' \in {"loop", "lastProbe"} /\ pc' \in Pcs
          /\ pc' = "anchorWrite" => pending' # <<>>
      BY <3>1, <3>2, CaptureTypes
    <3> QED
      BY <2>1, <3>3 DEF BeginSweep
  <2>2. CASE WriteAnchor
    <3>1. pending # <<>>
      BY <2>2 DEF WriteAnchor
    <3> QED
      BY <2>2, <3>1, FileAfterAppend, HeadTailFacts DEF WriteAnchor
  <2>3. CASE SkipBlock
    BY <2>3, ConstantFacts DEF SkipBlock, Advance
  <2>4. CASE RunBlock
    <3>1. NewMeasurement \in Measurement /\ Order[pos] \in Blocks
      BY <2>4, NewMeasurementType DEF RunBlock
    <3>2. file' \in File
      BY <2>4, <3>1, FileAfterAppend DEF RunBlock
    <3>3. measurements' \in Seq(Measurement)
      BY <2>4, <3>1 DEF RunBlock
    <3> QED
      BY <2>4, <3>1, <3>2, <3>3, ConstantFacts, ClockAssumption DEF RunBlock, Advance
  <2>5. CASE TupleEnd
    BY <2>5, CaptureTypes DEF TupleEnd
  <2>6. CASE SweepEnd
    BY <2>6, CaptureTypes DEF SweepEnd
  <2>7. CASE LastProbe
    BY <2>7 DEF LastProbe
  <2>8. ASSUME NEW p \in Params, StartFresh(p)
        PROVE  TypeOK'
    BY <2>8, HeaderTypes, InitialTypes
       DEF StartFresh, FreshMemory, Invocation
  <2>9. ASSUME NEW p \in Params, Resume(p)
        PROVE  TypeOK'
    <3>1. file.meas \in Seq(Measurement) /\ file.anchors \in Seq(Snapshot)
      BY DEF File
    <3>2. BlocksIn(file.meas) \subseteq Blocks
      BY <3>1, MeasuredBlocks
    <3> QED
      BY <2>9, <3>1, <3>2, InitialTypes DEF Resume, FreshMemory, Invocation, CompletedKeys
  <2>10. ASSUME NEW p \in Params, CrashInHeader(p)
         PROVE  TypeOK'
    BY <2>10, HeaderTypes, EnvironmentAssumption DEF CrashInHeader, Invocation, memory
  <2>11. CASE Crash
    BY <2>11, InitialTypes DEF Crash, Dies
  <2>12. CASE CrashInAppend
    <3>1. file' \in File
      <4>1. CASE pc = "loop" /\ pos <= N /\ file' \in InterruptedAppend(file, "meas", NewMeasurement)
        BY <4>1, NewMeasurementType, FileAfterAppend
      <4>2. CASE pc = "anchorWrite" /\ file' \in InterruptedAppend(file, "anchors", Head(pending))
        BY <4>2, FileAfterAppend, HeadTailFacts
      <4> QED
        BY <2>12, <4>1, <4>2 DEF CrashInAppend
    <3> QED
      BY <2>12, <3>1, InitialTypes DEF CrashInAppend, Dies
  <2>13. CASE UNCHANGED vars
    BY <2>13 DEF vars, memory
  <2> QED
    BY <2>1, <2>2, <2>3, <2>4, <2>5, <2>6, <2>7, <2>8, <2>9, <2>10, <2>11,
       <2>12, <2>13 DEF Next, ProcessStep, Invoke
<1> QED
  BY <1>1, <1>2, PTL DEF Spec

----------------------------------------------------------------------------
(***************************************************************************)
(* Every block once, under one run identity, whatever crashes leave behind *)
(* in the file: the inductive invariant SweepInv.                          *)
(***************************************************************************)
LEMMA PassedGrows ==
  ASSUME TypeOK, pos <= N, pos' = pos + 1
  PROVE  Passed' = Passed \cup {Order[pos]} /\ Order[pos] \notin Passed
<1>1. pos \in 1..N
  BY ConstantFacts DEF TypeOK
<1>2. {j \in DOMAIN Order : j < pos + 1} = {j \in DOMAIN Order : j < pos} \cup {pos}
  BY <1>1, ConstantFacts
<1>3. \A j \in DOMAIN Order : j < pos => Order[j] # Order[pos]
  BY <1>1, ConstantFacts, OrderAssumption
<1> QED
  BY <1>2, <1>3 DEF Passed

LEMMA AllPassed ==
  ASSUME pos = N + 1
  PROVE  Passed = Blocks
<1>1. {j \in DOMAIN Order : j < pos} = DOMAIN Order
  BY ConstantFacts
<1> QED
  BY <1>1 DEF Passed, Blocks

\* A running process that appends a line keeps what the invariant says of the
\* file, whether the append finishes or not.
LEMMA AppendKeepsFile ==
  ASSUME TypeOK, SweepInv, Up, NEW kind \in {"meas", "anchors"}, NEW x,
         kind = "meas" => x \in Measurement /\ x.by = params
                          /\ x.block \notin BlocksIn(measurements),
         kind = "anchors" => x \in Snapshot,
         NEW f, f = AppendLine(file, kind, x) \/ f \in InterruptedAppend(file, kind, x)
  PROVE  /\ UniqueBlocks(f.meas)
         /\ SignedBy(f.meas, params)
         /\ f.hdr \in {params, NoHeader}
         /\ BlocksIn(f.meas) \subseteq BlocksIn(file.meas)
              \cup (IF kind = "meas" THEN {x.block} ELSE {})
<1>1. file.meas \in Seq(Measurement)
  BY DEF TypeOK, File
<1>2. /\ f.hdr \in {file.hdr, NoHeader}
      /\ f.meas \in {file.meas, AllButLast(file.meas)}
           \cup (IF kind = "meas" THEN {Append(file.meas, x)} ELSE {})
  BY FileAfterAppend
<1>3. /\ UniqueBlocks(file.meas) /\ SignedBy(file.meas, params)
      /\ file.hdr \in {params, NoHeader}
      /\ BlocksIn(file.meas) \subseteq BlocksIn(measurements)
  BY DEF SweepInv, FileInv, MemoryInv
<1>4. CASE f.meas \in {file.meas, AllButLast(file.meas)}
  BY <1>1, <1>2, <1>3, <1>4, DropMeasurement
<1>5. CASE kind = "meas" /\ f.meas = Append(file.meas, x)
  BY <1>1, <1>2, <1>3, <1>5, AppendMeasurement
<1> QED
  BY <1>2, <1>4, <1>5

\* The file part of the invariant, from what one process wrote.
LEMMA FileInvFromParams ==
  ASSUME NEW f, NEW p, UniqueBlocks(f.meas), SignedBy(f.meas, p),
         f.hdr \in {p, NoHeader}
  PROVE  UniqueBlocks(f.meas) /\ (f.hdr # NoHeader => SignedBy(f.meas, f.hdr))
  OBVIOUS

\* A block the loop runs is in neither the memory nor the file.
LEMMA NewBlockIsNew ==
  ASSUME TypeOK, SweepInv, pc = "loop", pos <= N, Order[pos] \notin completed
  PROVE  /\ NewMeasurement \in Measurement
         /\ NewMeasurement.block = Order[pos] /\ NewMeasurement.by = params
         /\ Order[pos] \notin BlocksIn(measurements)
<1>1. BlocksIn(measurements) = completed \cup Passed
  BY DEF SweepInv, MemoryInv, Up
<1>2. pos \in 1..N
  BY ConstantFacts DEF TypeOK
<1>3. Order[pos] \notin Passed
  <2>1. \A j \in DOMAIN Order : j < pos => Order[j] # Order[pos]
    BY <1>2, ConstantFacts, OrderAssumption
  <2> QED
    BY <2>1 DEF Passed
<1> QED
  BY <1>1, <1>3, NewMeasurementType DEF NewMeasurement

LEMMA CaptureStays ==
  ASSUME NEW mark, NEW busy, NEW after, CaptureAnchorBlock(mark, busy, after)
  PROVE  (pc' = after \/ pc' = "anchorWrite") /\ ret' = after
  BY DEF CaptureAnchorBlock

LEMMA SweepInvStep ==
  ASSUME TypeOK, SweepInv, [Next]_vars
  PROVE  SweepInv'
<1> USE DEF Up, LoopIsOver
\* Steps that leave the blocks of the file and of the memory alone.
<1>a. ASSUME UNCHANGED <<file, params, pos, completed, measurements>>, Up,
             LoopIsOver' => LoopIsOver \/ pos = N + 1
      PROVE  SweepInv'
  BY <1>a DEF SweepInv, FileInv, MemoryInv, Passed
<1>1. CASE BeginSweep
  <2>1. ~LoopIsOver'
    BY <1>1, CaptureStays DEF BeginSweep
  <2> QED
    BY <1>1, <1>a, <2>1 DEF BeginSweep
<1>2. CASE WriteAnchor
  <2>1. Head(pending) \in Snapshot
    BY <1>2, HeadTailFacts DEF WriteAnchor, TypeOK
  <2>2. /\ UniqueBlocks(file'.meas) /\ SignedBy(file'.meas, params)
        /\ file'.hdr \in {params, NoHeader}
        /\ BlocksIn(file'.meas) \subseteq BlocksIn(file.meas)
    BY <1>2, <2>1, AppendKeepsFile DEF WriteAnchor
  <2>3. MemoryInv /\ UNCHANGED <<params, pos, completed, measurements, ret>>
    BY <1>2 DEF WriteAnchor, SweepInv
  <2>4. LoopIsOver' => LoopIsOver
    BY <1>2 DEF WriteAnchor, TypeOK
  <2> QED
    BY <2>2, <2>3, <2>4, FileInvFromParams
       DEF SweepInv, FileInv, MemoryInv, Passed
<1>3. CASE SkipBlock
  <2>1. Passed' = Passed \cup {Order[pos]} /\ Order[pos] \in completed
    BY <1>3, PassedGrows DEF SkipBlock, Advance
  <2>2. MemoryInv /\ UNCHANGED <<file, params, completed, measurements, ret>>
    BY <1>3 DEF SkipBlock, SweepInv
  <2>3. ~LoopIsOver'
    BY <1>3 DEF SkipBlock, Advance
  <2> QED
    BY <2>1, <2>2, <2>3 DEF SweepInv, FileInv, MemoryInv
<1>4. CASE RunBlock
  <2>1. /\ NewMeasurement \in Measurement
        /\ NewMeasurement.block = Order[pos] /\ NewMeasurement.by = params
        /\ Order[pos] \notin BlocksIn(measurements)
    BY <1>4, NewBlockIsNew DEF RunBlock
  <2>2. /\ UniqueBlocks(file'.meas) /\ SignedBy(file'.meas, params)
        /\ file'.hdr \in {params, NoHeader}
        /\ BlocksIn(file'.meas) \subseteq BlocksIn(file.meas) \cup {Order[pos]}
    BY <1>4, <2>1, AppendKeepsFile DEF RunBlock
  <2>3. MemoryInv /\ UNCHANGED <<params, completed>>
        /\ measurements' = Append(measurements, NewMeasurement)
        /\ measurements \in Seq(Measurement)
    BY <1>4 DEF RunBlock, SweepInv, TypeOK
  <2>4. /\ BlocksIn(measurements') = BlocksIn(measurements) \cup {Order[pos]}
        /\ UniqueBlocks(measurements') /\ SignedBy(measurements', params)
    BY <2>1, <2>3, AppendMeasurement DEF MemoryInv, SweepInv
  <2>5. Passed' = Passed \cup {Order[pos]}
    BY <1>4, PassedGrows DEF RunBlock, Advance
  <2>6. ~LoopIsOver'
    BY <1>4 DEF RunBlock, Advance
  <2> QED
    BY <2>2, <2>3, <2>4, <2>5, <2>6, FileInvFromParams
       DEF SweepInv, FileInv, MemoryInv
<1>5. CASE TupleEnd
  <2>1. ~LoopIsOver'
    BY <1>5, CaptureStays DEF TupleEnd
  <2> QED
    BY <1>5, <1>a, <2>1 DEF TupleEnd
<1>6. CASE SweepEnd
  <2>1. pos = N + 1
    BY <1>6, ConstantFacts DEF SweepEnd, TypeOK
  <2> QED
    BY <1>6, <1>a, <2>1 DEF SweepEnd
<1>7. CASE LastProbe
  BY <1>7, <1>a DEF LastProbe
<1>8. ASSUME NEW p \in Params, StartFresh(p)
      PROVE  SweepInv'
  <2>1. file'.meas = <<>> /\ measurements' = <<>> /\ file'.hdr = p /\ params' = p
    BY <1>8 DEF StartFresh, HeaderLine, EmptyFile
  <2>2. completed' = {} /\ pos' = 1 /\ ~LoopIsOver'
    BY <1>8 DEF StartFresh, FreshMemory
  <2>3. Passed' = {}
    BY <2>2, ConstantFacts DEF Passed
  <2> QED
    BY <2>1, <2>2, <2>3, EmptyFacts
       DEF SweepInv, FileInv, MemoryInv, UniqueBlocks, SignedBy, BlocksIn
<1>9. ASSUME NEW p \in Params, Resume(p)
      PROVE  SweepInv'
  <2>1. /\ UNCHANGED file /\ file.hdr = p /\ params' = p
        /\ measurements' = file.meas /\ completed' = BlocksIn(file.meas)
        /\ pos' = 1 /\ ~LoopIsOver'
    BY <1>9 DEF Resume, FreshMemory, GateAccepts, CompletedKeys
  <2>2. Passed' = {}
    BY <2>1, ConstantFacts DEF Passed
  <2>3. UniqueBlocks(file.meas) /\ SignedBy(file.meas, p)
    BY <2>1, HeaderAssumption DEF SweepInv, FileInv
  <2> QED
    BY <2>1, <2>2, <2>3 DEF SweepInv, FileInv, MemoryInv
<1>10. ASSUME NEW p \in Params, CrashInHeader(p)
       PROVE  SweepInv'
  <2>1. file'.meas = <<>> /\ ~Up' /\ UNCHANGED measurements
    BY <1>10 DEF CrashInHeader, Invocation, InterruptedHeader, HeaderLine, EmptyFile, memory
  <2> QED
    BY <2>1, EmptyFacts DEF SweepInv, FileInv, UniqueBlocks, SignedBy
<1>11. CASE Crash
  BY <1>11, EmptyFacts DEF Crash, Dies, SweepInv, FileInv, UniqueBlocks
<1>12. CASE CrashInAppend
  <2>1. UniqueBlocks(file'.meas) /\ SignedBy(file'.meas, params) /\ file'.hdr \in {params, NoHeader}
    <3>1. CASE pc = "loop" /\ pos <= N /\ Order[pos] \notin completed
               /\ file' \in InterruptedAppend(file, "meas", NewMeasurement)
      BY <3>1, NewBlockIsNew, AppendKeepsFile
    <3>2. CASE pc = "anchorWrite" /\ file' \in InterruptedAppend(file, "anchors", Head(pending))
      <4>1. Head(pending) \in Snapshot
        BY <3>2, HeadTailFacts DEF TypeOK
      <4> QED
        BY <3>2, <4>1, AppendKeepsFile
    <3> QED
      BY <1>12, <3>1, <3>2 DEF CrashInAppend
  <2>2. ~Up' /\ UniqueBlocks(measurements')
    BY <1>12, EmptyFacts DEF CrashInAppend, Dies, UniqueBlocks
  <2> QED
    BY <2>1, <2>2, FileInvFromParams DEF SweepInv, FileInv
<1>13. CASE UNCHANGED vars
  BY <1>13 DEF vars, memory, SweepInv, FileInv, MemoryInv, Passed
<1> QED
  BY <1>1, <1>2, <1>3, <1>4, <1>5, <1>6, <1>7, <1>8, <1>9, <1>10, <1>11, <1>12,
     <1>13 DEF Next, ProcessStep, Invoke

THEOREM SweepInvariant == Spec => []SweepInv
<1>1. Init => SweepInv
  BY EmptyFacts DEF Init, EmptyFile, SweepInv, FileInv, UniqueBlocks, SignedBy, Up
<1>2. TypeOK /\ SweepInv /\ [Next]_vars => SweepInv'
  BY SweepInvStep
<1> QED
  BY <1>1, <1>2, TypeCorrect, PTL DEF Spec

\* No block of a sweep is measured twice.
THEOREM EachBlockOnce == Spec => []MeasuredOnce
<1>1. SweepInv => MeasuredOnce
  BY DEF SweepInv, UniqueBlocks, MeasuredOnce
<1> QED
  BY <1>1, SweepInvariant, PTL

\* A sweep that returns has measured every block.
THEOREM EveryBlockMeasured == Spec => []CompleteOnDone
<1>1. TypeOK /\ SweepInv => CompleteOnDone
  <2> SUFFICES ASSUME TypeOK, SweepInv, pc \in {"lastProbe", "done"}
               PROVE  BlocksIn(measurements) = Blocks
    BY DEF CompleteOnDone
  <2>1. MemoryInv /\ pos = N + 1
    BY DEF SweepInv, MemoryInv, Up, LoopIsOver
  <2> QED
    BY <2>1, AllPassed DEF MemoryInv, TypeOK
<1> QED
  BY <1>1, TypeCorrect, SweepInvariant, PTL

\* The results of a sweep carry one run identity.
THEOREM OneRunIdentity == Spec => []NoMixedParams
<1>1. SweepInv => NoMixedParams
  BY DEF SweepInv, MemoryInv, SignedBy, NoMixedParams
<1> QED
  BY <1>1, SweepInvariant, PTL

----------------------------------------------------------------------------
(***************************************************************************)
(* Without torn lines the file is a prefix of the dispatch order and the   *)
(* mirror of the memory: the inductive invariant LedgerInv.                *)
(***************************************************************************)
LEMMA CleanAppend ==
  ASSUME TypeOK, file.tail = "clean", NEW kind \in {"meas", "anchors"}, NEW x
  PROVE  /\ AppendLine(file, kind, x).tail = "clean"
         /\ AppendLine(file, kind, x).meas
              = IF kind = "meas" THEN Append(file.meas, x) ELSE file.meas
         /\ AppendLine(file, kind, x).anchors
              = IF kind = "meas" THEN file.anchors ELSE Append(file.anchors, x)
<1>1. file \in File
  BY DEF TypeOK
<1> QED
  BY <1>1 DEF AppendLine, PlusLine, File

\* What the loop skips is what the file has; what it runs comes next.
LEMMA SkipOrNext ==
  ASSUME TypeOK, LedgerInv, Up, pos <= N
  PROVE  /\ Order[pos] \in completed => pos <= Len(measurements)
         /\ Order[pos] \notin completed => pos = Len(measurements) + 1
<1>1. /\ InOrder(measurements)
      /\ pos - 1 <= Len(measurements)
      /\ completed \subseteq BlocksIn(measurements)
      /\ \A i \in pos..Len(measurements) : Order[i] \in completed
  BY DEF LedgerInv
<1>2. /\ pos \in 1..N /\ DOMAIN Order = 1..N /\ N \in Nat
      /\ Len(measurements) \in Nat /\ DOMAIN measurements = 1..Len(measurements)
  BY ConstantFacts DEF TypeOK
<1>3. ASSUME Order[pos] \in completed
      PROVE  pos <= Len(measurements)
  <2>1. PICK i \in DOMAIN measurements : measurements[i].block = Order[pos]
    BY <1>1, <1>3 DEF BlocksIn
  <2>2. Order[i] = Order[pos] /\ i \in 1..N
    BY <1>1, <1>2, <2>1 DEF InOrder
  <2>3. i = pos
    BY <1>2, <2>2, OrderAssumption
  <2> QED
    BY <1>2, <2>3
<1>4. ASSUME Order[pos] \notin completed
      PROVE  pos = Len(measurements) + 1
  <2>1. pos \notin pos..Len(measurements)
    BY <1>1, <1>4
  <2> QED
    BY <1>1, <1>2, <2>1
<1> QED
  BY <1>3, <1>4

\* The next block in dispatch order extends an ordered list.
LEMMA AppendInOrder ==
  ASSUME NEW ms \in Seq(Measurement), NEW m \in Measurement, InOrder(ms),
         Len(ms) < N, m.block = Order[Len(ms) + 1], m.idx = Len(ms)
  PROVE  InOrder(Append(ms, m)) /\ BlocksIn(ms) \subseteq BlocksIn(Append(ms, m))
<1> DEFINE l == Append(ms, m)
<1>1. /\ Len(l) = Len(ms) + 1 /\ Len(ms) \in Nat
      /\ DOMAIN l = (DOMAIN ms) \cup {Len(ms) + 1}
      /\ l[Len(ms) + 1] = m
      /\ \A i \in DOMAIN ms : l[i] = ms[i]
  BY AppendFacts
<1> HIDE DEF l
<1>2. Len(l) <= N
  BY <1>1, ConstantFacts
<1>3. \A i \in DOMAIN l : l[i].block = Order[i] /\ l[i].idx = i - 1
  BY <1>1 DEF InOrder
<1>4. BlocksIn(ms) \subseteq BlocksIn(l)
  BY <1>1 DEF BlocksIn
<1> QED
  BY <1>2, <1>3, <1>4 DEF l, InOrder

LEMMA LedgerInvStep ==
  ASSUME ~TornWrites, TypeOK, LedgerInv, [Next]_vars
  PROVE  LedgerInv'
<1> USE DEF Up, LoopIsOver
<1>a. ASSUME UNCHANGED <<file, pos, completed, measurements, snapshots>>, Up, Up',
             LoopIsOver' => LoopIsOver \/ pos = N + 1
      PROVE  LedgerInv'
  BY <1>a DEF LedgerInv
<1>b. ASSUME UNCHANGED file, ~Up', measurements' = <<>>
      PROVE  LedgerInv'
  BY <1>b DEF LedgerInv
<1>1. CASE BeginSweep
  <2>1. ~LoopIsOver' /\ Up'
    BY <1>1, CaptureStays DEF BeginSweep
  <2> QED
    BY <1>1, <1>a, <2>1 DEF BeginSweep
<1>2. CASE WriteAnchor
  <2>1. /\ file'.tail = "clean" /\ file'.meas = file.meas
        /\ file'.anchors = Append(file.anchors, Head(pending))
    BY <1>2, CleanAppend DEF WriteAnchor, LedgerInv
  <2>2. /\ snapshots' = Append(snapshots, Head(pending))
        /\ UNCHANGED <<pos, completed, measurements, ret>>
    BY <1>2 DEF WriteAnchor
  <2>3. (LoopIsOver' => LoopIsOver) /\ Up'
    BY <1>2 DEF WriteAnchor, TypeOK
  <2> QED
    BY <1>2, <2>1, <2>2, <2>3 DEF LedgerInv, WriteAnchor
<1>3. CASE SkipBlock
  <2>1. pos <= Len(measurements) /\ pos \in Nat /\ Len(measurements) \in Nat
    BY <1>3, SkipOrNext DEF SkipBlock, TypeOK
  <2>2. /\ UNCHANGED <<file, completed, measurements, snapshots>>
        /\ pos' = pos + 1 /\ ~LoopIsOver' /\ Up /\ Up'
    BY <1>3 DEF SkipBlock, Advance
  <2> QED
    BY <2>1, <2>2 DEF LedgerInv
<1>4. CASE RunBlock
  <2>1. /\ pos = Len(measurements) + 1 /\ Len(measurements) \in Nat
        /\ measurements = file.meas /\ snapshots = file.anchors /\ InOrder(measurements)
        /\ completed \subseteq BlocksIn(measurements)
    BY <1>4, SkipOrNext DEF RunBlock, TypeOK, LedgerInv
  <2>2. /\ NewMeasurement \in Measurement /\ NewMeasurement.block = Order[pos]
        /\ NewMeasurement.idx = Len(measurements)
    BY <1>4, NewMeasurementType DEF RunBlock, NewMeasurement, IterIdx
  <2>3. /\ measurements' = Append(measurements, NewMeasurement)
        /\ file'.meas = measurements' /\ file'.tail = "clean"
        /\ file'.anchors = file.anchors
    BY <1>4, <2>1, CleanAppend DEF RunBlock, LedgerInv
  <2>4. measurements \in Seq(Measurement) /\ Len(measurements) < N
    BY <1>4, <2>1, ConstantFacts DEF RunBlock, TypeOK
  <2>5. InOrder(measurements') /\ BlocksIn(measurements) \subseteq BlocksIn(measurements')
    BY <2>1, <2>2, <2>3, <2>4, AppendInOrder
  <2>6. Len(measurements') = Len(measurements) + 1
    BY <2>2, <2>3, <2>4, AppendFacts
  <2>7. pos' = pos + 1 /\ UNCHANGED <<completed, snapshots>> /\ ~LoopIsOver' /\ Up'
    BY <1>4 DEF RunBlock, Advance
  <2> QED
    BY <2>1, <2>3, <2>5, <2>6, <2>7 DEF LedgerInv
<1>5. CASE TupleEnd
  <2>1. ~LoopIsOver' /\ Up'
    BY <1>5, CaptureStays DEF TupleEnd
  <2> QED
    BY <1>5, <1>a, <2>1 DEF TupleEnd
<1>6. CASE SweepEnd
  <2>1. pos = N + 1 /\ Up'
    BY <1>6, ConstantFacts, CaptureStays DEF SweepEnd, TypeOK
  <2> QED
    BY <1>6, <1>a, <2>1 DEF SweepEnd
<1>7. CASE LastProbe
  BY <1>7, <1>a DEF LastProbe
<1>8. ASSUME NEW p \in Params, StartFresh(p)
      PROVE  LedgerInv'
  <2>1. /\ file'.meas = <<>> /\ measurements' = <<>> /\ file'.tail = "clean"
        /\ file'.anchors = <<>> /\ snapshots' = <<>>
    BY <1>8 DEF StartFresh, HeaderLine, EmptyFile
  <2>2. completed' = {} /\ pos' = 1 /\ ~LoopIsOver' /\ Up'
    BY <1>8 DEF StartFresh, FreshMemory
  <2>3. InOrder(<<>>) /\ pos' - 1 <= Len(<<>>) /\ pos'..Len(<<>>) = {}
    BY <2>2, EmptyFacts, ConstantFacts DEF InOrder
  <2> QED
    BY <2>1, <2>2, <2>3 DEF LedgerInv
<1>9. ASSUME NEW p \in Params, Resume(p)
      PROVE  LedgerInv'
  <2>1. /\ UNCHANGED file /\ measurements' = file.meas /\ snapshots' = file.anchors
        /\ completed' = BlocksIn(file.meas) /\ pos' = 1 /\ ~LoopIsOver' /\ Up'
    BY <1>9 DEF Resume, FreshMemory, CompletedKeys
  <2>2. InOrder(file.meas) /\ Len(file.meas) \in Nat /\ DOMAIN file.meas = 1..Len(file.meas)
    BY DEF LedgerInv, TypeOK, File
  <2>3. \A i \in 1..Len(file.meas) : Order[i] \in BlocksIn(file.meas)
    BY <2>2 DEF InOrder, BlocksIn
  <2> QED
    BY <2>1, <2>2, <2>3 DEF LedgerInv
<1>10. ASSUME NEW p \in Params, CrashInHeader(p)
       PROVE  LedgerInv'
  BY <1>10 DEF CrashInHeader
<1>11. CASE Crash
  BY <1>11, <1>b DEF Crash, Dies
<1>12. CASE CrashInAppend
  BY <1>12 DEF CrashInAppend
<1>13. CASE UNCHANGED vars
  BY <1>13 DEF vars, memory, LedgerInv
<1> QED
  BY <1>1, <1>2, <1>3, <1>4, <1>5, <1>6, <1>7, <1>8, <1>9, <1>10, <1>11, <1>12,
     <1>13 DEF Next, ProcessStep, Invoke

THEOREM LedgerInvariant ==
  ASSUME ~TornWrites
  PROVE  Spec => []LedgerInv
<1>1. Init => LedgerInv
  BY EmptyFacts, ConstantFacts DEF Init, EmptyFile, LedgerInv, InOrder, Up
<1>2. TypeOK /\ LedgerInv /\ [Next]_vars => LedgerInv'
  BY LedgerInvStep
<1> QED
  BY <1>1, <1>2, TypeCorrect, PTL DEF Spec

\* A resumed sweep continues with the iteration index, and so with the seeds
\* and prompts, of the uninterrupted one.
THEOREM ResumeKeepsSeeds ==
  ASSUME ~TornWrites
  PROVE  Spec => []SeedsPreserved
<1>1. TypeOK /\ LedgerInv => SeedsPreserved
  <2>1. CASE Up
    BY <2>1 DEF LedgerInv, InOrder, SeedsPreserved
  <2>2. CASE ~Up
    BY <2>2, EmptyFacts DEF LedgerInv, SeedsPreserved
  <2> QED
    BY <2>1, <2>2
<1> QED
  BY <1>1, TypeCorrect, LedgerInvariant, PTL

\* A crash after any step loses nothing that was recorded.
THEOREM DiskIsMirror ==
  ASSUME ~TornWrites
  PROVE  Spec => []DiskMirrorsMemory
<1>1. LedgerInv => DiskMirrorsMemory
  BY DEF LedgerInv, DiskMirrorsMemory
<1> QED
  BY <1>1, LedgerInvariant, PTL

\* A resumed sweep dispatches every tuple in one stretch, and reports so.
THEOREM DisciplineSurvivesResume ==
  ASSUME ~TornWrites
  PROVE  Spec => []DisciplineKept
<1>1. ASSUME TypeOK, LedgerInv, pc = "done"
      PROVE  VerifyIterationDiscipline(measurements)
  <2>1. InOrder(measurements) /\ DOMAIN measurements = 1..Len(measurements)
        /\ Len(measurements) \in Nat
    BY <1>1 DEF LedgerInv, TypeOK, Up
  <2>2. /\ DOMAIN measurements \subseteq DOMAIN Order
        /\ \A i \in DOMAIN measurements : measurements[i].block = Order[i]
    BY <2>1, ConstantFacts DEF InOrder
  <2> QED
    BY <2>2, TupleAssumption DEF VerifyIterationDiscipline
<1>2. TypeOK /\ LedgerInv => DisciplineKept
  BY <1>1 DEF DisciplineKept
<1> QED
  BY <1>2, TypeCorrect, LedgerInvariant, PTL

----------------------------------------------------------------------------
(***************************************************************************)
(* The anchor trajectory reaches the end of a sweep: the inductive         *)
(* invariant EndInv.                                                       *)
(***************************************************************************)
\* The marks of the snapshots once the next pending one is recorded.
LEMMA RecordedMarks ==
  ASSUME NEW s \in Seq(Snapshot), NEW w \in Seq(Snapshot), w # <<>>
  PROVE  /\ MarksOf(Append(s, Head(w))) = MarksOf(s) \cup {Head(w).mark}
         /\ Head(w).mark \in MarksOf(w) /\ MarksOf(Tail(w)) \subseteq MarksOf(w)
<1> DEFINE h == Head(w)
           l == Append(s, h)
           t == Tail(w)
<1>1. h \in Snapshot /\ h = w[1] /\ 1 \in DOMAIN w
  OBVIOUS
<1>2. /\ DOMAIN l = (DOMAIN s) \cup {Len(s) + 1}
      /\ l[Len(s) + 1] = h
      /\ \A i \in DOMAIN s : l[i] = s[i]
  BY <1>1, AppendFacts
<1>3. \A i \in DOMAIN t : i + 1 \in DOMAIN w /\ t[i] = w[i + 1]
  OBVIOUS
<1> HIDE DEF h, l, t
<1>4. MarksOf(l) = MarksOf(s) \cup {h.mark}
  BY <1>2 DEF MarksOf
<1>5. h.mark \in MarksOf(w)
  BY <1>1 DEF MarksOf
<1>6. MarksOf(t) \subseteq MarksOf(w)
  BY <1>3 DEF MarksOf
<1> QED
  BY <1>4, <1>5, <1>6 DEF h, l, t

\* Marks are natural numbers.
LEMMA MarkTypes ==
  ASSUME NEW s \in Seq(Snapshot)
  PROVE  MarksOf(s) \subseteq Nat
<1>1. \A i \in DOMAIN s : s[i] \in Snapshot
  OBVIOUS
<1> QED
  BY <1>1 DEF MarksOf, Snapshot

\* All snapshots of an anchor block carry the mark it was started with, and
\* its own duration is all that separates them from the clock.
LEMMA CaptureMarks ==
  ASSUME TypeOK, NEW mark \in Nat, NEW busy \in Nat, NEW after,
         CaptureAnchorBlock(mark, busy, after)
  PROVE  /\ MarksOf(pending') \subseteq {mark}
         /\ elapsed' \in Nat /\ elapsed <= elapsed'
         /\ busy = 0 => \E d \in AnchorTicks : elapsed + d = elapsed'
         /\ ret' = after /\ pc' = IF pending' = <<>> THEN after ELSE "anchorWrite"
         /\ <<>> \notin AnchorYields => pending' # <<>>
<1>1. PICK yield \in AnchorYields, d \in AnchorTicks :
        /\ pending' = [i \in DOMAIN yield |-> [cohort |-> yield[i], mark |-> mark]]
        /\ elapsed' = elapsed + busy + d
  BY DEF CaptureAnchorBlock
<1>2. d \in Nat /\ elapsed \in Nat
  BY ClockAssumption DEF TypeOK
<1>3. MarksOf(pending') \subseteq {mark}
  BY <1>1 DEF MarksOf
<1>4. ASSUME <<>> \notin AnchorYields
      PROVE  pending' # <<>>
  <2>1. yield # <<>> /\ yield \in Seq(Cohorts)
    BY <1>4, EnvironmentAssumption
  <2>2. 1 \in DOMAIN yield
    BY <2>1
  <2>3. DOMAIN pending' = DOMAIN yield
    BY <1>1
  <2> QED
    BY <2>2, <2>3, EmptyFacts
<1>5. /\ elapsed' \in Nat /\ elapsed <= elapsed'
      /\ busy = 0 => elapsed + d = elapsed'
  BY <1>1, <1>2
<1>6. ret' = after /\ pc' = IF pending' = <<>> THEN after ELSE "anchorWrite"
  BY DEF CaptureAnchorBlock
<1> QED
  BY <1>3, <1>4, <1>5, <1>6

\* Time only passes: what was near or behind the clock stays behind it.
LEMMA EndInvStep ==
  ASSUME TypeOK, EndInv, [Next]_vars
  PROVE  EndInv'
<1> USE DEF Up
<1> DEFINE AtEnd == pc \in {"lastProbe", "done"}
           Writing == pc = "anchorWrite" /\ ret = "lastProbe"
<1>n. /\ elapsed \in Nat /\ Epsilon \in Nat /\ AnchorTicks \subseteq Nat
      /\ MarksOf(snapshots) \subseteq Nat /\ MarksOf(pending) \subseteq Nat
  BY ClockAssumption, MarkTypes DEF TypeOK
\* A step that is not at the end of the sweep and brings in no mark ahead of
\* the clock.
<1>a. ASSUME Up, UNCHANGED <<snapshots, resumed>>, ~AtEnd', ~Writing',
             elapsed' \in Nat, elapsed <= elapsed',
             \A m \in MarksOf(pending') : m \in Nat /\ m <= elapsed'
      PROVE  EndInv'
  <2> SUFFICES ASSUME ~resumed
               PROVE  \A m \in MarksOf(snapshots') \cup MarksOf(pending') : m <= elapsed'
    BY <1>a DEF EndInv, EndIsAnchored
  <2>1. \A m \in MarksOf(snapshots) : m <= elapsed
    BY <1>a DEF EndInv
  <2> QED
    BY <1>a, <1>n, <2>1
<1>b. ASSUME ~Up' \/ resumed'
      PROVE  EndInv'
  BY <1>b DEF EndInv
<1>1. CASE BeginSweep
  <2>1. Up /\ UNCHANGED <<snapshots, resumed>> /\ pc = "starting"
    BY <1>1 DEF BeginSweep
  <2>2. PICK d \in ProbeTicks :
          \/ CaptureAnchorBlock(0, d, "loop")
          \/ pc' = "loop" /\ elapsed' = elapsed + d /\ UNCHANGED <<ret, pending>>
    BY <1>1 DEF BeginSweep
  <2>3. d \in Nat
    BY ClockAssumption
  <2>4. CASE CaptureAnchorBlock(0, d, "loop")
    <3>1. /\ MarksOf(pending') \subseteq {0} /\ elapsed' \in Nat /\ elapsed <= elapsed'
          /\ ret' = "loop" /\ pc' \in {"loop", "anchorWrite"}
      BY <2>3, <2>4, CaptureMarks
    <3> QED
      BY <1>a, <2>1, <3>1
  <2>5. CASE pc' = "loop" /\ elapsed' = elapsed + d /\ UNCHANGED <<ret, pending>>
    <3>1. CASE resumed
      BY <1>b, <2>1, <3>1
    <3>2. CASE ~resumed
      <4>1. \A m \in MarksOf(pending) : m <= elapsed
        BY <2>1, <3>2 DEF EndInv
      <4>2. elapsed' \in Nat /\ elapsed <= elapsed'
        BY <1>n, <2>3, <2>5
      <4>3. \A m \in MarksOf(pending') : m \in Nat /\ m <= elapsed'
        BY <1>n, <2>5, <4>1, <4>2
      <4> QED
        BY <1>a, <2>1, <2>5, <4>2, <4>3
    <3> QED
      BY <3>1, <3>2
  <2> QED
    BY <2>2, <2>4, <2>5
<1>2. CASE WriteAnchor
  <2> SUFFICES ASSUME ~resumed
               PROVE  EndInv'
    BY <1>2, <1>b DEF WriteAnchor
  <2>1. /\ pc = "anchorWrite" /\ UNCHANGED <<ret, elapsed, resumed>>
        /\ pc' = IF pending' = <<>> THEN ret ELSE "anchorWrite"
        /\ ret \in {"loop", "lastProbe"}
    BY <1>2 DEF WriteAnchor, TypeOK
  <2>2. /\ MarksOf(snapshots') = MarksOf(snapshots) \cup {Head(pending).mark}
        /\ Head(pending).mark \in MarksOf(pending)
        /\ MarksOf(pending') \subseteq MarksOf(pending)
    BY <1>2, RecordedMarks DEF WriteAnchor, TypeOK
  <2>3. /\ \A m \in MarksOf(snapshots) \cup MarksOf(pending) : m <= elapsed
        /\ ret = "lastProbe" => \A m \in MarksOf(pending) : NearEnd(m)
    BY <2>1 DEF EndInv
  <2>4. \A m \in Nat : NearEnd(m)' <=> NearEnd(m)
    BY <2>1 DEF NearEnd
  <2>5. \A m \in MarksOf(snapshots') \cup MarksOf(pending') : m <= elapsed'
    BY <2>1, <2>2, <2>3
  <2>6. Writing' => \A m \in MarksOf(pending') : NearEnd(m)'
    BY <1>n, <2>1, <2>2, <2>3, <2>4
  <2>7. AtEnd' => ret = "lastProbe"
    BY <2>1
  <2>8. AtEnd' => \A m \in MarksOf(pending) : NearEnd(m)'
    BY <1>n, <2>3, <2>4, <2>7
  <2>9. PICK m \in MarksOf(pending) : m \in MarksOf(snapshots')
    BY <2>2
  <2>10. AtEnd' => NearEnd(m)'
    BY <2>8
  <2>11. EndIsAnchored'
    BY <2>9, <2>10 DEF EndIsAnchored
  <2> QED
    BY <2>5, <2>6, <2>11 DEF EndInv
<1>3. CASE SkipBlock \/ RunBlock
  <2>1. /\ Up /\ UNCHANGED <<snapshots, resumed, pending>>
        /\ pc' \in {"loop", "tupleEnd"}
    BY <1>3 DEF SkipBlock, RunBlock, Advance
  <2>2. elapsed' \in Nat /\ elapsed <= elapsed'
    <3>1. elapsed' = elapsed \/ \E d \in BlockTicks : elapsed' = elapsed + d
      BY <1>3 DEF SkipBlock, RunBlock
    <3> QED
      BY <1>n, <3>1, ClockAssumption
  <2>3. CASE resumed
    BY <1>b, <2>1, <2>3
  <2>4. CASE ~resumed
    <3>1. \A m \in MarksOf(pending) : m <= elapsed
      BY <2>1, <2>4 DEF EndInv
    <3>2. \A m \in MarksOf(pending') : m \in Nat /\ m <= elapsed'
      BY <1>n, <2>1, <2>2, <3>1
    <3> QED
      BY <1>a, <2>1, <2>2, <3>2
  <2> QED
    BY <2>3, <2>4
<1>4. CASE TupleEnd
  <2>1. Up /\ UNCHANGED <<snapshots, resumed>>
    BY <1>4 DEF TupleEnd
  <2>2. CASE CaptureAnchorBlock(elapsed, 0, "loop")
    <3>1. /\ MarksOf(pending') \subseteq {elapsed} /\ elapsed' \in Nat /\ elapsed <= elapsed'
          /\ ret' = "loop" /\ pc' \in {"loop", "anchorWrite"}
      BY <1>n, <2>2, CaptureMarks
    <3> QED
      BY <1>a, <1>n, <2>1, <3>1
  <2>3. CASE pc' = "loop" /\ UNCHANGED <<ret, pending, elapsed>>
    <3>1. CASE resumed
      BY <1>b, <2>1, <3>1
    <3>2. CASE ~resumed
      <4>1. \A m \in MarksOf(pending) : m <= elapsed
        BY <2>1, <3>2 DEF EndInv
      <4> QED
        BY <1>a, <1>n, <2>1, <2>3, <4>1
    <3> QED
      BY <3>1, <3>2
  <2> QED
    BY <1>4, <2>2, <2>3 DEF TupleEnd
<1>5. CASE SweepEnd
  <2> SUFFICES ASSUME ~resumed
               PROVE  EndInv'
    BY <1>5, <1>b DEF SweepEnd
  <2>1. Up /\ UNCHANGED <<snapshots, resumed>>
    BY <1>5 DEF SweepEnd
  <2>2. \A m \in MarksOf(snapshots) \cup MarksOf(pending) : m <= elapsed
    BY <2>1 DEF EndInv
  <2>3. CASE CaptureAnchorBlock(elapsed, 0, "lastProbe")
    <3>1. /\ MarksOf(pending') \subseteq {elapsed} /\ elapsed' \in Nat /\ elapsed <= elapsed'
          /\ \E d \in AnchorTicks : elapsed + d = elapsed'
          /\ pc' = IF pending' = <<>> THEN "lastProbe" ELSE "anchorWrite"
          /\ <<>> \notin AnchorYields => pending' # <<>>
      BY <1>n, <2>3, CaptureMarks
    <3>2. \A m \in MarksOf(snapshots') \cup MarksOf(pending') : m <= elapsed'
      BY <1>n, <2>1, <2>2, <3>1
    <3>3. \A m \in MarksOf(pending') : NearEnd(m)'
      BY <1>n, <3>1 DEF NearEnd
    <3>4. EndIsAnchored'
      BY <3>1 DEF EndIsAnchored
    <3> QED
      BY <3>2, <3>3, <3>4 DEF EndInv
  <2>4. CASE ~EndAnchorDue /\ pc' = "lastProbe" /\ UNCHANGED <<ret, pending, elapsed>>
    <3>1. PICK m \in MarksOf(snapshots) : ~(m + Epsilon < elapsed)
      BY <2>4 DEF EndAnchorDue
    <3>2. m \in Nat /\ m <= elapsed /\ m + Epsilon + 0 >= elapsed
      BY <1>n, <2>2, <3>1
    <3>3. NearEnd(m)'
      BY <2>4, <3>2 DEF NearEnd
    <3>4. EndIsAnchored'
      BY <2>1, <3>1, <3>3 DEF EndIsAnchored
    <3> QED
      BY <2>1, <2>2, <2>4, <3>4 DEF EndInv
  <2> QED
    BY <1>5, <2>3, <2>4 DEF SweepEnd
<1>6. CASE LastProbe
  <2>1. /\ UNCHANGED <<snapshots, resumed, pending, elapsed>>
        /\ pc = "lastProbe" /\ pc' = "done"
    BY <1>6 DEF LastProbe
  <2> QED
    BY <2>1 DEF EndInv, EndIsAnchored, NearEnd
<1>7. ASSUME NEW p \in Params, StartFresh(p)
      PROVE  EndInv'
  <2>1. pending' = <<>> /\ snapshots' = <<>> /\ pc' = "starting"
    BY <1>7 DEF StartFresh, FreshMemory
  <2>2. MarksOf(<<>>) = {}
    BY DEF MarksOf
  <2> QED
    BY <2>1, <2>2 DEF EndInv, EndIsAnchored
<1>8. ASSUME NEW p \in Params, Resume(p)
      PROVE  EndInv'
  BY <1>8, <1>b DEF Resume
<1>9. ASSUME NEW p \in Params, CrashInHeader(p)
      PROVE  EndInv'
  BY <1>9, <1>b DEF CrashInHeader, Invocation
<1>10. CASE Crash \/ CrashInAppend
  BY <1>10, <1>b DEF Crash, CrashInAppend, Dies
<1>11. CASE UNCHANGED vars
  BY <1>11 DEF vars, memory, EndInv, EndIsAnchored, NearEnd
<1> QED
  BY <1>1, <1>2, <1>3, <1>4, <1>5, <1>6, <1>7, <1>8, <1>9, <1>10, <1>11
     DEF Next, ProcessStep, Invoke

\* A sweep that was not resumed ends with an anchor at its end.
THEOREM TrajectoryReachesEnd == Spec => []EndIsAnchored
<1>1. Init => EndInv
  BY DEF Init, EndInv, Up
<1>2. TypeOK /\ EndInv /\ [Next]_vars => EndInv'
  BY EndInvStep
<1>3. TypeOK /\ EndInv => EndIsAnchored
  BY DEF EndInv, EndIsAnchored, Up
<1> QED
  BY <1>1, <1>2, <1>3, TypeCorrect, PTL DEF Spec

----------------------------------------------------------------------------
(***************************************************************************)
(* What torn lines cost: the inductive invariant LossInv.                  *)
(***************************************************************************)
\* What one append, finished or interrupted, does to the finished lines: they
\* stay, and a record whose append finds a clean tail joins them.
LEMMA SoundAppend ==
  ASSUME TypeOK, NEW kind \in {"meas", "anchors"}, NEW x,
         kind = "meas" => x \in Measurement
  PROVE  /\ AppendLine(file, kind, x).tail = "clean"
         /\ BlocksIn(SoundMeas(AppendLine(file, kind, x)))
              = IF kind = "meas" /\ file.tail = "clean"
                  THEN SoundBlocks \cup {x.block} ELSE SoundBlocks
         /\ \A f \in InterruptedAppend(file, kind, x) :
              BlocksIn(SoundMeas(f)) = SoundBlocks
<1> DEFINE a == AppendLine(file, kind, x)
<1>1. file \in File /\ file.meas \in Seq(Measurement)
  BY DEF TypeOK, File
<1>2. /\ file.tail # "clean" => SoundMeas(Spoiled(file)) = SoundMeas(file)
      /\ file.tail # "clean" => Spoiled(file).meas = SoundMeas(file)
      /\ Spoiled(file) = [Spoiled(file) EXCEPT !.tail = "partial"]
  BY <1>1 DEF Spoiled, SoundMeas
<1>3. CASE file.tail = "clean"
  <2>1. /\ SoundMeas(file) = file.meas
        /\ a = PlusLine(file, kind, x)
    BY <1>3 DEF SoundMeas, AppendLine
  <2>2. /\ a.tail = "clean"
        /\ a.meas = IF kind = "meas" THEN Append(file.meas, x) ELSE file.meas
    BY <1>1, <1>3, <2>1 DEF PlusLine, File
  <2>3. SoundMeas(a) = a.meas
    BY <2>2 DEF SoundMeas
  <2>4. BlocksIn(SoundMeas(a))
          = IF kind = "meas" THEN SoundBlocks \cup {x.block} ELSE SoundBlocks
    BY <1>1, <2>1, <2>2, <2>3, AppendMeasurement DEF SoundBlocks
  <2>5. ASSUME NEW f \in InterruptedAppend(file, kind, x)
        PROVE  SoundMeas(f) = file.meas
    <3>1. \/ f = [file EXCEPT !.tail = "partial"]
          \/ f = [PlusLine(file, kind, x) EXCEPT !.tail = kind]
      BY <1>3, <2>5 DEF InterruptedAppend
    <3>2. CASE f = [file EXCEPT !.tail = "partial"]
      BY <1>1, <3>2 DEF SoundMeas, File
    <3>3. CASE f = [a EXCEPT !.tail = kind]
      <4>1. f.tail = kind /\ f.meas = a.meas
        BY <1>1, <2>1, <3>3 DEF PlusLine, File
      <4>2. kind = "meas" => AllButLast(Append(file.meas, x)) = file.meas
        BY <1>1 DEF AllButLast
      <4> QED
        BY <2>2, <4>1, <4>2 DEF SoundMeas
    <3> QED
      BY <2>1, <3>1, <3>2, <3>3
  <2> QED
    BY <1>3, <2>1, <2>2, <2>4, <2>5 DEF SoundBlocks
<1>4. CASE file.tail # "clean"
  <2>1. a = [Spoiled(file) EXCEPT !.tail = "clean"]
    BY <1>4 DEF AppendLine
  <2>2. a.tail = "clean" /\ a.meas = SoundMeas(file)
    BY <1>2, <1>4, <2>1 DEF Spoiled
  <2>3. SoundMeas(a) = SoundMeas(file)
    BY <2>2 DEF SoundMeas
  <2>4. \A f \in InterruptedAppend(file, kind, x) : SoundMeas(f) = SoundMeas(file)
    BY <1>2, <1>4 DEF InterruptedAppend
  <2> QED
    BY <1>4, <2>2, <2>3, <2>4 DEF SoundBlocks
<1> QED
  BY <1>3, <1>4

LEMMA SoundRun ==
  ASSUME TypeOK, RunBlock
  PROVE  /\ file'.tail = "clean"
         /\ SoundBlocks' = IF file.tail = "clean" THEN SoundBlocks \cup {Order[pos]}
                                                  ELSE SoundBlocks
<1>1. NewMeasurement \in Measurement /\ NewMeasurement.block = Order[pos]
  BY NewMeasurementType DEF RunBlock, NewMeasurement
<1>2. file' = AppendLine(file, "meas", NewMeasurement)
  BY DEF RunBlock
<1> QED
  BY <1>1, <1>2, SoundAppend DEF SoundBlocks

\* What a step does to the finished lines and to the acknowledged blocks.
LEMMA SoundStep ==
  ASSUME TypeOK, [Next]_vars
  PROVE  \/ \E p \in Params : StartFresh(p) \/ CrashInHeader(p)
         \/ \E p \in Params : Resume(p)
         \/ /\ RunBlock /\ file'.tail = "clean"
            /\ SoundBlocks' = IF file.tail = "clean" THEN SoundBlocks \cup {Order[pos]}
                                                     ELSE SoundBlocks
         \/ /\ CrashInAppend /\ SoundBlocks' = SoundBlocks
         \/ /\ Crash \/ (Up /\ Up')
            /\ SoundBlocks' = SoundBlocks /\ UNCHANGED <<acked, starts>>
            /\ file'.tail \in {file.tail, "clean"}
         \/ UNCHANGED vars
<1> USE DEF SoundBlocks
<1>1. CASE BeginSweep \/ TupleEnd \/ SweepEnd \/ SkipBlock \/ LastProbe
  <2>1. UNCHANGED <<file, acked, starts>> /\ Up
    BY <1>1 DEF BeginSweep, TupleEnd, SweepEnd, SkipBlock, LastProbe, Up
  <2>2. Up'
    BY <1>1, CaptureStays DEF BeginSweep, TupleEnd, SweepEnd, SkipBlock, LastProbe, Advance, Up
  <2> QED
    BY <2>1, <2>2
<1>2. CASE WriteAnchor
  <2>1. file' = AppendLine(file, "anchors", Head(pending)) /\ UNCHANGED <<acked, starts>>
    BY <1>2 DEF WriteAnchor
  <2>2. Up /\ Up'
    BY <1>2 DEF WriteAnchor, Up, TypeOK
  <2>3. file'.tail = "clean" /\ SoundBlocks' = SoundBlocks
    BY <2>1, SoundAppend
  <2> QED
    BY <2>1, <2>2, <2>3
<1>3. CASE RunBlock
  BY <1>3, SoundRun
<1>4. CASE Crash
  BY <1>4 DEF Crash, Dies
<1>5. CASE CrashInAppend
  <2>1. CASE pc = "loop" /\ pos <= N /\ file' \in InterruptedAppend(file, "meas", NewMeasurement)
    BY <1>5, <2>1, NewMeasurementType, SoundAppend
  <2>2. CASE file' \in InterruptedAppend(file, "anchors", Head(pending))
    BY <1>5, <2>2, SoundAppend
  <2> QED
    BY <1>5, <2>1, <2>2 DEF CrashInAppend
<1> QED
  BY <1>1, <1>2, <1>3, <1>4, <1>5 DEF Next, ProcessStep, Invoke

\* No crash and no append reaches a finished line.
THEOREM FinishedLinesAreSafe == Spec => FinishedLinesStay
<1>1. ASSUME TypeOK, [Next]_vars
      PROVE  [\/ \E p \in Params : StartFresh(p) \/ CrashInHeader(p)
              \/ SoundBlocks \subseteq SoundBlocks']_vars
  <2>1. CASE \E p \in Params : Resume(p)
    BY <2>1 DEF Resume, SoundBlocks
  <2> QED
    BY <1>1, <2>1, SoundStep
<1> QED
  BY <1>1, TypeCorrect, PTL DEF Spec, FinishedLinesStay

\* One more acknowledged block is at most one more loss.
LEMMA LossGrows ==
  ASSUME NEW A, NEW S, NEW b, IsFiniteSet(A)
  PROVE  /\ IsFiniteSet(A \cup {b}) /\ Cardinality(A \ S) \in Nat
         /\ Cardinality((A \cup {b}) \ S) <= Cardinality(A \ S) + 1
         /\ Cardinality((A \cup {b}) \ (S \cup {b})) <= Cardinality(A \ S)
<1>1. IsFiniteSet(A \ S) /\ Cardinality(A \ S) \in Nat
  BY FS_Subset, FS_CardinalityType
<1>2. /\ IsFiniteSet((A \ S) \cup {b})
      /\ Cardinality((A \ S) \cup {b}) <= Cardinality(A \ S) + 1
      /\ Cardinality((A \ S) \cup {b}) \in Nat
  <2> DEFINE L == A \ S
  <2> HIDE DEF L
  <2>1. IsFiniteSet(L) /\ Cardinality(L) \in Nat
    BY <1>1 DEF L
  <2>2. /\ IsFiniteSet(L \cup {b})
        /\ Cardinality(L \cup {b}) \in {Cardinality(L), Cardinality(L) + 1}
    BY <2>1, FS_AddElement
  <2> QED
    BY <2>1, <2>2 DEF L
<1>3. Cardinality((A \cup {b}) \ S) <= Cardinality((A \ S) \cup {b})
  <2>1. (A \cup {b}) \ S \in SUBSET ((A \ S) \cup {b})
    OBVIOUS
  <2> QED
    BY <1>2, <2>1, FS_Subset
<1>4. Cardinality((A \cup {b}) \ (S \cup {b})) <= Cardinality(A \ S)
  <2>1. (A \cup {b}) \ (S \cup {b}) \in SUBSET (A \ S)
    OBVIOUS
  <2> QED
    BY <1>1, <2>1, FS_Subset
<1>5. IsFiniteSet((A \cup {b}) \ S) /\ Cardinality((A \cup {b}) \ S) \in Nat
  BY <1>2, FS_Subset, FS_CardinalityType
<1>6. IsFiniteSet(A \cup {b})
  BY FS_AddElement
<1> QED
  BY <1>1, <1>2, <1>3, <1>4, <1>5, <1>6

LEMMA LossInvStep ==
  ASSUME TypeOK, LossInv, [Next]_vars
  PROVE  LossInv'
<1> DEFINE Lost == Cardinality(acked \ SoundBlocks)
<1>1. /\ IsFiniteSet(acked) /\ Lost \in Nat /\ starts \in Nat
      /\ Lost + Unfinished + Alive <= starts
  BY FS_Subset, FS_CardinalityType DEF LossInv, TypeOK
<1>2. /\ Unfinished = 0 \/ Unfinished = 1
      /\ Alive = 0 \/ Alive = 1
      /\ Unfinished' = 0 \/ Unfinished' = 1
      /\ Alive' = 0 \/ Alive' = 1
  BY DEF Unfinished, Alive
<1>3. ASSUME NEW p \in Params, StartFresh(p) \/ CrashInHeader(p)
      PROVE  LossInv'
  <2>1. acked' = {} /\ starts' = starts + 1
    BY <1>3 DEF StartFresh, CrashInHeader, Invocation
  <2>2. Unfinished' = 0 \/ Alive' = 0
    BY <1>3 DEF StartFresh, HeaderLine, EmptyFile, CrashInHeader, Invocation, Up, Unfinished, Alive
  <2>3. IsFiniteSet(acked') /\ Cardinality(acked' \ SoundBlocks') = 0
    <3>1. acked' \ SoundBlocks' = {}
      BY <2>1
    <3> QED
      BY <2>1, <3>1, FS_EmptySet
  <2>4. Cardinality(acked' \ SoundBlocks') + Unfinished' + Alive' <= starts'
    <3>1. starts \in Nat /\ starts' = starts + 1
      BY <2>1 DEF TypeOK
    <3> QED
      BY <1>2, <2>2, <2>3, <3>1
  <2> QED
    BY <2>3, <2>4 DEF LossInv
<1>4. ASSUME NEW p \in Params, Resume(p)
      PROVE  LossInv'
  <2>1. UNCHANGED <<file, acked>> /\ starts' = starts + 1 /\ ~Up
    BY <1>4 DEF Resume, Invocation, Up
  <2>2. Alive = 0 /\ Unfinished' = Unfinished
    BY <2>1 DEF Unfinished, Alive
  <2>3. SoundBlocks' = SoundBlocks
    BY <2>1 DEF SoundBlocks
  <2>4. Lost + Unfinished' + Alive' <= starts'
    BY <1>1, <1>2, <2>1, <2>2
  <2> QED
    BY <1>1, <2>1, <2>3, <2>4 DEF LossInv
<1>5. ASSUME RunBlock, file'.tail = "clean",
             SoundBlocks' = IF file.tail = "clean" THEN SoundBlocks \cup {Order[pos]}
                                                   ELSE SoundBlocks
      PROVE  LossInv'
  <2>1. acked' = acked \cup {Order[pos]} /\ starts' = starts /\ Up
    BY <1>5 DEF RunBlock, Up
  <2>2. IsFiniteSet(acked') /\ Cardinality(acked' \ SoundBlocks') \in Nat
    BY <1>1, <2>1, LossGrows
  <2>3. Alive = 1 /\ Alive' \in {0, 1} /\ Unfinished' = 0
    BY <1>5, <2>1 DEF Unfinished, Alive
  <2>4. CASE file.tail = "clean"
    <3>1. Cardinality(acked' \ SoundBlocks') <= Lost
      BY <1>1, <1>5, <2>1, <2>4, LossGrows
    <3>2. Unfinished = 0
      BY <2>4 DEF Unfinished, Alive
    <3> QED
      BY <1>1, <2>1, <2>2, <2>3, <3>1, <3>2 DEF LossInv
  <2>5. CASE file.tail # "clean"
    <3>1. Cardinality(acked' \ SoundBlocks') <= Lost + 1
      BY <1>1, <1>5, <2>1, <2>5, LossGrows
    <3>2. Unfinished = 1
      BY <2>5 DEF Unfinished, Alive
    <3> QED
      BY <1>1, <2>1, <2>2, <2>3, <3>1, <3>2 DEF LossInv
  <2> QED
    BY <2>4, <2>5
<1>6. ASSUME CrashInAppend, SoundBlocks' = SoundBlocks
      PROVE  LossInv'
  <2>1. Up /\ ~Up' /\ UNCHANGED <<acked, starts>>
    BY <1>6 DEF CrashInAppend, Dies, Up
  <2>2. /\ Alive = 1 /\ Alive' = 0 /\ Unfinished' \in {0, 1}
        /\ Unfinished \in {0, 1}
    BY <2>1 DEF Unfinished, Alive
  <2> QED
    BY <1>1, <1>6, <2>1, <2>2 DEF LossInv
<1>7. ASSUME Crash \/ (Up /\ Up'), SoundBlocks' = SoundBlocks, UNCHANGED <<acked, starts>>,
             file'.tail \in {file.tail, "clean"}
      PROVE  LossInv'
  <2>1. Up' => Up
    BY <1>7 DEF Crash, Dies, Up
  <2>2. /\ Alive' \in {0, Alive} /\ Alive \in {0, 1}
        /\ Unfinished' \in {0, Unfinished}
        /\ Unfinished \in {0, 1}
    BY <1>7, <2>1 DEF Unfinished, Alive
  <2> QED
    BY <1>1, <1>7, <2>2 DEF LossInv
<1>8. CASE UNCHANGED vars
  BY <1>8 DEF vars, LossInv, SoundBlocks, Unfinished, Alive, Up
<1> QED
  BY <1>3, <1>4, <1>5, <1>6, <1>7, <1>8, SoundStep

\* Every killed process costs at most one acknowledged block.
THEOREM TornLinesCostOneEach == Spec => []LossBounded
<1>1. Init => LossInv
  <2> SUFFICES ASSUME Init PROVE LossInv
    OBVIOUS
  <2>1. acked = {} /\ file.tail = "clean" /\ ~Up /\ starts = 0
    BY DEF Init, EmptyFile, Up
  <2>2. IsFiniteSet(acked) /\ Cardinality(acked \ SoundBlocks) = 0
    <3>1. acked \ SoundBlocks = {}
      BY <2>1
    <3> QED
      BY <2>1, <3>1, FS_EmptySet
  <2>3. Unfinished = 0 /\ Alive = 0
    BY <2>1 DEF Unfinished, Alive
  <2> QED
    BY <2>1, <2>2, <2>3 DEF LossInv
<1>2. TypeOK /\ LossInv /\ [Next]_vars => LossInv'
  BY LossInvStep
<1>3. TypeOK /\ LossInv => LossBounded
  <2> SUFFICES ASSUME TypeOK, LossInv PROVE LossBounded
    OBVIOUS
  <2>1. IsFiniteSet(acked \ SoundBlocks) /\ Cardinality(acked \ SoundBlocks) \in Nat
    BY FS_Subset, FS_CardinalityType DEF LossInv
  <2>2. SoundBlocks \subseteq BlocksIn(file.meas)
    <3>1. file.meas \in Seq(Measurement)
      BY DEF TypeOK, File
    <3> QED
      BY <3>1, DropMeasurement DEF SoundBlocks, SoundMeas
  <2>3. acked \ BlocksIn(file.meas) \in SUBSET (acked \ SoundBlocks)
    BY <2>2
  <2>4. /\ Cardinality(acked \ BlocksIn(file.meas)) <= Cardinality(acked \ SoundBlocks)
        /\ Cardinality(acked \ BlocksIn(file.meas)) \in Nat
    BY <2>1, <2>3, FS_Subset, FS_CardinalityType
  <2>5. Alive \in {0, 1} /\ Unfinished \in {0, 1} /\ starts \in Nat
    BY DEF Unfinished, Alive, TypeOK
  <2> QED
    BY <2>1, <2>4, <2>5 DEF LossInv, LossBounded
<1> QED
  BY <1>1, <1>2, <1>3, TypeCorrect, PTL DEF Spec

\* Without torn lines nothing that was acknowledged is lost: what resume.py
\* promises fails because of the unfinished last line and of nothing else.
THEOREM WholeLinesSurvive ==
  ASSUME ~TornWrites
  PROVE  Spec => []AckedSurvives
<1>1. Init => AckedSurvives
  BY DEF Init, AckedSurvives
<1>2. ASSUME TypeOK, LedgerInv, LedgerInv', AckedSurvives, [Next]_vars
      PROVE  AckedSurvives'
  <2>1. file.tail = "clean" /\ file'.tail = "clean"
    BY <1>2 DEF LedgerInv
  <2>2. /\ SoundBlocks = BlocksIn(file.meas)
        /\ SoundBlocks' = BlocksIn(file.meas)'
    BY <2>1 DEF SoundBlocks, SoundMeas
  <2>3. CASE \E p \in Params : StartFresh(p) \/ CrashInHeader(p)
    BY <2>3 DEF StartFresh, CrashInHeader, AckedSurvives
  <2>4. CASE \E p \in Params : Resume(p)
    BY <1>2, <2>4 DEF Resume, AckedSurvives
  <2>5. CASE RunBlock
    <3>1. SoundBlocks' = SoundBlocks \cup {Order[pos]}
      BY <1>2, <2>1, <2>5, SoundRun
    <3> QED
      BY <1>2, <2>2, <2>5, <3>1 DEF RunBlock, AckedSurvives
  <2>6. CASE SoundBlocks' = SoundBlocks /\ UNCHANGED acked
    BY <1>2, <2>2, <2>6 DEF AckedSurvives
  <2> QED
    BY <1>2, <2>3, <2>4, <2>5, <2>6, SoundStep DEF CrashInAppend, vars, SoundBlocks
<1> QED
  BY <1>1, <1>2, TypeCorrect, LedgerInvariant, PTL DEF Spec

----------------------------------------------------------------------------
(***************************************************************************)
(* The checkpoint implements the ledger.                                   *)
(***************************************************************************)
BlockSeq(ms) == [i \in DOMAIN ms |-> ms[i].block]

LEMMA BlockSeqFacts ==
  ASSUME NEW ms \in Seq(Measurement)
  PROVE  /\ BlockSeq(ms) \in Seq(Blocks) /\ Len(BlockSeq(ms)) = Len(ms)
         /\ \A m \in Measurement : BlockSeq(Append(ms, m)) = Append(BlockSeq(ms), m.block)
         /\ InOrder(ms) /\ Len(ms) = N => BlockSeq(ms) = Order
<1> DEFINE b == BlockSeq(ms)
<1>1. /\ Len(ms) \in Nat /\ DOMAIN ms = 1..Len(ms)
      /\ \A i \in DOMAIN ms : ms[i] \in Measurement
  BY MeasuredBlocks
<1>2. b \in [1..Len(ms) -> Blocks]
  BY <1>1 DEF BlockSeq, Measurement
<1>3. b \in Seq(Blocks) /\ Len(b) = Len(ms)
  BY <1>1, <1>2, IsSeq
<1>4. ASSUME NEW m \in Measurement
      PROVE  BlockSeq(Append(ms, m)) = Append(b, m.block)
  <2>1. m.block \in Blocks
    BY DEF Measurement
  <2>2. /\ Append(ms, m) \in Seq(Measurement)
        /\ DOMAIN Append(ms, m) = 1..(Len(ms) + 1)
        /\ Append(ms, m)[Len(ms) + 1] = m
        /\ \A i \in 1..Len(ms) : Append(ms, m)[i] = ms[i]
    BY <1>1, AppendFacts
  <2>3. /\ Append(b, m.block) \in Seq(Blocks)
        /\ DOMAIN Append(b, m.block) = 1..(Len(ms) + 1)
        /\ Append(b, m.block)[Len(ms) + 1] = m.block
        /\ \A i \in 1..Len(ms) : Append(b, m.block)[i] = b[i]
    BY <1>1, <1>3, <2>1, AppendFacts
  <2>4. \A i \in 1..(Len(ms) + 1) :
          BlockSeq(Append(ms, m))[i] = Append(b, m.block)[i]
    BY <1>1, <2>2, <2>3 DEF BlockSeq
  <2>5. DOMAIN BlockSeq(Append(ms, m)) = 1..(Len(ms) + 1)
    BY <2>2 DEF BlockSeq
  <2>6. Append(b, m.block) = [i \in 1..(Len(ms) + 1) |-> Append(b, m.block)[i]]
    BY <2>3
  <2>7. BlockSeq(Append(ms, m)) = [i \in 1..(Len(ms) + 1) |-> BlockSeq(Append(ms, m))[i]]
    BY <2>5 DEF BlockSeq
  <2> QED
    BY <2>4, <2>6, <2>7
<1>5. InOrder(ms) /\ Len(ms) = N => b = Order
  <2> SUFFICES ASSUME InOrder(ms), Len(ms) = N
               PROVE  b = Order
    OBVIOUS
  <2>1. \A i \in 1..N : b[i] = Order[i]
    BY <1>1 DEF InOrder, BlockSeq
  <2>2. Order = [i \in 1..N |-> Order[i]]
    BY ConstantFacts, OrderAssumption
  <2>3. b = [i \in 1..N |-> b[i]]
    BY <1>1 DEF BlockSeq
  <2> QED
    BY <2>1, <2>2, <2>3
<1> QED
  BY <1>3, <1>4, <1>5

THEOREM CheckpointImplementsLedger ==
  ASSUME ~TornWrites
  PROVE  Spec => ImplementsLedger
<1>1. Init => Ledger!LedgerInit
  BY EmptyFacts DEF Init, EmptyFile, Ledger!LedgerInit
<1>2. ASSUME TypeOK, TypeOK', LedgerInv, LedgerInv', [Next]_vars
      PROVE  [Ledger!LedgerNext]_(Ledger!ledgerVars)
  <2> USE <1>2 DEF Ledger!LedgerNext, Ledger!ledgerVars, Ledger!Restart, Ledger!Record,
                   Ledger!Finish, Ledger!Retire
  <2>1. ASSUME file'.meas = file.meas, pc # "done", pc' # "done"
        PROVE  UNCHANGED Ledger!ledgerVars
    BY <2>1
  <2>2. CASE WriteAnchor
    BY <2>2, <2>1, CleanAppend DEF WriteAnchor, LedgerInv, TypeOK
  <2>3. CASE BeginSweep \/ TupleEnd \/ SweepEnd \/ SkipBlock
    BY <2>3, <2>1, CaptureStays DEF BeginSweep, TupleEnd, SweepEnd, SkipBlock, Advance
  <2>4. CASE RunBlock
    <3>1. /\ pos = Len(file.meas) + 1 /\ pos <= N
          /\ file'.meas = Append(file.meas, NewMeasurement)
          /\ pc # "done" /\ pc' # "done"
      BY <2>4, SkipOrNext, CleanAppend DEF RunBlock, Advance, LedgerInv, Up
    <3>2. NewMeasurement \in Measurement /\ NewMeasurement.block = Order[pos]
      BY <2>4, NewMeasurementType DEF RunBlock, NewMeasurement
    <3>3. file.meas \in Seq(Measurement)
      BY DEF TypeOK, File
    <3>4. /\ BlockSeq(file'.meas) = Append(BlockSeq(file.meas), Order[pos])
          /\ Len(BlockSeq(file.meas)) = Len(file.meas) /\ Len(file.meas) \in Nat
      <4> DEFINE m == NewMeasurement
                 s == file.meas
      <4>1. m \in Measurement /\ m.block = Order[pos] /\ s \in Seq(Measurement)
            /\ file'.meas = Append(s, m)
        BY <3>1, <3>2, <3>3
      <4> HIDE DEF m, s
      <4>2. BlockSeq(Append(s, m)) = Append(BlockSeq(s), m.block) /\ Len(BlockSeq(s)) = Len(s)
        BY <4>1, BlockSeqFacts
      <4>3. Len(s) \in Nat
        BY <4>1
      <4> QED
        BY <4>1, <4>2, <4>3 DEF s
    <3>5. Ledger!Record
      <4>1. /\ Len(BlockSeq(file.meas)) < Len(Order)
            /\ pos = Len(BlockSeq(file.meas)) + 1
        BY <3>1, <3>4, ConstantFacts DEF N
      <4>2. BlockSeq(file'.meas)
              = Append(BlockSeq(file.meas), Order[Len(BlockSeq(file.meas)) + 1])
        BY <3>4, <4>1
      <4> QED
        BY <3>1, <4>1, <4>2 DEF BlockSeq
    <3> QED
      BY <3>5
  <2>5. CASE LastProbe
    <3>1. file.meas \in Seq(Measurement) /\ InOrder(file.meas) /\ Len(file.meas) = N
      BY <2>5, ConstantFacts DEF TypeOK, File, LedgerInv, LastProbe, Up, LoopIsOver, InOrder
    <3>2. BlockSeq(file.meas) = Order
      BY <3>1, BlockSeqFacts
    <3> QED
      BY <2>5, <3>2 DEF LastProbe, BlockSeq
  <2>6. CASE \E p \in Params : StartFresh(p)
    <3>1. file'.meas = <<>> /\ pc' = "starting"
      BY <2>6 DEF StartFresh, HeaderLine, EmptyFile
    <3> QED
      BY <3>1, EmptyFacts
  <2>7. CASE \E p \in Params : Resume(p)
    BY <2>7, <2>1 DEF Resume, Invocation
  <2>8. CASE Crash
    BY <2>8 DEF Crash, Dies
  <2>9. CASE UNCHANGED vars
    BY <2>9 DEF vars
  <2> QED
    BY <2>2, <2>3, <2>4, <2>5, <2>6, <2>7, <2>8, <2>9
       DEF Next, ProcessStep, Invoke, CrashInHeader, CrashInAppend
<1> QED
  BY <1>1, <1>2, TypeCorrect, LedgerInvariant, PTL DEF Spec, ImplementsLedger, Ledger!LedgerSpec

=============================================================================
