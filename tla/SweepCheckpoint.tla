-------------------------- MODULE SweepCheckpoint --------------------------
(***************************************************************************)
(* The M6.2 sweep orchestrator (sweep.run_sweep) together with its JSONL   *)
(* checkpoint sidecar (resume.py) and the operator who starts, kills and   *)
(* resumes it.                                                             *)
(*                                                                         *)
(* One process runs at a time.  It walks the dispatch order block by       *)
(* block, appends one line per finished block and one line per anchor      *)
(* snapshot to the file, and may die between or inside those appends.      *)
(* Everything except "file" and the history variables is the memory of     *)
(* the process and is lost when it dies.                                   *)
(*                                                                         *)
(* Time is the elapsed sweep time of the process, in units of 0.001 h      *)
(* (START_GUARD_HOURS), so that the constants of the code are integers.    *)
(***************************************************************************)
EXTENDS Naturals, Sequences, FiniteSets

CONSTANTS
  Order,        \* iter_block_dispatch_order: a sequence of blocks
  Cohorts,      \* COHORTS
  Params,       \* run identities the integrity gate compares
  SweepMode,    \* "publish" or "validate"
  StartGuard,   \* START_GUARD_HOURS
  Epsilon,      \* epsilon_hours of should_run_anchor_at (also the end slack)
  Cadence,      \* ANCHOR_CADENCE_HOURS
  BlockTicks,   \* durations a block may take
  ProbeTicks,   \* durations the start-of-sweep topology probe may take
  AnchorTicks,  \* durations an anchor block may take
  AnchorYields, \* what an anchor block may return: the cohorts that
                \* answered, in the order of COHORTS
  TornWrites,   \* whether a crash may leave an unfinished line behind
  MaxStarts     \* bound on the number of invocations of a behaviour

Blocks == {Order[i] : i \in DOMAIN Order}

ASSUME OrderAssumption ==
  /\ Order \in Seq([tuple : Nat, cohort : Cohorts])
  /\ \A i, j \in DOMAIN Order : Order[i] = Order[j] => i = j

\* iter_block_dispatch_order walks the tuples outermost and each one once.
ASSUME TupleAssumption ==
  \A i, j, k \in DOMAIN Order :
    i < j /\ j < k /\ Order[i].tuple = Order[k].tuple => Order[j].tuple = Order[i].tuple

ASSUME ClockAssumption ==
  /\ StartGuard \in Nat /\ Epsilon \in Nat /\ Cadence \in Nat \ {0}
  /\ StartGuard < Epsilon /\ 2 * Epsilon < Cadence
  /\ BlockTicks \subseteq Nat /\ ProbeTicks \subseteq Nat
  /\ AnchorTicks \subseteq Nat

ASSUME EnvironmentAssumption ==
  /\ SweepMode \in {"publish", "validate"}
  /\ TornWrites \in BOOLEAN
  /\ MaxStarts \in Nat
  /\ AnchorYields \subseteq Seq(Cohorts)

NoHeader == "no header"
ASSUME HeaderAssumption == NoHeader \notin Params

----------------------------------------------------------------------------
(***************************************************************************)
(* The checkpoint file.  The loader sorts lines by kind and ignores what   *)
(* it cannot parse, so the file is its header, the parseable measurement   *)
(* and anchor lines in order, and the state of its tail:                   *)
(*   "clean"       the last byte is the newline of a complete line;        *)
(*   "partial"     it ends in text that does not parse;                    *)
(*   "hdr", "meas", "anchors"                                              *)
(*                 it ends in a complete JSON object of that kind whose    *)
(*                 newline was never written: it parses until something    *)
(*                 is appended to the same line.                           *)
(***************************************************************************)
Measurement == [block : Blocks, idx : Nat, by : Params]
Snapshot    == [cohort : Cohorts, mark : Nat]
Tails       == {"clean", "partial", "hdr", "meas", "anchors"}
File        == [hdr : Params \cup {NoHeader}, meas : Seq(Measurement),
                anchors : Seq(Snapshot), tail : Tails]
EmptyFile   == [hdr |-> NoHeader, meas |-> <<>>, anchors |-> <<>>, tail |-> "clean"]

AllButLast(s) == SubSeq(s, 1, Len(s) - 1)

\* The file with one more complete, newline-terminated line of kind "meas"
\* or "anchors".
PlusLine(f, kind, x) ==
  IF kind = "meas" THEN [f EXCEPT !.meas = Append(@, x)]
                   ELSE [f EXCEPT !.anchors = Append(@, x)]

\* What is left when further text lands on an unfinished last line: that
\* line stops being one JSON object and json.loads rejects it.
Spoiled(f) ==
  [hdr     |-> IF f.tail = "hdr" THEN NoHeader ELSE f.hdr,
   meas    |-> IF f.tail = "meas" THEN AllButLast(f.meas) ELSE f.meas,
   anchors |-> IF f.tail = "anchors" THEN AllButLast(f.anchors) ELSE f.anchors,
   tail    |-> "partial"]

\* _write_line_fsynced in mode "a", interrupted: some text of the line, or
\* all of it but the newline, reached the disk.
InterruptedAppend(f, kind, x) ==
  IF f.tail = "clean"
    THEN {[f EXCEPT !.tail = "partial"], [PlusLine(f, kind, x) EXCEPT !.tail = kind]}
    ELSE {Spoiled(f)}

\* Mutant: the line is written without its newline.
AppendNoNewline(f, kind, x) ==
  IF f.tail = "clean" THEN [PlusLine(f, kind, x) EXCEPT !.tail = kind] ELSE Spoiled(f)

\* _write_line_fsynced in mode "a", returning normally.
AppendLine(f, kind, x) ==
  IF f.tail = "clean" THEN PlusLine(f, kind, x)
                      ELSE [Spoiled(f) EXCEPT !.tail = "clean"]

\* write_checkpoint_header: mode "w" truncates before it writes.
HeaderLine(p) == [EmptyFile EXCEPT !.hdr = p]
InterruptedHeader(p) ==
  {[EmptyFile EXCEPT !.tail = "partial"], [HeaderLine(p) EXCEPT !.tail = "hdr"]}

----------------------------------------------------------------------------
VARIABLES
  file,          \* the checkpoint on disk
  pc,            \* where the process is; "down" when there is none
  ret,           \* where to continue after the anchor lines are written
  params,        \* run identity of the process
  elapsed,       \* elapsed sweep time of the process
  pos,           \* the next block of Order
  completed,     \* blocks preloaded from the checkpoint (never updated)
  measurements,  \* in-memory list of measurements
  snapshots,     \* in-memory anchor snapshots, in capture order
  pending,       \* snapshots of the anchor block not yet recorded
  probes,        \* sweep times at which the topology probe ran
  resumed,       \* this process started from a checkpoint
  acked,         \* history: blocks whose append returned, since the header
  starts         \* history: invocations so far, bounded by MaxStarts

memory == <<ret, params, elapsed, pos, completed, measurements, snapshots,
            pending, probes, resumed>>
vars == <<file, pc, memory, acked, starts>>

Pcs == {"down", "starting", "loop", "tupleEnd", "anchorWrite", "lastProbe", "done"}
Up == pc # "down"
N == Len(Order)
BlocksIn(ms) == {ms[i].block : i \in DOMAIN ms}
MarksOf(ss) == {ss[i].mark : i \in DOMAIN ss}

LastOfTuple(i) == i = N \/ Order[i + 1].tuple # Order[i].tuple

\* should_run_anchor_at, as the sweep loop calls it: without
\* total_sweep_hours, so validate mode never fires on the cadence.
OnCadence(mark) ==
  /\ 2 * mark > Cadence
  /\ LET r == mark % Cadence IN r <= Epsilon \/ Cadence - r <= Epsilon
ShouldRunAnchorAt(mark) ==
  \/ mark <= StartGuard
  \/ SweepMode = "publish" /\ OnCadence(mark)

\* Mutant: the t = 0 anchor counts as the end anchor.
EndAnchorNever == snapshots = <<>>
\* The end-of-sweep test on the marks known so far.
EndAnchorDue == \A m \in MarksOf(snapshots) : m + Epsilon < elapsed

\* Mutant: any header will do.
GateAcceptsAny(p) == file.hdr # NoHeader
\* validate_checkpoint_against_current_run, after load_checkpoint found the
\* header: every gated field must match.
GateAccepts(p) == file.hdr = p

\* Mutants: nothing is skipped; a block counts as done with its tuple.
CompletedNone(ms) == {}
CompletedTuples(ms) == {b \in Blocks : \E i \in DOMAIN ms : ms[i].block.tuple = b.tuple}
\* The skip set of a resumed sweep: failed blocks count as completed too.
CompletedKeys(ms) == BlocksIn(ms)

\* Mutant: the index counts the blocks of this process only.
IterIdxOfProcess == Cardinality({i \in DOMAIN measurements : measurements[i].block \notin completed})
\* iter_idx of the next block, from which its seeds and prompt derive.
IterIdx == Len(measurements)
NewMeasurement == [block |-> Order[pos], idx |-> IterIdx, by |-> params]

----------------------------------------------------------------------------
\* The values a process starts from, whatever the checkpoint holds.
FreshMemory ==
  /\ ret' = "loop" /\ elapsed' = 0 /\ pos' = 1
  /\ pending' = <<>> /\ probes' = <<>>

Invocation == pc = "down" /\ starts < MaxStarts /\ starts' = starts + 1

(***************************************************************************)
(* _resolve_resume_state without --m6_2-resume: write a fresh header over  *)
(* whatever is at the path and start with empty state.                     *)
(***************************************************************************)
StartFresh(p) ==
  /\ Invocation
  /\ file' = HeaderLine(p)
  /\ pc' = "starting" /\ params' = p
  /\ completed' = {} /\ measurements' = <<>> /\ snapshots' = <<>>
  /\ FreshMemory
  /\ resumed' = FALSE
  /\ acked' = {}

\* The same, killed inside the header write.
CrashInHeader(p) ==
  /\ TornWrites
  /\ Invocation
  /\ file' \in InterruptedHeader(p)
  /\ acked' = {}
  /\ UNCHANGED <<pc, memory>>

(***************************************************************************)
(* _resolve_resume_state with --m6_2-resume: load_checkpoint, then the     *)
(* integrity gate.  A missing header or a different run identity ends the  *)
(* invocation with exit code 8 and leaves the file alone, so only the      *)
(* accepted resume is a step.                                              *)
(***************************************************************************)
Resume(p) ==
  /\ Invocation
  /\ GateAccepts(p)
  /\ pc' = "starting" /\ params' = p
  /\ measurements' = file.meas
  /\ completed' = CompletedKeys(file.meas)
  /\ snapshots' = file.anchors
  /\ FreshMemory
  /\ resumed' = TRUE
  /\ UNCHANGED <<file, acked>>

(***************************************************************************)
(* compute_anchor_block: every cohort is sampled in turn, a cohort without *)
(* a successful sample yields nothing, and only then are the snapshots     *)
(* recorded one by one (WriteAnchor).  "busy" is time spent just before.   *)
(***************************************************************************)
CaptureAnchorBlock(mark, busy, after) ==
  \E yield \in AnchorYields, d \in AnchorTicks :
    /\ pending' = [i \in DOMAIN yield |-> [cohort |-> yield[i], mark |-> mark]]
    /\ ret' = after
    /\ pc' = IF pending' = <<>> THEN after ELSE "anchorWrite"
    /\ elapsed' = elapsed + busy + d

\* Sweep start: the topology probe, then the t = 0 anchor unless the
\* checkpoint already carries snapshots.
BeginSweep ==
  /\ pc = "starting"
  /\ probes' = Append(probes, elapsed)
  /\ \E d \in ProbeTicks :
       \/ /\ snapshots = <<>>
          /\ CaptureAnchorBlock(0, d, "loop")
       \/ /\ snapshots # <<>>
          /\ pc' = "loop" /\ elapsed' = elapsed + d
          /\ UNCHANGED <<ret, pending>>
  /\ UNCHANGED <<file, params, pos, completed, measurements, snapshots,
                 resumed, acked, starts>>

\* _capture_anchor_block, per cohort: in-memory append, then append_anchor.
WriteAnchor ==
  /\ pc = "anchorWrite"
  /\ snapshots' = Append(snapshots, Head(pending))
  /\ file' = AppendLine(file, "anchors", Head(pending))
  /\ pending' = Tail(pending)
  /\ pc' = IF pending' = <<>> THEN ret ELSE "anchorWrite"
  /\ UNCHANGED <<ret, params, elapsed, pos, completed, measurements, probes,
                 resumed, acked, starts>>

Advance ==
  /\ pos' = pos + 1
  /\ pc' = IF LastOfTuple(pos) THEN "tupleEnd" ELSE "loop"

\* A block the checkpoint already carries is skipped.
SkipBlock ==
  /\ pc = "loop" /\ pos <= N
  /\ Order[pos] \in completed
  /\ Advance
  /\ UNCHANGED <<file, ret, params, elapsed, completed, measurements,
                 snapshots, pending, probes, resumed, acked, starts>>

\* A block is dispatched, its measurement (whatever the outcome) recorded in
\* memory and then appended to the checkpoint.
RunBlock ==
  /\ pc = "loop" /\ pos <= N
  /\ Order[pos] \notin completed
  /\ \E d \in BlockTicks : elapsed' = elapsed + d
  /\ measurements' = Append(measurements, NewMeasurement)
  /\ file' = AppendLine(file, "meas", NewMeasurement)
  /\ acked' = acked \cup {Order[pos]}
  /\ Advance
  /\ UNCHANGED <<ret, params, completed, snapshots, pending, probes, resumed,
                 starts>>

\* After every (cell, max_tokens) tuple: the cadence check on a fresh clock.
TupleEnd ==
  /\ pc = "tupleEnd"
  /\ \/ /\ ShouldRunAnchorAt(elapsed)
        /\ CaptureAnchorBlock(elapsed, 0, "loop")
     \/ /\ ~ShouldRunAnchorAt(elapsed)
        /\ pc' = "loop"
        /\ UNCHANGED <<ret, pending, elapsed>>
  /\ UNCHANGED <<file, params, pos, completed, measurements, snapshots,
                 probes, resumed, acked, starts>>

\* The end-of-sweep anchor.
SweepEnd ==
  /\ pc = "loop" /\ pos > N
  /\ \/ /\ EndAnchorDue
        /\ CaptureAnchorBlock(elapsed, 0, "lastProbe")
     \/ /\ ~EndAnchorDue
        /\ pc' = "lastProbe"
        /\ UNCHANGED <<ret, pending, elapsed>>
  /\ UNCHANGED <<file, params, pos, completed, measurements, snapshots,
                 probes, resumed, acked, starts>>

\* The end-of-sweep topology probe; run_sweep returns.
LastProbe ==
  /\ pc = "lastProbe"
  /\ probes' = Append(probes, elapsed)
  /\ pc' = "done"
  /\ UNCHANGED <<file, ret, params, elapsed, pos, completed, measurements,
                 snapshots, pending, resumed, acked, starts>>

(***************************************************************************)
(* The process ends and its memory goes: killed, by an exception that      *)
(* leaves run_sweep (an anchor dispatcher out of budget), or after "done"  *)
(* (the sub-probe that follows run_sweep is not checkpointed).             *)
(***************************************************************************)
Dies ==
  /\ Up
  /\ pc' = "down"
  /\ ret' = "loop" /\ elapsed' = 0 /\ pos' = 1 /\ completed' = {}
  /\ measurements' = <<>> /\ snapshots' = <<>> /\ pending' = <<>>
  /\ probes' = <<>> /\ resumed' = FALSE
  /\ UNCHANGED <<params, acked, starts>>

Crash == Dies /\ UNCHANGED file

\* The process dies inside the append of a measurement or of a snapshot.
CrashInAppend ==
  /\ TornWrites
  /\ Dies
  /\ \/ /\ pc = "loop" /\ pos <= N /\ Order[pos] \notin completed
        /\ file' \in InterruptedAppend(file, "meas", NewMeasurement)
     \/ /\ pc = "anchorWrite"
        /\ file' \in InterruptedAppend(file, "anchors", Head(pending))

Init ==
  /\ file = EmptyFile
  /\ pc = "down" /\ ret = "loop" /\ params \in Params
  /\ elapsed = 0 /\ pos = 1 /\ completed = {}
  /\ measurements = <<>> /\ snapshots = <<>> /\ pending = <<>> /\ probes = <<>>
  /\ resumed = FALSE /\ acked = {} /\ starts = 0

\* What the process does by itself once it runs.
ProcessStep ==
  \/ BeginSweep \/ WriteAnchor \/ SkipBlock \/ RunBlock
  \/ TupleEnd \/ SweepEnd \/ LastProbe

\* What the operator does.
Invoke == \E p \in Params : StartFresh(p) \/ Resume(p) \/ CrashInHeader(p)

Next == ProcessStep \/ Invoke \/ Crash \/ CrashInAppend

Spec == Init /\ [][Next]_vars

----------------------------------------------------------------------------
(***************************************************************************)
(* Properties.                                                             *)
(***************************************************************************)

\* The state of the process and of the file has the shape the code gives it.
TypeOK ==
  /\ file \in File
  /\ pc \in Pcs
  /\ ret \in {"loop", "lastProbe"}
  /\ params \in Params
  /\ elapsed \in Nat
  /\ pos \in 1..(N + 1)
  /\ completed \subseteq Blocks
  /\ measurements \in Seq(Measurement)
  /\ snapshots \in Seq(Snapshot)
  /\ pending \in Seq(Snapshot)
  /\ pc = "anchorWrite" => pending # <<>>
  /\ probes \in Seq(Nat)
  /\ resumed \in BOOLEAN
  /\ acked \subseteq Blocks
  /\ starts \in 0..MaxStarts

\* No block is measured twice: the skip rule of run_sweep and the loader
\* never let a resumed sweep repeat a block, whatever a crash left on disk.
MeasuredOnce ==
  \A i, j \in DOMAIN measurements :
    measurements[i].block = measurements[j].block => i = j

\* A sweep that returns has a measurement of every block of the dispatch
\* order, however many crashes, resumes and torn lines came before.
CompleteOnDone ==
  pc \in {"lastProbe", "done"} => BlocksIn(measurements) = Blocks

\* The results never mix two run identities: what the integrity gate of
\* resume.py accepts was measured under the parameters of this invocation.
NoMixedParams ==
  Up => \A i \in DOMAIN measurements : measurements[i].by = params

\* Without torn lines the i-th measurement is the i-th block of the dispatch
\* order and carries iter_idx i - 1, across any number of resumes: the seeds
\* and prompts of a resumed sweep are those of an uninterrupted one.
SeedsPreserved ==
  \A i \in DOMAIN measurements :
    measurements[i].block = Order[i] /\ measurements[i].idx = i - 1

\* Without torn lines the file is the memory of the running process: a crash
\* after any step loses nothing that was recorded.
DiskMirrorsMemory ==
  Up => file.meas = measurements /\ file.anchors = snapshots

\* verify_iteration_discipline on the points in measurement order (their
\* start times increase): no tuple is left and come back to.
VerifyIterationDiscipline(ms) ==
  ~ \E i, j, k \in DOMAIN ms :
      /\ i < j /\ j < k
      /\ ms[i].block.tuple = ms[k].block.tuple
      /\ ms[i].block.tuple # ms[j].block.tuple

\* Without torn lines a sweep reports iteration_discipline_verified also
\* when it was killed in the middle of a tuple and resumed (FR-032).
DisciplineKept == pc = "done" => VerifyIterationDiscipline(measurements)

\* "the on-disk state survives kill -9" (resume.py:17): a block whose append
\* (and fsync) returned is in the file for as long as the file is appended to.
\* Torn lines refute it.
AckedSurvives == acked \subseteq BlocksIn(file.meas)

\* What torn lines can do at worst: every process that was killed costs at
\* most one acknowledged block, which is then measured again.
Alive == IF Up THEN 1 ELSE 0
LossBounded == Cardinality(acked \ BlocksIn(file.meas)) + Alive <= starts

\* A block on a line that ends in a newline stays in the file until a new
\* header is written: no crash and no append reaches it (resume.py:120-133).
SoundMeas(f) == IF f.tail = "meas" THEN AllButLast(f.meas) ELSE f.meas
SoundBlocks == BlocksIn(SoundMeas(file))
FinishedLinesStay ==
  [][\/ \E p \in Params : StartFresh(p) \/ CrashInHeader(p)
     \/ SoundBlocks \subseteq SoundBlocks']_vars

\* A mark within the end slack of the clock, the duration of the anchor that
\* carries it aside.
NearEnd(m) == m <= elapsed /\ \E d \in AnchorTicks \cup {0} : m + Epsilon + d >= elapsed

\* A sweep that was not resumed and whose anchors never come back empty has
\* an anchor within the end slack of its last block: the trajectory always
\* reaches the end of the sweep.
EndIsAnchored ==
  pc \in {"lastProbe", "done"} /\ ~resumed /\ <<>> \notin AnchorYields =>
    \E m \in MarksOf(snapshots) : NearEnd(m)

\* The inductive invariant behind MeasuredOnce, CompleteOnDone and
\* NoMixedParams.  The file never repeats a block; the memory of a process
\* holds exactly the preloaded blocks and those the loop has passed, and at
\* least what the file holds, all under one run identity.
UniqueBlocks(ms) == \A i, j \in DOMAIN ms : ms[i].block = ms[j].block => i = j
SignedBy(ms, p) == \A i \in DOMAIN ms : ms[i].by = p
Passed == {Order[i] : i \in {j \in DOMAIN Order : j < pos}}
LoopIsOver == pc \in {"lastProbe", "done"} \/ (pc = "anchorWrite" /\ ret = "lastProbe")
FileInv ==
  /\ UniqueBlocks(file.meas)
  /\ file.hdr # NoHeader => SignedBy(file.meas, file.hdr)
MemoryInv ==
  /\ BlocksIn(measurements) = completed \cup Passed
  /\ BlocksIn(file.meas) \subseteq BlocksIn(measurements)
  /\ SignedBy(measurements, params) /\ SignedBy(file.meas, params)
  /\ file.hdr \in {params, NoHeader}
  /\ LoopIsOver => pos = N + 1
SweepInv == FileInv /\ UniqueBlocks(measurements) /\ (Up => MemoryInv)

\* The inductive invariant behind SeedsPreserved, DiskMirrorsMemory and
\* ImplementsLedger.  Without torn lines the file is a prefix of the dispatch
\* order, and what the loop still skips is what the file already has.
InOrder(ms) ==
  /\ Len(ms) <= N
  /\ \A i \in DOMAIN ms : ms[i].block = Order[i] /\ ms[i].idx = i - 1
LedgerInv ==
  /\ file.tail = "clean"
  /\ InOrder(file.meas)
  /\ ~Up => measurements = <<>>
  /\ Up =>
       /\ measurements = file.meas /\ snapshots = file.anchors
       /\ pos - 1 <= Len(measurements)
       /\ completed \subseteq BlocksIn(measurements)
       /\ \A i \in pos..Len(measurements) : Order[i] \in completed
       /\ LoopIsOver => pos = N + 1

\* The inductive invariant behind EndIsAnchored.  No mark of a sweep that was
\* not resumed lies ahead of its clock, and those of the end anchor are near
\* the end while they wait to be recorded.
EndInv ==
  Up /\ ~resumed =>
    /\ \A m \in MarksOf(snapshots) \cup MarksOf(pending) : m <= elapsed
    /\ pc = "anchorWrite" /\ ret = "lastProbe" => \A m \in MarksOf(pending) : NearEnd(m)
    /\ EndIsAnchored

\* The inductive invariant behind LossBounded: an unfinished last line is a
\* loss that has not happened yet.
Unfinished == IF file.tail = "clean" THEN 0 ELSE 1
LossInv ==
  /\ IsFiniteSet(acked)
  /\ Cardinality(acked \ SoundBlocks) + Unfinished + Alive <= starts

\* The checkpoint implements the ledger.
Ledger == INSTANCE SweepLedger WITH
  ledger   <- [i \in DOMAIN file.meas |-> file.meas[i].block],
  finished <- pc = "done"
ImplementsLedger == Ledger!LedgerSpec

============================================================================
