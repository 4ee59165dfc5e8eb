------------------------- MODULE SweepMonitor_proofs -------------------------
(***************************************************************************)
(* The safety of SweepMonitor for any number of launches and blocks.       *)
(***************************************************************************)
EXTENDS SweepMonitor, WellFoundedInduction, TLAPS

\* A bounded set of naturals has a largest element, and Max is it: by the
\* smallest of its bounds.
LEMMA MaxIsLargest ==
  ASSUME NEW S, S \subseteq Nat, S # {}, NEW b \in Nat, \A y \in S : y <= b
  PROVE  Max(S) \in S /\ \A y \in S : y <= Max(S)
<1> DEFINE Bounds == {u \in Nat : \A y \in S : y <= u}
<1>1. PICK u \in Bounds : \A v \in Bounds : ~(<<v, u>> \in OpToRel(<, Nat))
  <2>1. Bounds \subseteq Nat /\ Bounds # {}
    OBVIOUS
  <2> HIDE DEF Bounds
  <2> QED
    BY <2>1, NatLessThanWellFounded, WFMin
<1>2. \A v \in Bounds : ~(v < u)
  BY <1>1 DEF OpToRel
<1>3. u \in S
  <2> SUFFICES ASSUME u \notin S PROVE FALSE
    OBVIOUS
  <2>1. \A y \in S : y < u
    OBVIOUS
  <2>2. PICK x \in S : x < u
    BY <2>1
  <2>3. u - 1 \in Nat
    BY <2>2
  <2>4. \A y \in S : y <= u - 1
    BY <2>1
  <2> QED
    BY <1>2, <2>3, <2>4
<1> QED
  BY <1>3 DEF Max

\* What an event added to a log changes.
LEMMA AppendedEvent ==
  \A events \in Seq(Events) : \A e \in Events : \A t :
    /\ Tagged(Append(events, e), t) = Tagged(events, t) \union
                                        (IF e.tag = t THEN {Len(events) + 1} ELSE {})
    /\ \A i \in Tagged(events, t) : Append(events, e)[i] = events[i]
    /\ Append(events, e)[Len(events) + 1] = e
<1> SUFFICES ASSUME NEW events \in Seq(Events), NEW e \in Events, NEW t
             PROVE  /\ Tagged(Append(events, e), t) = Tagged(events, t) \union
                                        (IF e.tag = t THEN {Len(events) + 1} ELSE {})
                    /\ \A i \in Tagged(events, t) : Append(events, e)[i] = events[i]
                    /\ Append(events, e)[Len(events) + 1] = e
  OBVIOUS
<1> QED
  BY DEF Tagged

\* The last start of a log is one of its events.
LEMMA StartIsThere ==
  ASSUME NEW events \in Seq(Events), Tagged(events, "SWEEP_START") # {}
  PROVE  Max(Tagged(events, "SWEEP_START")) \in Tagged(events, "SWEEP_START")
<1>1. /\ Tagged(events, "SWEEP_START") \subseteq Nat /\ Len(events) \in Nat
      /\ \A i \in Tagged(events, "SWEEP_START") : i <= Len(events)
  BY DEF Tagged
<1> QED
  BY <1>1, MaxIsLargest

\* A log without events says nothing.
LEMMA EmptyLog == LogOK(<<>>) /\ \A t : Tagged(<<>>, t) = {}
  BY DEF LogOK, OneRun, Tagged

LEMMA MonitorInit == Init => MonitorInv /\ CompletionIsFresh
<1> SUFFICES ASSUME Init PROVE MonitorInv /\ CompletionIsFresh
  OBVIOUS
<1>1. TypeOK
  <2>1. checkpoint \in [started : Nat, blocks : Nat]
    BY DEF Init, None
  <2>2. artifact \in [by : 0 .. Last, mtime : Nat] /\ pid \in 0 .. Last
    BY DEF Init, Last
  <2>3. launches \in Seq(Nat) /\ log \in Seq(Events) /\ seen \in Seq(Events)
    BY DEF Init
  <2> QED
    BY <2>1, <2>2, <2>3 DEF Init, TypeOK, Phases
<1>2. ClockInv /\ DeathIsReal /\ CompletionIsFresh
  BY DEF Init, ClockInv, DeathIsReal, CompletionIsFresh, Last, None
<1>3. LogInv
  BY EmptyLog DEF Init, LogInv
<1> QED
  BY <1>1, <1>2, <1>3 DEF MonitorInv

----------------------------------------------------------------------------
(* The steps of the sweep.                                                 *)

\* A launch is the latest of all.
LEMMA LaunchLater ==
  ASSUME TypeOK, ClockInv, NEW append \in BOOLEAN, Launch(append)
  PROVE  /\ launches' \in Seq(Nat) /\ Last' = Last + 1
         /\ launches'[Last'] = now' /\ now' = now + 1
         /\ \A j \in 1 .. Last : launches'[j] = launches[j] /\ launches[j] \in Nat
         /\ Last \in Nat /\ now \in Nat /\ artifact.by \in 0 .. Last
         /\ artifact.mtime \in Nat /\ UNCHANGED artifact
<1> USE DEF Last
<1>1. /\ launches \in Seq(Nat) /\ now \in Nat /\ now' = now + 1
      /\ launches' = Append(launches, now') /\ UNCHANGED artifact
      /\ artifact.by \in 0 .. Last /\ artifact.mtime \in Nat
  BY DEF TypeOK, Launch
<1>2. now' \in Nat
  BY <1>1
<1>3. /\ launches' \in Seq(Nat) /\ Last' = Last + 1 /\ launches'[Last'] = now'
      /\ \A j \in 1 .. Last : launches'[j] = launches[j] /\ launches[j] \in Nat
      /\ Last \in Nat
  BY <1>1, <1>2
<1> QED
  BY <1>1, <1>3

\* A resume is of the same run, and what it does not find it counts as lost.
LEMMA ResumeKeeps ==
  ASSUME TypeOK, NEW append \in BOOLEAN, Resume(append)
  PROVE  /\ Launch(append)
         /\ checkpoint' \in [started : Nat, blocks : Nat] /\ lost' \in Nat
         /\ checkpoint'.started = checkpoint.started /\ Measured' = Measured
<1>1. /\ checkpoint \in [started : Nat, blocks : Nat] /\ lost \in Nat
  BY DEF TypeOK
<1>2. PICK blocks \in 0 .. checkpoint.blocks :
        /\ checkpoint' = [checkpoint EXCEPT !.blocks = blocks]
        /\ lost' = lost + (checkpoint.blocks - blocks)
  BY DEF Resume
<1>3. /\ checkpoint' \in [started : Nat, blocks : Nat]
      /\ checkpoint'.started = checkpoint.started /\ checkpoint'.blocks = blocks
  BY <1>1, <1>2
<1>4. lost' \in Nat /\ blocks + lost' = checkpoint.blocks + lost
  BY <1>1, <1>2
<1> QED
  BY <1>3, <1>4 DEF Resume, Measured

\* Every variable keeps its type when the sweep moves.
LEMMA SweepTypes ==
  ASSUME TypeOK, ClockInv, SweepStep, UNCHANGED monitorVars
  PROVE  TypeOK'
<1>1. ASSUME NEW append \in BOOLEAN, Launch(append),
             checkpoint' \in [started : Nat, blocks : Nat], lost' \in Nat
      PROVE  TypeOK'
  <2>1. log' \in Seq(Events)
    BY <1>1 DEF Launch, TypeOK
  <2>2. /\ launches' \in Seq(Nat) /\ now' \in Nat /\ phase' \in Phases
        /\ UNCHANGED <<artifact, pc, pid, json, once, seen, alive, exit>>
    BY <1>1, LaunchLater DEF Launch, Phases, monitorVars
  <2>3. artifact.by \in 0 .. Last' /\ artifact \in [by : 0 .. Last', mtime : Nat]
    BY <1>1, LaunchLater DEF TypeOK
  <2>4. pid \in 0 .. Last'
    BY <1>1, LaunchLater DEF TypeOK
  <2> QED
    BY <1>1, <2>1, <2>2, <2>3, <2>4 DEF TypeOK
<1>2. ASSUME NEW append \in BOOLEAN, Fresh(append) PROVE TypeOK'
  <2>1. /\ now' \in Nat /\ Launch(append) /\ lost' \in Nat
        /\ checkpoint' = [started |-> now', blocks |-> 0]
    BY <1>2, LaunchLater DEF Fresh
  <2> QED
    BY <1>1, <2>1
<1>3. ASSUME NEW append \in BOOLEAN, Resume(append) PROVE TypeOK'
  <2>1. Launch(append) /\ checkpoint' \in [started : Nat, blocks : Nat] /\ lost' \in Nat
    BY <1>3, ResumeKeeps
  <2> QED
    BY <1>1, <2>1
<1> USE DEF TypeOK, monitorVars
<1>4. CASE SweepStart
  <2>1. [tag |-> "SWEEP_START", utc |-> checkpoint.started, by |-> Last] \in Events
    BY DEF Events, Last
  <2> QED
    BY <1>4, <2>1 DEF SweepStart, Goto, Progress, Phases, Last
<1>5. CASE Measure
  <2>1. checkpoint' \in [started : Nat, blocks : Nat] /\ phase' \in Phases
    <3>1. /\ phase' = "measured" /\ checkpoint \in [started : Nat, blocks : Nat]
          /\ checkpoint' = [checkpoint EXCEPT !.blocks = @ + 1]
      BY <1>5 DEF Measure, Goto
    <3> HIDE DEF TypeOK
    <3> QED
      BY <3>1 DEF Phases
  <2>2. UNCHANGED <<now, launches, lost, log, artifact>> /\ Last' = Last
    BY <1>5 DEF Measure, Last
  <2> QED
    BY <2>1, <2>2
<1>6. CASE BlockDone
  <2>1. [tag |-> "BLOCK_DONE", i |-> checkpoint.blocks] \in Events
    BY DEF Events
  <2> QED
    BY <1>6, <2>1 DEF BlockDone, Goto, Progress, Phases, Last
<1>7. CASE SweepEnd
  <2>1. [tag |-> "SWEEP_END"] \in Events
    BY DEF Events
  <2> QED
    BY <1>7, <2>1 DEF SweepEnd, Goto, Progress, Phases, Last
<1>8. CASE SubProbe
  BY <1>8 DEF SubProbe, Goto, Phases, Last
<1>9. CASE WriteReport
  BY <1>9 DEF WriteReport, Goto, Phases, Last
<1>10. CASE End
  BY <1>10 DEF End, Phases, Last
<1> HIDE DEF TypeOK
<1> QED
  BY <1>2, <1>3, <1>4, <1>5, <1>6, <1>7, <1>8, <1>9, <1>10 DEF SweepStep

\* The clock moves on with every launch and never back.
LEMMA SweepClock ==
  ASSUME TypeOK, ClockInv, SweepStep
  PROVE  ClockInv' /\ now <= now' /\ Last <= Last'
<1>1. ASSUME NEW append \in BOOLEAN, Launch(append), checkpoint'.started <= now'
      PROVE  ClockInv' /\ now <= now' /\ Last <= Last'
  <2>1. /\ Last' = Last + 1 /\ launches'[Last'] = now' /\ now' = now + 1
        /\ \A j \in 1 .. Last : launches'[j] = launches[j] /\ launches[j] \in Nat
        /\ Last \in Nat /\ now \in Nat /\ artifact.by \in 0 .. Last
        /\ artifact.mtime \in Nat /\ UNCHANGED artifact
    BY <1>1, LaunchLater
  <2>2. \A j \in 1 .. Last' : launches'[j] <= now'
    BY <2>1 DEF ClockInv
  <2>3. \A j \in 1 .. Last' : \A k \in 1 .. Last' : j < k => launches'[j] < launches'[k]
    BY <2>1 DEF ClockInv
  <2>4. Last' > 0
    BY <2>1
  <2>5. artifact'.by > 0 =>
          /\ artifact'.mtime <= now'
          /\ \A k \in artifact'.by + 1 .. Last' : artifact'.mtime < launches'[k]
    BY <2>1 DEF ClockInv
  <2> QED
    BY <1>1, <2>1, <2>2, <2>3, <2>4, <2>5 DEF ClockInv
<1>2. ASSUME NEW append \in BOOLEAN, Fresh(append)
      PROVE  ClockInv' /\ now <= now' /\ Last <= Last'
  <2>1. now' \in Nat /\ Launch(append) /\ checkpoint'.started = now'
    BY <1>2, LaunchLater DEF Fresh
  <2> QED
    BY <1>1, <2>1
<1>3. ASSUME NEW append \in BOOLEAN, Resume(append)
      PROVE  ClockInv' /\ now <= now' /\ Last <= Last'
  <2>1. /\ now \in Nat /\ now' = now + 1 /\ Launch(append)
        /\ checkpoint'.started = checkpoint.started /\ checkpoint.started \in Nat
    BY <1>3, LaunchLater, ResumeKeeps DEF TypeOK
  <2>2. checkpoint'.started <= now'
    BY <2>1 DEF ClockInv
  <2> QED
    BY <1>1, <2>1, <2>2
<1> USE DEF TypeOK, ClockInv
<1>4. CASE SweepStart \/ BlockDone \/ SubProbe \/ End
  <2>1. UNCHANGED <<now, launches, checkpoint, artifact>> /\ Last' = Last
    BY <1>4 DEF SweepStart, BlockDone, SubProbe, End, Last
  <2>2. phase' # "off" => phase # "off"
    BY <1>4 DEF SweepStart, BlockDone, SubProbe, End, Goto
  <2>3. now \in Nat /\ Last \in Nat
    BY DEF Last
  <2> QED
    BY <2>1, <2>2, <2>3
<1>5. CASE Measure
  BY <1>5 DEF Measure, Goto, Last
<1>6. CASE SweepEnd
  BY <1>6 DEF SweepEnd, Goto, Last
<1>7. CASE WriteReport
  BY <1>7 DEF WriteReport, Goto, Last
<1> HIDE DEF TypeOK, ClockInv
<1> QED
  BY <1>2, <1>3, <1>4, <1>5, <1>6, <1>7 DEF SweepStep

\* The number of a run's blocks, at every moment.
LEMMA MeasuredType == TypeOK => Measured \in Nat /\ Measured <= Measured
  BY DEF TypeOK, Measured

\* What was sound in a log stays sound while the run measures more or another begins.
LEMMA OldLog ==
  ASSUME TypeOK, ClockInv, NEW events \in Seq(Events), LogOK(events),
         now <= now', Last <= Last', now' \in Nat, Last' \in Nat,
         \/ checkpoint'.started = now + 1
         \/ /\ checkpoint'.started = checkpoint.started
            /\ Measured' \in Nat /\ Measured <= Measured'
  PROVE  LogOK(events)'
<1> USE DEF TypeOK
<1>1. \A i \in Tagged(events, "SWEEP_START") :
        /\ events[i].by \in 1 .. Last' /\ events[i].utc <= now'
        /\ events[i].by \in Nat /\ events[i].utc \in Nat
  <2> SUFFICES ASSUME NEW i \in Tagged(events, "SWEEP_START")
               PROVE  /\ events[i].by \in 1 .. Last' /\ events[i].utc <= now'
                      /\ events[i].by \in Nat /\ events[i].utc \in Nat
    OBVIOUS
  <2>1. events[i] \in Events /\ events[i].tag = "SWEEP_START"
    BY DEF Tagged
  <2>2. events[i].by \in Nat /\ events[i].utc \in Nat
    BY <2>1 DEF Events
  <2>3. Last \in Nat /\ now \in Nat
    BY DEF Last
  <2>4. events[i].by \in 1 .. Last /\ events[i].utc <= now
    BY DEF LogOK
  <2> HIDE DEF TypeOK
  <2>5. \A u, v, w \in Nat : u <= v /\ v <= w => u <= w
    OBVIOUS
  <2>6. events[i].by <= Last /\ 1 <= events[i].by /\ events[i].by <= Last'
    BY <2>2, <2>3, <2>4, <2>5
  <2>7. events[i].utc <= now'
    BY <2>2, <2>3, <2>4, <2>5
  <2> QED
    BY <2>2, <2>6, <2>7
<1>2. ASSUME NEW i \in Tagged(events, "BLOCK_DONE") PROVE events[i].i \in Nat
  <2>1. events[i] \in Events /\ events[i].tag = "BLOCK_DONE"
    BY DEF Tagged
  <2> QED
    BY <2>1 DEF Events
<1> HIDE DEF TypeOK
<1>3. CASE checkpoint'.started = now + 1
  <2>1. ~OneRun(events)'
    <3> SUFFICES ASSUME OneRun(events)' PROVE FALSE
      OBVIOUS
    <3>1. PICK i \in Tagged(events, "SWEEP_START") : events[i].utc = now + 1
      BY <1>3 DEF OneRun
    <3>2. events[i].utc <= now /\ now \in Nat
      BY DEF LogOK, TypeOK
    <3> QED
      BY <3>1, <3>2
  <2> QED
    BY <1>1, <2>1 DEF LogOK
<1>4. CASE /\ checkpoint'.started = checkpoint.started
           /\ Measured' \in Nat /\ Measured <= Measured'
  <2>1. OneRun(events)' => OneRun(events)
    BY <1>4 DEF OneRun
  <2>2. OneRun(events)' => \A i \in Tagged(events, "BLOCK_DONE") : events[i].i <= Measured'
    <3> SUFFICES ASSUME OneRun(events)', NEW i \in Tagged(events, "BLOCK_DONE")
                 PROVE  events[i].i <= Measured'
      OBVIOUS
    <3>1. events[i].i <= Measured /\ events[i].i \in Nat
      BY <1>2, <2>1 DEF LogOK
    <3>2. Measured \in Nat
      BY DEF TypeOK, Measured
    <3> QED
      BY <1>4, <3>1, <3>2
  <2> QED
    BY <1>1, <2>2 DEF LogOK
<1> QED
  BY <1>3, <1>4

\* The sweep announces only what it has measured.
LEMMA SweepLog ==
  ASSUME TypeOK, ClockInv, LogInv, SweepStep, UNCHANGED monitorVars
  PROVE  LogInv'
<1>0. /\ now <= now' /\ Last <= Last' /\ now' \in Nat /\ Last' \in Nat
      /\ now \in Nat /\ Last \in Nat
  <2>1. TypeOK' /\ now <= now' /\ Last <= Last'
    BY SweepClock, SweepTypes
  <2>2. TypeOK => now \in Nat /\ Last \in Nat
    BY DEF TypeOK, Last
  <2>3. TypeOK' => now' \in Nat /\ Last' \in Nat
    BY DEF TypeOK, Last
  <2> QED
    BY <2>1, <2>2, <2>3
<1> USE DEF TypeOK
<1>1. \A events \in {log, seen} : events \in Seq(Events) /\ LogOK(events)
  BY DEF LogInv
<1>2. seen' = seen
  BY DEF monitorVars
<1>3. Tagged(log, "SWEEP_START") # {} \/ phase \in {"off", "deploy"}
  BY DEF LogInv
\* A step that leaves the log alone, or empties it.
<1>4. ASSUME log' = log \/ log' = <<>>,
             \/ checkpoint'.started = now + 1
             \/ /\ checkpoint'.started = checkpoint.started
                /\ Measured' \in Nat /\ Measured <= Measured'
      PROVE  LogOK(log)' /\ LogOK(seen)'
  <2>1. LogOK(seen)'
    BY <1>0, <1>1, <1>2, <1>4, OldLog
  <2>2. CASE log' = log
    BY <1>0, <1>1, <1>4, <2>1, <2>2, OldLog
  <2>3. CASE log' = <<>>
    BY <2>1, <2>3, EmptyLog DEF LogOK, OneRun, Tagged
  <2> QED
    BY <1>4, <2>2, <2>3
\* A step that writes an event to it.
<1>5. ASSUME UNCHANGED <<checkpoint, lost>>, NEW e \in Events, Progress(e),
             e.tag # "SWEEP_START" => phase \notin {"off", "deploy"},
             e.tag = "SWEEP_START" =>
               e.by = Last /\ Last > 0 /\ e.utc = checkpoint.started,
             e.tag = "BLOCK_DONE" => e.i = checkpoint.blocks
      PROVE  LogInv'
  <2>0. Measured' = Measured /\ checkpoint'.started = checkpoint.started
    BY <1>5 DEF Measured
  <2>1. LogOK(seen)'
    BY <1>0, <1>1, <1>2, <2>0, MeasuredType, OldLog
  <2>2. log \in Seq(Events) /\ log' = Append(log, e)
    BY <1>5 DEF Progress
  <2>3. /\ \A t : Tagged(log', t) = Tagged(log, t) \union
                                      (IF e.tag = t THEN {Len(log) + 1} ELSE {})
        /\ \A t : \A i \in Tagged(log, t) : log'[i] = log[i]
        /\ log'[Len(log) + 1] = e
    <3>1. \A t : /\ Tagged(Append(log, e), t) = Tagged(log, t) \union
                                         (IF e.tag = t THEN {Len(log) + 1} ELSE {})
                 /\ \A i \in Tagged(log, t) : Append(log, e)[i] = log[i]
                 /\ Append(log, e)[Len(log) + 1] = e
      <4> HIDE DEF TypeOK
      <4> QED
        BY <2>2, AppendedEvent, Zenon
    <3> QED
      BY <2>2, <3>1
  <2>4. LogOK(log) /\ checkpoint' = checkpoint
    BY <1>1, <1>5
  <2>5. Tagged(log', "SWEEP_START") # {}
    BY <1>3, <1>5, <2>3
  <2>6. ASSUME NEW i \in Tagged(log', "SWEEP_START")
        PROVE  log'[i].by \in 1 .. Last' /\ log'[i].utc <= now'
    <3>1. CASE i \in Tagged(log, "SWEEP_START")
      <4>1. log'[i] = log[i] /\ log[i].by \in 1 .. Last /\ log[i].utc <= now
        BY <2>3, <2>4, <3>1 DEF LogOK
      <4>2. log[i] \in Events /\ log[i].tag = "SWEEP_START"
        BY <2>2, <3>1 DEF Tagged
      <4>3. log[i].utc \in Nat
        BY <4>2 DEF Events
      <4> HIDE DEF TypeOK
      <4> QED
        BY <1>0, <4>1, <4>3
    <3>2. CASE i \notin Tagged(log, "SWEEP_START")
      <4>1. log'[i] = e /\ e.tag = "SWEEP_START"
        BY <2>3, <2>6, <3>2
      <4>2. checkpoint.started <= now /\ checkpoint.started \in Nat
        BY DEF ClockInv
      <4> QED
        BY <1>0, <1>5, <4>1, <4>2
    <3> QED
      BY <3>1, <3>2
  <2>7. ASSUME OneRun(log)', NEW i \in Tagged(log', "BLOCK_DONE")
        PROVE  log'[i].i <= Measured'
    <3>1. CASE i \in Tagged(log, "BLOCK_DONE")
      <4>1. Tagged(log, "SWEEP_START") # {}
        BY <2>4, <3>1 DEF LogOK
      <4>2. OneRun(log)
        BY <2>3, <2>4, <2>7, <4>1 DEF OneRun
      <4> QED
        BY <2>0, <2>3, <2>4, <3>1, <4>2 DEF LogOK
    <3>2. CASE i \notin Tagged(log, "BLOCK_DONE")
      <4>1. log'[i] = e /\ e.tag = "BLOCK_DONE"
        BY <2>3, <2>7, <3>2
      <4>2. checkpoint.blocks \in Nat /\ lost \in Nat
        OBVIOUS
      <4> QED
        BY <1>5, <2>0, <4>1, <4>2 DEF Measured
    <3> QED
      BY <3>1, <3>2
  <2>8. LogOK(log)'
    BY <2>5, <2>6, <2>7 DEF LogOK
  <2> QED
    BY <2>1, <2>5, <2>8 DEF LogInv
<1>6. ASSUME NEW append \in BOOLEAN, Fresh(append) \/ Resume(append) PROVE LogInv'
  <2>1. /\ log' = log \/ log' = <<>>
        /\ phase' = "deploy"
    BY <1>6 DEF Fresh, Resume, Launch
  <2>2. CASE Fresh(append)
    <3>1. checkpoint'.started = now + 1
      BY <2>2 DEF Fresh, Launch
    <3>2. LogOK(log)' /\ LogOK(seen)'
      BY <1>4, <2>1, <3>1
    <3> QED
      BY <2>1, <3>2 DEF LogInv
  <2>3. CASE Resume(append)
    <3>1. checkpoint'.started = checkpoint.started /\ Measured' = Measured
      BY <2>3, ResumeKeeps
    <3>2. LogOK(log)' /\ LogOK(seen)'
      BY <1>4, <2>1, <3>1, MeasuredType
    <3> QED
      BY <2>1, <3>2 DEF LogInv
  <2> QED
    BY <1>6, <2>2, <2>3
<1>7. CASE SweepStart
  <2> DEFINE e == [tag |-> "SWEEP_START", utc |-> checkpoint.started, by |-> Last]
  <2>1. e \in Events
    BY <1>0 DEF Events
  <2>2. Last > 0
    BY <1>7 DEF SweepStart, Goto, ClockInv
  <2>3. /\ Progress(e) /\ UNCHANGED <<checkpoint, lost>>
        /\ e.tag = "SWEEP_START" /\ e.by = Last /\ e.utc = checkpoint.started
    BY <1>7 DEF SweepStart
  <2> HIDE DEF e
  <2> QED
    BY <1>5, <2>1, <2>2, <2>3
<1>8. CASE Measure
  <2>1. /\ log' = log /\ phase = "sweep" /\ checkpoint'.started = checkpoint.started
        /\ checkpoint'.blocks = checkpoint.blocks + 1 /\ lost' = lost
        /\ checkpoint.blocks \in Nat /\ lost \in Nat
    BY <1>8 DEF Measure, Goto
  <2>2. Measured' \in Nat /\ Measured <= Measured'
    BY <2>1 DEF Measured
  <2>3. LogOK(log)' /\ LogOK(seen)'
    BY <1>4, <2>1, <2>2
  <2> QED
    BY <1>3, <2>1, <2>3 DEF LogInv
<1>9. CASE BlockDone
  <2> DEFINE e == [tag |-> "BLOCK_DONE", i |-> checkpoint.blocks]
  <2>1. e \in Events
    BY DEF Events
  <2>2. /\ Progress(e) /\ UNCHANGED <<checkpoint, lost>> /\ phase = "measured"
        /\ e.tag = "BLOCK_DONE" /\ e.i = checkpoint.blocks
    BY <1>9 DEF BlockDone, Goto
  <2> HIDE DEF e
  <2> QED
    BY <1>5, <2>1, <2>2
<1>10. CASE SweepEnd
  <2> DEFINE e == [tag |-> "SWEEP_END"]
  <2>1. e \in Events /\ e.tag \notin {"SWEEP_START", "BLOCK_DONE"}
    BY DEF Events
  <2>2. /\ Progress(e) /\ UNCHANGED <<checkpoint, lost>>
        /\ phase \notin {"off", "deploy"}
    BY <1>10 DEF SweepEnd, Goto
  <2> HIDE DEF e
  <2> QED
    BY <1>5, <2>1, <2>2
<1>11. CASE SubProbe \/ WriteReport \/ End
  <2>1. /\ log' = log /\ checkpoint' = checkpoint /\ lost' = lost
        /\ (phase # "off" /\ phase # "deploy") \/ phase' = "off"
    BY <1>11 DEF SubProbe, WriteReport, End, Goto
  <2>2. Measured' = Measured
    BY <2>1 DEF Measured
  <2>3. LogOK(log)' /\ LogOK(seen)'
    BY <1>4, <2>1, <2>2, MeasuredType
  <2> QED
    BY <1>3, <2>1, <2>3 DEF LogInv
<1> QED
  BY <1>6, <1>7, <1>8, <1>9, <1>10, <1>11 DEF SweepStep

----------------------------------------------------------------------------
(* The steps of the monitor.                                               *)

\* A dead process stays dead, and the artifact only gets younger.
LEMMA SweepKeepsVerdict ==
  ASSUME TypeOK, ClockInv, LogInv, DeathIsReal, CompletionIsFresh,
         SweepStep, UNCHANGED monitorVars, TypeOK'
  PROVE  DeathIsReal' /\ CompletionIsFresh'
<1>1. /\ Last \in Nat /\ Last <= Last' /\ Last' \in Nat
      /\ \A j \in 1 .. Last : launches'[j] = launches[j]
      /\ artifact.by \in 0 .. Last /\ artifact'.by \in 0 .. Last'
      /\ artifact.by <= artifact'.by
  <2>0. /\ Last \in Nat /\ Last' \in Nat /\ artifact.by \in 0 .. Last /\ artifact'.by \in 0 .. Last'
    <3>1. Last \in Nat /\ artifact.by \in 0 .. Last
      BY DEF TypeOK, Last
    <3>2. Last' \in Nat /\ artifact'.by \in 0 .. Last'
      BY DEF TypeOK, Last
    <3> QED
      BY <3>1, <3>2
  <2>1. CASE \E append \in BOOLEAN : Fresh(append) \/ Resume(append)
    <3>1. PICK append \in BOOLEAN : Launch(append)
      BY <2>1 DEF Fresh, Resume
    <3>2. /\ Last' = Last + 1 /\ artifact' = artifact
          /\ \A j \in 1 .. Last : launches'[j] = launches[j]
      BY <3>1, LaunchLater
    <3> QED
      BY <2>0, <3>2
  <2>2. CASE SweepStart \/ Measure \/ BlockDone \/ SweepEnd \/ SubProbe \/ End
    <3>1. launches' = launches /\ artifact' = artifact /\ Last' = Last
      BY <2>2 DEF SweepStart, Measure, BlockDone, SweepEnd, SubProbe, End, Last
    <3> QED
      BY <2>0, <3>1
  <2>3. CASE WriteReport
    <3>1. launches' = launches /\ Last' = Last /\ artifact'.by \in {Last, artifact.by}
      BY <2>3 DEF WriteReport, Last
    <3> QED
      BY <2>0, <3>1
  <2> QED
    BY <2>1, <2>2, <2>3 DEF SweepStep
<1>2. ASSUME pid > 0, ~Running(pid) PROVE ~Running(pid)'
  <2>1. pid \in 0 .. Last
    BY DEF TypeOK
  <2>2. CASE \E append \in BOOLEAN : Launch(append)
    <3>1. Last' = Last + 1 /\ pid' = pid
      BY <2>2, LaunchLater DEF monitorVars
    <3>2. pid # Last'
      BY <1>1, <2>1, <3>1
    <3> QED
      BY <3>1, <3>2 DEF Running
  <2>3. CASE UNCHANGED launches
    <3>1. Last' = Last /\ pid' = pid
      BY <2>3 DEF Last, monitorVars
    <3>2. CASE \E append \in BOOLEAN : Fresh(append) \/ Resume(append)
      <4>1. Last' = Last + 1 /\ Last \in Nat
        BY <3>2, LaunchLater DEF Fresh, Resume
      <4> QED
        BY <3>1, <4>1
    <3>3. CASE SweepStart \/ Measure \/ BlockDone \/ SweepEnd \/ SubProbe \/ WriteReport \/ End
      <4>1. phase' = "off" \/ phase # "off"
        BY <3>3 DEF SweepStart, Measure, BlockDone, SweepEnd, SubProbe, WriteReport, End, Goto
      <4> QED
        BY <1>2, <3>1, <4>1 DEF Running
    <3> QED
      BY <3>2, <3>3 DEF SweepStep
  <2> QED
    BY <2>2, <2>3 DEF SweepStep, SweepStart, Measure, BlockDone, SweepEnd,
          SubProbe, WriteReport, End, Fresh, Resume
<1>3. DeathIsReal'
  BY <1>2 DEF DeathIsReal, monitorVars
<1>4. CompletionIsFresh'
  <2> SUFFICES ASSUME exit = "completed"
               PROVE  CompletionIsFresh'
    BY DEF CompletionIsFresh, monitorVars
  <2>1. seen' = seen /\ exit' = exit
    BY DEF monitorVars
  <2>2. StartOf(seen)' = StartOf(seen) /\ Ended(seen)' = Ended(seen)
    BY <2>1
  <2>3. /\ Tagged(seen, "SWEEP_START") # {} /\ Ended(seen)
        /\ StartOf(seen).utc >= launches[StartOf(seen).by] => artifact.by >= StartOf(seen).by
    BY DEF CompletionIsFresh
  <2>4. StartOf(seen).by \in 1 .. Last
    <3>1. seen \in Seq(Events) /\ LogOK(seen)
      BY DEF TypeOK, LogInv
    <3> QED
      BY <2>3, <3>1, StartIsThere DEF LogOK, StartOf
  <2> QED
    BY <1>1, <2>1, <2>2, <2>3, <2>4 DEF CompletionIsFresh
<1> QED
  BY <1>3, <1>4

LEMMA SweepStepKeeps ==
  MonitorInv /\ CompletionIsFresh /\ SweepStep /\ UNCHANGED monitorVars
    => MonitorInv' /\ CompletionIsFresh'
BY SweepTypes, SweepClock, SweepLog, SweepKeepsVerdict DEF MonitorInv

\* Its own steps touch neither the clock nor the log.
LEMMA MonitorStepKeeps ==
  ASSUME MonitorInv, CompletionIsFresh, Start \/ Tick, UNCHANGED sweepVars
  PROVE  MonitorInv' /\ CompletionIsFresh'
<1> USE DEF MonitorInv
<1>1. TypeOK'
  <2>1. UNCHANGED Last /\ <<>> \in Seq(Events)
    BY DEF sweepVars, Last
  <2>2. CASE Start
    BY <2>1, <2>2 DEF TypeOK, sweepVars, Start, Last
  <2>3. CASE ReadLog
    BY <2>1, <2>3 DEF TypeOK, sweepVars, ReadLog
  <2>4. CASE CheckPid
    BY <2>1, <2>4 DEF TypeOK, sweepVars, CheckPid
  <2>5. CASE Snapshot \/ ProcessGone \/ SweepCompleted
    BY <2>1, <2>5 DEF TypeOK, sweepVars, Snapshot, ProcessGone, SweepCompleted, Exit
  <2>6. CASE NextTick
    BY <2>1, <2>6 DEF TypeOK, sweepVars, NextTick
  <2> QED
    BY <2>2, <2>3, <2>4, <2>5, <2>6 DEF Tick
<1>2. ClockInv'
  BY DEF ClockInv, sweepVars, Last
<1>3. LogInv'
  <2>1. seen' \in {seen, log, <<>>}
    BY DEF Start, Tick, ReadLog, CheckPid, Snapshot, ProcessGone, SweepCompleted,
           Exit, NextTick
  <2>2. \A events \in {seen, log, <<>>} : LogOK(events)
    BY EmptyLog DEF LogInv
  <2>3. LogOK(log)' /\ LogOK(seen)'
    BY <2>1, <2>2 DEF LogOK, OneRun, Measured, sweepVars, Last
  <2> QED
    BY <2>3 DEF LogInv, sweepVars
<1>4. DeathIsReal'
  <2>1. Running(pid)' = Running(pid) \/ pid' # pid
    BY DEF sweepVars, Running, Last
  <2>2. CASE Start
    BY <2>2 DEF DeathIsReal, Start
  <2>3. CASE CheckPid
    BY <2>1, <2>3 DEF DeathIsReal, CheckPid, TypeOK
  <2>4. CASE ReadLog \/ Snapshot \/ ProcessGone \/ SweepCompleted \/ NextTick
    BY <2>1, <2>4 DEF DeathIsReal, ReadLog, Snapshot, ProcessGone, SweepCompleted,
           Exit, NextTick
  <2> QED
    BY <2>2, <2>3, <2>4 DEF Tick
<1>5. CompletionIsFresh'
  <2>1. CASE SweepCompleted
    <3> DEFINE start == StartOf(seen)
    <3>1. /\ seen' = seen /\ launches' = launches /\ artifact' = artifact
          /\ Ended(seen) /\ Tagged(seen, "SWEEP_START") # {}
          /\ artifact.by > 0 /\ artifact.mtime > start.utc
      BY <2>1 DEF SweepCompleted, Exit, Completed, ArtifactPresent, sweepVars
    <3>2. /\ start.by \in 1 .. Last /\ start.by \in Nat /\ start.utc \in Nat
          /\ Last \in Nat /\ launches[start.by] \in Nat
          /\ artifact.by \in Nat /\ artifact.mtime \in Nat
      <4>1. start \in Events /\ start.tag = "SWEEP_START" /\ start.by \in 1 .. Last
        <5>1. seen \in Seq(Events) /\ LogOK(seen)
          BY DEF TypeOK, LogInv
        <5> DEFINE i == Max(Tagged(seen, "SWEEP_START"))
        <5>2. i \in Tagged(seen, "SWEEP_START")
          BY <3>1, <5>1, StartIsThere
        <5> HIDE DEF i
        <5>3. seen[i].by \in 1 .. Last /\ seen[i] \in Events /\ seen[i].tag = "SWEEP_START"
          BY <5>1, <5>2 DEF LogOK, Tagged
        <5> QED
          BY <5>3 DEF StartOf, i
      <4>2. start.utc \in Nat
        BY <4>1 DEF Events
      <4> HIDE DEF start
      <4>3. Last \in Nat /\ launches \in [1 .. Last -> Nat]
        BY DEF TypeOK, Last
      <4>4. artifact.by \in Nat /\ artifact.mtime \in Nat
        BY <4>3 DEF TypeOK
      <4> QED
        BY <4>1, <4>2, <4>3, <4>4
    <3> HIDE DEF start
    <3>3. start.utc >= launches[start.by] => artifact.by >= start.by
      <4> SUFFICES ASSUME start.utc >= launches[start.by], artifact.by < start.by PROVE FALSE
        BY <3>2
      <4>1. start.by \in artifact.by + 1 .. Last
        BY <3>2
      <4>2. artifact.mtime < launches[start.by]
        BY <3>1, <4>1 DEF ClockInv
      <4> QED
        BY <3>1, <3>2, <4>2
    <3>4. StartOf(seen)' = start /\ Ended(seen)' /\ Tagged(seen, "SWEEP_START")' # {}
      BY <3>1 DEF Ended, Tagged, StartOf, start
    <3> QED
      BY <3>1, <3>3, <3>4 DEF CompletionIsFresh
  <2>2. CASE ~SweepCompleted
    <3>1. CASE exit' = "completed"
      <4>1. pc = "exited"
        BY <2>2, <3>1 DEF Tick, Start, ReadLog, CheckPid, Snapshot, ProcessGone, Exit,
              NextTick, DeathIsReal
      <4> QED
        BY <4>1 DEF Tick, Start, ReadLog, CheckPid, Snapshot, ProcessGone,
           SweepCompleted, Exit, NextTick
    <3>2. CASE exit' # "completed"
      BY <3>2 DEF CompletionIsFresh
    <3> QED
      BY <3>1, <3>2
  <2> QED
    BY <2>1, <2>2
<1> QED
  BY <1>1, <1>2, <1>3, <1>4, <1>5

\* The monitor's invariant holds of every reachable state: what it says of the
\* sweep's death, of its blocks and of its start is true, for any number of
\* launches and blocks.
THEOREM MonitorInvariant == Spec => [](MonitorInv /\ CompletionIsFresh)
<1>1. MonitorInv /\ CompletionIsFresh /\ [Next]_vars => (MonitorInv /\ CompletionIsFresh)'
  <2> SUFFICES ASSUME MonitorInv, CompletionIsFresh, [Next]_vars
               PROVE  (MonitorInv /\ CompletionIsFresh)'
    OBVIOUS
  <2>1. CASE UNCHANGED vars
    <3> USE <2>1 DEF vars, sweepVars, monitorVars, MonitorInv
    <3>1. TypeOK' /\ ClockInv' /\ Last' = Last
      BY DEF TypeOK, ClockInv, Last
    <3>2. LogInv'
      BY <3>1 DEF LogInv, LogOK, OneRun, Measured, Tagged
    <3>3. DeathIsReal' /\ CompletionIsFresh'
      BY <3>1 DEF DeathIsReal, Running, CompletionIsFresh, StartOf, Ended, Tagged
    <3> QED
      BY <3>1, <3>2, <3>3
  <2>2. CASE Next
    BY <2>2, SweepStepKeeps, MonitorStepKeeps DEF Next
  <2> QED
    BY <2>1, <2>2
<1> QED
  BY <1>1, MonitorInit, PTL DEF Spec

\* T075: no completion is announced over the artifact of an earlier run, as long
\* as the log speaks of a run launched afresh.
THEOREM CompletionsAreFresh == Spec => []CompletionIsFresh
  BY MonitorInvariant, PTL

\* The blocks the operator sees as done were measured by this run, and but for
\* those its resumes could not read they are in the checkpoint.
THEOREM BlocksShownWereMeasured == Spec => []NeverAhead
<1>1. MonitorInv => NeverAhead
  <2> SUFFICES ASSUME MonitorInv, OneRun(seen)
               PROVE  BlocksDone(seen) <= Measured
    BY DEF NeverAhead, Measured
  <2> DEFINE S == {0} \union {seen[i].i : i \in Tagged(seen, "BLOCK_DONE")}
  <2>1. /\ Measured \in Nat /\ S # {}
        /\ \A i \in Tagged(seen, "BLOCK_DONE") :
             seen[i].i \in Nat /\ seen[i].i <= Measured
    <3>1. Measured \in Nat /\ seen \in Seq(Events)
      BY DEF MonitorInv, TypeOK, Measured
    <3>2. ASSUME NEW i \in Tagged(seen, "BLOCK_DONE")
          PROVE  seen[i].i \in Nat /\ seen[i].i <= Measured
      <4>1. seen[i] \in Events /\ seen[i].tag = "BLOCK_DONE"
        BY <3>1 DEF Tagged
      <4>2. seen[i].i \in Nat
        BY <4>1 DEF Events
      <4> QED
        BY <4>2 DEF MonitorInv, LogInv, LogOK
    <3> QED
      BY <3>1, <3>2
  <2>2. S \subseteq Nat /\ \A y \in S : y <= Measured
    BY <2>1
  <2>3. Max(S) \in S
    <3> HIDE DEF S
    <3> QED
      BY <2>1, <2>2, MaxIsLargest
  <2> QED
    BY <2>2, <2>3 DEF BlocksDone
<1> QED
  BY <1>1, MonitorInvariant, PTL
=============================================================================
