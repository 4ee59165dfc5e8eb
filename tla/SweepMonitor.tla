----------------------------- MODULE SweepMonitor -----------------------------
(***************************************************************************)
(* scripts/python/monitor_m6_2_sweep.py beside the sweep it watches.  The  *)
(* two share no channel but files: the sweep's progress log, its process   *)
(* id, and the artifact it writes at the very end.  The sweep may die at   *)
(* any point and be launched again, afresh or from its checkpoint, with a  *)
(* new log or appending to the old one; the monitor reads log, process and *)
(* artifact one after the other and never sees the three together.         *)
(*                                                                         *)
(* A process id is the number of the launch.  The clock stands for seconds *)
(* and only moves where the code takes more than one of them: from one     *)
(* launch to the next, and over the blocks of a sweep.                     *)
(***************************************************************************)
EXTENDS Naturals, Sequences

CONSTANTS
  Launches,    \* bound on the launches of the sweep
  Blocks       \* expected_blocks

ASSUME MonitorAssumption == Launches \in Nat /\ Blocks \in Nat

VARIABLES
  now,
  launches,      \* when each launch happened
  phase,         \* of the last one: "off" when its process has ended
  checkpoint,    \* [started, blocks], blocks being those in memory as well
  lost,          \* history: the blocks of this run that its resumes did not find
  log,           \* the progress events of the log file
  artifact,      \* [by, mtime], by 0: there is none
  pc, pid, json, once,   \* the monitor and its options; pid 0: none given
  seen,          \* the events it has read in this tick
  alive,         \* what it knows of the process: "unknown", "yes" or "no"
  exit           \* why it has ended: "none", "once", "dead" or "completed"

sweepVars == <<now, launches, phase, checkpoint, lost, log, artifact>>
monitorVars == <<pc, pid, json, once, seen, alive, exit>>
vars == <<sweepVars, monitorVars>>

Max(S) == CHOOSE x \in S : \A y \in S : y <= x
None == [started |-> 0, blocks |-> 0]
Last == Len(launches)
Running(p) == p = Last /\ phase # "off"

----------------------------------------------------------------------------
(* The sweep, as far as its log and files go.                              *)

Progress(event) == log' = Append(log, event)

Launch(append) ==
  /\ phase = "off" /\ Last < Launches
  /\ now' = now + 1
  /\ launches' = Append(launches, now')
  /\ phase' = "deploy"
  /\ log' = IF append THEN log ELSE <<>>
  /\ UNCHANGED artifact

\* The checkpoint lies beside the artifact: a fresh run replaces it.
Fresh(append) ==
  /\ Launch(append)
  /\ checkpoint' = [started |-> now', blocks |-> 0] /\ lost' = 0

\* What the loader cannot read it drops: the line a kill has cut short, and the
\* one appended onto it (SweepCheckpoint has the bytes).
Resume(append) ==
  /\ checkpoint # None
  /\ Launch(append)
  /\ \E blocks \in 0 .. checkpoint.blocks :
       /\ checkpoint' = [checkpoint EXCEPT !.blocks = blocks]
       /\ lost' = lost + (checkpoint.blocks - blocks)

Goto(from, to) == phase = from /\ phase' = to

SweepStart ==
  /\ Goto("deploy", "sweep")
  /\ Progress([tag |-> "SWEEP_START", utc |-> checkpoint.started, by |-> Last])
  /\ UNCHANGED <<now, launches, checkpoint, lost, artifact>>

Measure ==
  /\ checkpoint.blocks < Blocks
  /\ Goto("sweep", "measured")
  /\ checkpoint' = [checkpoint EXCEPT !.blocks = @ + 1]
  /\ UNCHANGED <<now, launches, lost, log, artifact>>

BlockDone ==
  /\ Goto("measured", "sweep")
  /\ Progress([tag |-> "BLOCK_DONE", i |-> checkpoint.blocks])
  /\ UNCHANGED <<now, launches, checkpoint, lost, artifact>>

SweepEnd ==
  /\ checkpoint.blocks = Blocks
  /\ Goto("sweep", "ended")
  /\ now' = now + 1
  /\ Progress([tag |-> "SWEEP_END"])
  /\ UNCHANGED <<launches, checkpoint, lost, artifact>>

\* Its events, as those of tuples and anchors, only change what is displayed.
SubProbe ==
  /\ Goto("ended", "report")
  /\ UNCHANGED <<now, launches, checkpoint, lost, log, artifact>>

\* The file is there, and young, as soon as it is opened.
WriteReport ==
  /\ \/ Goto("report", "writing") /\ artifact' = [by |-> Last, mtime |-> now]
     \/ Goto("writing", "done") /\ UNCHANGED artifact
  /\ UNCHANGED <<now, launches, checkpoint, lost, log>>

\* Its end, or its death at any point.
End ==
  /\ phase # "off" /\ phase' = "off"
  /\ UNCHANGED <<now, launches, checkpoint, lost, log, artifact>>

SweepStep ==
  \/ \E append \in BOOLEAN : Fresh(append) \/ Resume(append)
  \/ SweepStart \/ Measure \/ BlockDone \/ SweepEnd
  \/ SubProbe \/ WriteReport \/ End

----------------------------------------------------------------------------
(* What the monitor makes of the events it has read.                       *)

Tagged(events, tag) == {i \in DOMAIN events : events[i].tag = tag}

\* The last SWEEP_START wins.
StartOf(events) == events[Max(Tagged(events, "SWEEP_START"))]

\* The largest counter wins, and one SWEEP_END is enough.
BlocksDone(events) ==
  Max({0} \union {events[i].i : i \in Tagged(events, "BLOCK_DONE")})
Ended(events) == Tagged(events, "SWEEP_END") # {}

\* Mutant: any file will do.
ArtifactExists(events) == json /\ artifact.by > 0

ArtifactPresent(events) ==
  /\ json /\ artifact.by > 0
  /\ Tagged(events, "SWEEP_START") # {}
  /\ artifact.mtime > StartOf(events).utc

----------------------------------------------------------------------------
(* The monitor.                                                            *)

Start ==
  /\ pc = "off" /\ pc' = "tick"
  /\ pid' \in {0, Last}   \* none given, or the sweep's as pgrep finds it
  /\ json' \in BOOLEAN /\ once' \in BOOLEAN
  /\ UNCHANGED <<seen, alive, exit>>

ReadLog ==
  /\ pc = "tick" /\ pc' = "pid"
  /\ seen' = log
  /\ UNCHANGED <<pid, json, once, alive, exit>>

CheckPid ==
  /\ pc = "pid" /\ pc' = "artifact"
  /\ alive' = IF pid = 0 THEN "unknown" ELSE IF Running(pid) THEN "yes" ELSE "no"
  /\ UNCHANGED <<pid, json, once, seen, exit>>

Exit(why) ==
  /\ pc = "artifact" /\ pc' = "exited"
  /\ exit' = why
  /\ UNCHANGED <<pid, json, once, seen, alive>>

Completed == Ended(seen) /\ ArtifactPresent(seen)

Snapshot == once /\ Exit("once")

\* Mutant: everything that is not known to live is dead.
ProcessGoneOrUnknown == ~once /\ alive # "yes" /\ Exit("dead")

\* Mutant: only the artifact ends the watch.
ProcessGoneIgnored == ~once /\ alive = "no" /\ Completed /\ Exit("dead")

ProcessGone == ~once /\ alive = "no" /\ Exit("dead")

SweepCompleted == ~once /\ alive # "no" /\ Completed /\ Exit("completed")

NextTick ==
  /\ pc = "artifact" /\ pc' = "tick"
  /\ ~once /\ alive # "no" /\ ~Completed
  /\ seen' = <<>> /\ alive' = "unknown"
  /\ UNCHANGED <<pid, json, once, exit>>

Tick == ReadLog \/ CheckPid \/ Snapshot \/ ProcessGone \/ SweepCompleted \/ NextTick

----------------------------------------------------------------------------
Init ==
  /\ now = 0 /\ launches = <<>> /\ phase = "off" /\ checkpoint = None /\ lost = 0
  /\ log = <<>> /\ artifact = [by |-> 0, mtime |-> 0]
  /\ pc = "off" /\ pid = 0 /\ json = FALSE /\ once = FALSE
  /\ seen = <<>> /\ alive = "unknown" /\ exit = "none"

Next ==
  \/ SweepStep /\ UNCHANGED monitorVars
  \/ (Start \/ Tick) /\ UNCHANGED sweepVars

\* The monitor's loop goes on; nothing is assumed of the sweep.
Spec == Init /\ [][Next]_vars /\ WF_vars(Tick /\ UNCHANGED sweepVars)

----------------------------------------------------------------------------
Phases == {"off", "deploy", "sweep", "measured", "ended", "report", "writing",
           "done"}

Events ==
  [tag : {"SWEEP_START"}, utc : Nat, by : Nat] \union [tag : {"BLOCK_DONE"}, i : Nat]
    \union [tag : {"SWEEP_END"}]

TypeOK ==
  /\ now \in Nat /\ launches \in Seq(Nat) /\ phase \in Phases
  /\ checkpoint \in [started : Nat, blocks : Nat] /\ lost \in Nat
  /\ log \in Seq(Events) /\ seen \in Seq(Events)
  /\ artifact \in [by : 0 .. Last, mtime : Nat]
  /\ pc \in {"off", "tick", "pid", "artifact", "exited"}
  /\ pid \in 0 .. Last /\ json \in BOOLEAN /\ once \in BOOLEAN
  /\ alive \in {"unknown", "yes", "no"}
  /\ exit \in {"none", "once", "dead", "completed"}

\* Launches are in order, and an artifact is younger than the launch of the
\* process that wrote it and older than every later one.
ClockInv ==
  /\ phase # "off" => Last > 0
  /\ checkpoint.started <= now
  /\ \A j \in 1 .. Last : launches[j] <= now
  /\ \A j \in 1 .. Last : \A k \in 1 .. Last : j < k => launches[j] < launches[k]
  /\ artifact.by > 0 =>
       /\ artifact.mtime <= now
       /\ \A k \in artifact.by + 1 .. Last : artifact.mtime < launches[k]

\* The events are those of one run, the one the checkpoint is of.
OneRun(events) ==
  /\ Tagged(events, "SWEEP_START") # {}
  /\ \A i \in Tagged(events, "SWEEP_START") : events[i].utc = checkpoint.started

\* The most blocks the run the checkpoint is of has ever had.
Measured == checkpoint.blocks + lost

\* A log says first that the sweep has started, and only blocks this run has
\* measured are announced in it.
LogOK(events) ==
  /\ Tagged(events, "BLOCK_DONE") # {} => Tagged(events, "SWEEP_START") # {}
  /\ \A i \in Tagged(events, "SWEEP_START") :
       events[i].by \in 1 .. Last /\ events[i].utc <= now
  /\ OneRun(events) => \A i \in Tagged(events, "BLOCK_DONE") :
                         events[i].i <= Measured

LogInv ==
  /\ LogOK(log) /\ LogOK(seen)
  /\ phase \notin {"off", "deploy"} => Tagged(log, "SWEEP_START") # {}

\* The monitor reports a death only of a process it was told to watch, and one
\* that really has ended: process ids are not handed out twice.
DeathIsReal ==
  /\ alive = "no" => pid > 0 /\ ~Running(pid)
  /\ exit = "dead" => alive = "no"
  /\ pc \in {"off", "tick", "pid"} => alive = "unknown"
  /\ exit # "none" => pc = "exited"

MonitorInv == TypeOK /\ ClockInv /\ LogInv /\ DeathIsReal

\* T075: when the log the monitor read belongs to a run launched afresh, it
\* announces completion only over an artifact of that run or a later one, never
\* over one an earlier run has left.
CompletionIsFresh ==
  exit = "completed" =>
    LET start == StartOf(seen)
    IN  /\ Ended(seen) /\ Tagged(seen, "SWEEP_START") # {}
        /\ start.utc >= launches[start.by] => artifact.by >= start.by

\* While the log holds a single run, the blocks shown as done are ahead of those
\* on record by no more than what the resumes of this run could not read; none
\* is shown that was not measured.
NeverAhead == OneRun(seen) => BlocksDone(seen) <= checkpoint.blocks + lost

\* A monitor in interval mode ends once the process it watches has, whatever
\* became of that process; one that watches the artifact ends once the process
\* the log speaks of has written it, as long as no other launch replaces the log.
MonitorReturns ==
  /\ (pc # "off" /\ pid > 0 /\ ~Running(pid)) ~> (pc = "exited")
  /\ LET Written ==
           /\ pc # "off" /\ json /\ Ended(log)
           /\ Tagged(log, "SWEEP_START") # {}
           /\ artifact.by = Last /\ StartOf(log).by = Last
     IN  Written ~> (pc = "exited" \/ ~Written)
=============================================================================
