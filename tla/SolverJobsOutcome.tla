------------------------- MODULE SolverJobsOutcome --------------------------
(***************************************************************************)
(* What the files of a job say in the end, for every set of jobs, every    *)
(* set of calls and every bound: the terminal event is the last one, the   *)
(* terminal file, the archive and the snapshot agree with it, and the      *)
(* supervisor implements JobOutcome.                                       *)
(*                                                                         *)
(* None of this is inductive.  The code nowhere asks whether a history is  *)
(* closed before it appends to it: that only an open one is appended to    *)
(* follows from where the runner and the reader stand (ClosedIsOver,       *)
(* ReaderRuns), and that terminal event and archive agree from what the    *)
(* runner knows when it enters the last stretch (ArchiveFits).             *)
(***************************************************************************)
EXTENDS SolverJobsCancel

\* A job without its first event has nothing else.
Uncreated(j) ==
  disk[j].dir # "made" =>
    /\ pc[j] \in {"none", "recover"}
    /\ disk[j].log = <<>> /\ disk[j].terminal = "none" /\ ~disk[j].archive
    /\ mem[j].status = "unknown"

Created(j) == disk[j].dir = "made" => disk[j].log # <<>>

\* The reader reads only while its worker is supervised; a runner that stops the
\* worker to fail the job has seen it end.
ReaderRuns(j) ==
  reader[j].state = "reading" =>
    /\ pc[j] \in {"run", "stopping", "settling"}
    /\ pc[j] = "stopping" => goal[j] # "failed"

\* Behind the terminal event nobody is left who appends.
ClosedIsOver(j) ==
  IsClosed(disk[j].log) =>
    \/ pc[j] \in {"none", "recover"}
    \/ /\ pc[j] \in {"fin_meta", "cleanup", "reap", "done", "broken"}
       /\ mem[j].status \in Terminal

EndRecorded(j) ==
  /\ pc[j] = "fin_meta" => IsClosed(disk[j].log) /\ Outcome(disk[j].log) = goal[j]
  /\ pc[j] \in {"cleanup", "reap", "done", "broken"} => mem[j].status \in Terminal

StatusRecorded(j) ==
  mem[j].status \in Terminal =>
    \/ IsClosed(disk[j].log) /\ Outcome(disk[j].log) = mem[j].status
    \/ faults > 0

ArchiveFits(j) ==
  /\ IsClosed(disk[j].log) => (disk[j].archive <=> Outcome(disk[j].log) = "completed")
  /\ pc[j] = "renamed" => disk[j].archive
  /\ pc[j] = "fin_event" /\ goal[j] = "completed" => disk[j].archive

\* What no runner supervises is closed, or being created, or was hit by a fault;
\* and it keeps no archive if it is open.
Unsupervised(j) ==
  svc \in {"up", "recovering"} /\ pc[j] = "none" /\ ~IsClosed(disk[j].log) =>
    /\ ~disk[j].archive
    /\ disk[j].dir # "none" => j \in InCall(booking) \/ faults > 0

TerminalFile(j) ==
  disk[j].terminal # "none" =>
    IsClosed(disk[j].log) /\ disk[j].terminal = Outcome(disk[j].log)

OneTerminal(j) == disk[j].log # <<>> => TerminalIsLast(disk[j].log)

\* A job of the call in progress is not over yet.
BeingCreated(j) ==
  j \in InCall(booking) => ~IsClosed(disk[j].log) /\ mem[j].status \notin Terminal

EndInv(j) ==
  /\ Uncreated(j) /\ Created(j) /\ ReaderRuns(j) /\ ClosedIsOver(j) /\ EndRecorded(j)
  /\ StatusRecorded(j) /\ ArchiveFits(j) /\ Unsupervised(j) /\ TerminalFile(j)
  /\ OneTerminal(j) /\ BeingCreated(j)

OutcomeInv == CancelInv /\ \A j \in Jobs : EndInv(j)

-----------------------------------------------------------------------------
\* A history that grows by one event.
LEMMA LogGrows ==
  ASSUME NEW h \in Seq(JobEvent), NEW e \in JobEvent
  PROVE  /\ Append(h, e) # <<>> /\ Append(h, e) \in Seq(JobEvent)
         /\ IsClosed(Append(h, e)) <=> e.kind = "terminal"
         /\ Outcome(Append(h, e)) = e.status
         /\ ~IsClosed(h) /\ (h # <<>> => TerminalIsLast(h)) => TerminalIsLast(Append(h, e))
<1>1. /\ Append(h, e) \in Seq(JobEvent) /\ Len(Append(h, e)) = Len(h) + 1
      /\ Append(h, e)[Len(h) + 1] = e
      /\ \A i \in 1..Len(h) : Append(h, e)[i] = h[i]
  OBVIOUS
<1>2. Append(h, e) # <<>>
  BY <1>1, Len(<<>>) = 0
<1>3. ASSUME ~IsClosed(h), h # <<>> => TerminalIsLast(h) PROVE TerminalIsLast(Append(h, e))
  <2>1. \A i \in 1..Len(h) : h[i].kind # "terminal"
    BY <1>3 DEF IsClosed, TerminalIsLast
  <2> QED
    BY <1>1, <2>1 DEF TerminalIsLast
<1> QED
  BY <1>1, <1>2, <1>3 DEF IsClosed, Outcome

\* The outcome of a closed history is terminal, the status of an open one is not.
LEMMA LastEvent ==
  ASSUME NEW h \in Seq(JobEvent), h # <<>>
  PROVE  h[Len(h)].status \in Terminal <=> IsClosed(h)
<1>1. h[Len(h)] \in JobEvent
  OBVIOUS
<1> QED
  BY <1>1 DEF IsClosed, JobEvent

\* Nothing of job k moves.
Still(k) ==
  /\ pc'[k] = pc[k] /\ goal'[k] = goal[k] /\ mem'[k].status = mem[k].status
  /\ reader'[k].state = "reading" => reader[k].state = "reading"
  /\ disk'[k].dir = disk[k].dir /\ disk'[k].log = disk[k].log
  /\ disk'[k].terminal = disk[k].terminal /\ disk'[k].archive = disk[k].archive

\* The counter of faults only grows.
NoFaultLost == faults > 0 => faults' > 0

LEMMA StillKeeps ==
  ASSUME OutcomeInv, NEW k \in Jobs, Still(k), NoFaultLost, UNCHANGED <<svc, booking>>
  PROVE  EndInv(k)'
BY DEF OutcomeInv, EndInv, Still, NoFaultLost, Uncreated, Created, ReaderRuns, ClosedIsOver,
   EndRecorded, StatusRecorded, ArchiveFits, Unsupervised, TerminalFile, OneTerminal, BeingCreated

\* A step of job j leaves the other jobs and the service alone.
StepOf(j) ==
  /\ \A k \in Jobs \ {j} : Still(k)
  /\ NoFaultLost /\ UNCHANGED <<svc, booking>>

\* The runner goes on, and no event is written.
Moves(j) ==
  /\ pc[j] \in {"init", "spawn", "stop_spawn", "run", "stopping", "settling", "discard",
                 "archiving", "renamed"}
  /\ pc'[j] \in {"spawn", "stop_spawn", "stopping", "settling", "discard", "archiving",
                  "renamed", "fin_event"}
  /\ mem'[j].status \in {mem[j].status, "running"}
  /\ disk'[j].dir = disk[j].dir /\ disk'[j].log = disk[j].log
  /\ disk'[j].terminal = disk[j].terminal
  /\ pc'[j] = "renamed" \/ (pc'[j] = "fin_event" /\ goal'[j] = "completed") =>
       disk'[j].archive
  /\ reader'[j].state = "reading" =>
       /\ pc'[j] \in {"stopping", "settling"}
       /\ pc'[j] = "stopping" => goal'[j] # "failed"

\* An event that is not terminal is appended to an open history.
Logs(j) ==
  /\ disk[j].dir = "made" /\ ~IsClosed(disk[j].log)
  /\ \E e \in JobEvent :
       /\ e.kind # "terminal"
       /\ disk'[j].log = Append(disk[j].log, e)
       /\ mem'[j].status = e.status
  /\ disk'[j].dir = disk[j].dir /\ disk'[j].terminal = disk[j].terminal
  /\ disk'[j].archive = disk[j].archive
  /\ goal'[j] = goal[j]
  /\ reader'[j].state = "reading" => reader[j].state = "reading" \/ pc'[j] = "run"
  /\ \/ pc[j] = "spawn" /\ pc'[j] = "run"
     \/ /\ pc'[j] = pc[j]
        /\ pc[j] \in {"init", "spawn", "stop_spawn", "run", "stopping", "settling", "archiving"}

LEMMA MovesKeeps ==
  ASSUME OutcomeInv, NEW j \in Jobs, Moves(j), StepOf(j) PROVE EndInv(j)'
<1>1. ~IsClosed(disk[j].log) /\ disk[j].dir = "made"
  BY DEF OutcomeInv, EndInv, Moves, ClosedIsOver, Uncreated, CancelInv, TypeInv, TypeOK, DiskOK
<1>2. mem[j].status \in Terminal => faults > 0
  BY <1>1 DEF OutcomeInv, EndInv, StatusRecorded
<1>3. "running" \notin Terminal
  BY DEF Terminal
<1> QED
  BY <1>1, <1>2, <1>3 DEF OutcomeInv, EndInv, Moves, Uncreated, Created, ReaderRuns, ClosedIsOver,
     EndRecorded, StatusRecorded, ArchiveFits, Unsupervised, TerminalFile, OneTerminal,
     BeingCreated,
     StepOf, NoFaultLost

LEMMA LogsKeeps ==
  ASSUME OutcomeInv, NEW j \in Jobs, Logs(j), StepOf(j) PROVE EndInv(j)'
<1>1. disk[j].log \in Seq(JobEvent)
  BY FieldTypes DEF OutcomeInv, CancelInv, TypeInv
<1>2. PICK e \in JobEvent : /\ e.kind # "terminal"
                            /\ disk'[j].log = Append(disk[j].log, e)
                            /\ mem'[j].status = e.status
  BY DEF Logs
<1>3. e.status \notin Terminal
  BY <1>2 DEF JobEvent
<1>4. /\ disk'[j].log # <<>> /\ ~IsClosed(disk'[j].log)
      /\ TerminalIsLast(disk'[j].log)
  BY <1>1, <1>2, LogGrows DEF Logs, OutcomeInv, EndInv, OneTerminal
<1>5. disk[j].terminal = "none"
  BY DEF OutcomeInv, EndInv, Logs, TerminalFile
<1> QED
  BY <1>2, <1>3, <1>4, <1>5 DEF OutcomeInv, EndInv, Logs, StepOf, Uncreated, Created, ReaderRuns,
     ClosedIsOver, EndRecorded, StatusRecorded, ArchiveFits, Unsupervised, TerminalFile,
     OneTerminal, BeingCreated
\* The runner before the end, with the reader and the archive thread it watches.
LEMMA RunnerMoves ==
  ASSUME OutcomeInv, NEW j \in Jobs,
         \/ Begin(j) \/ SpawnInterrupted(j) \/ StopSpawned(j) \/ SpawnFailed(j)
         \/ RunCancelled(j) \/ RunTimedOut(j) \/ RunProtocolError(j) \/ RunDrained(j)
         \/ StopDone(j) \/ SettleDone(j) \/ ArchiveGivenUp(j) \/ Discard(j)
         \/ ArchiveFailed(j) \/ ArchiveRename(j) \/ Commit(j) \/ SpawnedFails(j)
  PROVE  StepOf(j) /\ Moves(j)
<1>1. TypeOK /\ ReaderRuns(j) /\ ArchiveFits(j) /\ CompletionCommitted(j)
  BY DEF OutcomeInv, CancelInv, TypeInv, EndInv, JobInv
<1> USE <1>1 DEF TypeOK, MemOK, ReaderOK, DiskOK, Turn, Goto, Finish, StopThen, EarlyStatus,
                 Fault, taskVars, osVars, damage
<1>2. StepOf(j)
  <2> USE DEF StepOf, Still, NoFaultLost
  <2>1. CASE Begin(j) \/ SpawnInterrupted(j) \/ StopSpawned(j) \/ SpawnFailed(j)
    BY <2>1 DEF Begin, SpawnInterrupted, StopSpawned, SpawnFailed
  <2>2. CASE RunCancelled(j) \/ RunTimedOut(j) \/ RunProtocolError(j) \/ RunDrained(j)
    BY <2>2 DEF RunCancelled, RunTimedOut, RunProtocolError, RunDrained
  <2>3. CASE StopDone(j) \/ SettleDone(j) \/ ArchiveGivenUp(j)
    BY <2>3 DEF StopDone, SettleDone, ArchiveGivenUp
  <2>4. CASE Discard(j) \/ ArchiveFailed(j)
    BY <2>4 DEF Discard, ArchiveFailed
  <2>5. CASE ArchiveRename(j) \/ Commit(j)
    BY <2>5 DEF ArchiveRename, Commit
  <2>6. CASE SpawnedFails(j)
    <3>1. /\ \E to \in {"stopping", "fin_event"} : pc' = [pc EXCEPT ![j] = to]
          /\ goal' = [goal EXCEPT ![j] = "failed"]
          /\ mem' = mem \/ mem' = [mem EXCEPT ![j].status = "running"]
          /\ faults' = faults + 1
          /\ UNCHANGED <<svc, booking, reader, disk>>
      BY <2>6 DEF SpawnedFails, Fails
    <3>2. faults' > 0
      BY <3>1, BoundsAssumption
    <3> QED
      BY <3>1, <3>2
  <2> QED
    BY <2>1, <2>2, <2>3, <2>4, <2>5, <2>6
<1>3. Moves(j)
  <2> USE DEF Moves, ReaderRuns, ArchiveFits, CompletionCommitted
  <2>1. CASE Begin(j) BY <2>1 DEF Begin
  <2>2. CASE SpawnInterrupted(j) BY <2>2 DEF SpawnInterrupted
  <2>3. CASE StopSpawned(j) \/ SpawnFailed(j) BY <2>3 DEF StopSpawned, SpawnFailed
  <2>4. CASE RunCancelled(j) \/ RunTimedOut(j) BY <2>4 DEF RunCancelled, RunTimedOut
  <2>5. CASE RunProtocolError(j) BY <2>5 DEF RunProtocolError
  <2>6. CASE RunDrained(j) BY <2>6 DEF RunDrained
  <2>7. CASE StopDone(j) BY <2>7 DEF StopDone
  <2>8. CASE SettleDone(j) BY <2>8 DEF SettleDone
  <2>9. CASE ArchiveGivenUp(j) BY <2>9 DEF ArchiveGivenUp
  <2>10. CASE Discard(j) BY <2>10 DEF Discard
  <2>11. CASE ArchiveFailed(j) BY <2>11 DEF ArchiveFailed
  <2>12. CASE ArchiveRename(j) BY <2>12 DEF ArchiveRename
  <2>13. CASE Commit(j) BY <2>13 DEF Commit
  <2>14. CASE SpawnedFails(j)
    <3>1. /\ pc[j] = "spawn"
          /\ pc' = [pc EXCEPT ![j] = "stopping"] \/ pc' = [pc EXCEPT ![j] = "fin_event"]
          /\ goal' = [goal EXCEPT ![j] = "failed"]
          /\ mem' = mem \/ mem' = [mem EXCEPT ![j].status = "running"]
          /\ UNCHANGED <<reader, disk>>
      BY <2>14 DEF SpawnedFails
    <3> QED
      BY <3>1
  <2> QED
    BY <2>1, <2>2, <2>3, <2>4, <2>5, <2>6, <2>7, <2>8, <2>9, <2>10, <2>11, <2>12, <2>13, <2>14
<1> QED
  BY <1>2, <1>3
\* The worker is seen to run: the running event, or the end of a late job.
LEMMA SpawnedStep ==
  ASSUME OutcomeInv, NEW j \in Jobs, Spawned(j)
  PROVE  StepOf(j) /\ (Moves(j) \/ Logs(j))
<1>1. /\ TypeOK /\ ReaderRuns(j) /\ pc[j] = "spawn"
      /\ ~IsClosed(disk[j].log) /\ disk[j].dir = "made"
  BY DEF OutcomeInv, CancelInv, TypeInv, TypeOK, DiskOK, EndInv, ClosedIsOver, Uncreated,
     Spawned, Turn
<1>2. CASE late[j]
  <2>1. /\ pc' = [pc EXCEPT ![j] = "stopping"] \/ pc' = [pc EXCEPT ![j] = "fin_event"]
        /\ goal' = [goal EXCEPT ![j] = "timed_out"]
        /\ UNCHANGED <<svc, booking, faults, mem, reader, disk>>
    BY <1>2 DEF Spawned, StopThen, Finish, Goto, damage
  <2> QED
    BY <1>1, <2>1 DEF TypeOK, StepOf, Still, NoFaultLost, Moves, ReaderRuns
<1>3. CASE ~late[j]
  <2> DEFINE e == StatusEvent("running", 0)
  <2>1. e \in JobEvent /\ e.kind # "terminal"
    BY EventTypes DEF StatusEvent
  <2>2. /\ pc' = [pc EXCEPT ![j] = "run"]
        /\ mem' = [mem EXCEPT ![j].status = e.status]
        /\ disk' = [disk EXCEPT ![j].log = Append(@, e)]
        /\ reader' = [reader EXCEPT ![j].state = "reading"]
        /\ UNCHANGED <<svc, booking, faults, goal>>
    BY <1>3 DEF Spawned, AppendEvent, Goto, damage
  <2> HIDE DEF e
  <2>3. StepOf(j)
    BY <1>1, <2>2 DEF TypeOK, MemOK, ReaderOK, DiskOK, StepOf, Still, NoFaultLost
  <2>4. Logs(j)
    BY <1>1, <2>1, <2>2 DEF TypeOK, MemOK, ReaderOK, DiskOK, Logs
  <2> QED
    BY <2>3, <2>4
<1> QED
  BY <1>2, <1>3

\* The terminal event closes the history, and agrees with the archive.
LEMMA FinishEventKeeps ==
  ASSUME OutcomeInv, NEW j \in Jobs, FinishEvent(j)
  PROVE  StepOf(j) /\ EndInv(j)'
<1> DEFINE e == TerminalEvent(goal[j], mem[j].count,
                              IF goal[j] = "completed" THEN reader[j].batch ELSE 0)
<1>1. TypeOK /\ pc[j] = "fin_event" /\ goal[j] \in Terminal
  BY DEF OutcomeInv, CancelInv, TypeInv, TypeOK, GoalChosen, FinishEvent
<1>2. e \in JobEvent /\ e.kind = "terminal" /\ e.status = goal[j]
  BY <1>1, FieldTypes, EventTypes DEF TerminalEvent
<1>3. /\ pc' = [pc EXCEPT ![j] = "fin_meta"]
      /\ mem' = [mem EXCEPT ![j].status = e.status]
      /\ disk' = [disk EXCEPT ![j].log = Append(@, e)]
      /\ reader' = reader \/ reader' = [reader EXCEPT ![j] = NoReader]
      /\ UNCHANGED <<svc, booking, faults, goal>>
  BY DEF FinishEvent, AppendEvent, LocalsDropped, Goto, damage
<1> HIDE DEF e
<1>4. StepOf(j)
  BY <1>1, <1>3, ReaderFrame DEF TypeOK, MemOK, DiskOK, StepOf, Still, NoFaultLost
<1>5. /\ pc'[j] = "fin_meta" /\ goal'[j] = goal[j] /\ mem'[j].status = goal[j]
      /\ disk'[j].dir = disk[j].dir /\ disk'[j].log = Append(disk[j].log, e)
      /\ disk'[j].terminal = disk[j].terminal /\ disk'[j].archive = disk[j].archive
  BY <1>1, <1>2, <1>3 DEF TypeOK, MemOK, DiskOK
<1>6. ~IsClosed(disk[j].log) /\ disk[j].dir = "made"
  BY <1>1 DEF OutcomeInv, EndInv, ClosedIsOver, Uncreated, TypeOK, DiskOK
<1>7. disk[j].log \in Seq(JobEvent)
  BY <1>1, FieldTypes
<1>8. /\ disk'[j].log # <<>> /\ IsClosed(disk'[j].log) /\ Outcome(disk'[j].log) = goal[j]
      /\ TerminalIsLast(disk'[j].log)
  BY <1>2, <1>5, <1>6, <1>7, LogGrows DEF OutcomeInv, EndInv, OneTerminal
<1>9. reader'[j].state # "reading"
  BY <1>1, <1>3, ReaderFrame DEF OutcomeInv, EndInv, ReaderRuns, TypeOK
<1>10. disk[j].archive <=> goal[j] = "completed"
  BY <1>1 DEF OutcomeInv, CancelInv, JobInv, EndInv, ArchiveFits, ArchiveCommitted, CompletedIsOver
<1>11. disk[j].terminal = "none"
  BY <1>6 DEF OutcomeInv, EndInv, TerminalFile
<1>12. j \notin InCall(booking)
  BY <1>1 DEF OutcomeInv, CancelInv, JobInv, NewIsIdle, Idle
<1> QED
  BY <1>1, <1>3, <1>4, <1>5, <1>6, <1>8, <1>9, <1>10, <1>11, <1>12 DEF EndInv, Uncreated,
     Created, ReaderRuns,
     ClosedIsOver, EndRecorded, StatusRecorded, ArchiveFits, Unsupervised, TerminalFile,
     OneTerminal, BeingCreated

\* terminal.json repeats the outcome just recorded.
LEMMA FinishMetaKeeps ==
  ASSUME OutcomeInv, NEW j \in Jobs, FinishMeta(j)
  PROVE  StepOf(j) /\ EndInv(j)'
<1>1. /\ TypeOK /\ pc[j] = "fin_meta" /\ goal[j] \in Terminal
      /\ IsClosed(disk[j].log) /\ Outcome(disk[j].log) = goal[j]
      /\ mem[j].status \in Terminal
  BY DEF OutcomeInv, CancelInv, TypeInv, TypeOK, GoalChosen, FinishMeta, EndInv, EndRecorded,
     ClosedIsOver
<1>2. /\ pc' = [pc EXCEPT ![j] = "cleanup"] \/ pc' = [pc EXCEPT ![j] = "none"]
      /\ disk' = [disk EXCEPT ![j].terminal = goal[j]]
      /\ UNCHANGED <<svc, booking, faults, goal, mem, reader>>
  BY DEF FinishMeta, Goto, taskVars, damage
<1>3. StepOf(j)
  BY <1>1, <1>2 DEF TypeOK, DiskOK, StepOf, Still, NoFaultLost
<1>4. /\ pc'[j] \in {"cleanup", "none"} /\ mem'[j] = mem[j] /\ reader'[j] = reader[j]
      /\ disk'[j].dir = disk[j].dir /\ disk'[j].log = disk[j].log
      /\ disk'[j].terminal = goal[j] /\ disk'[j].archive = disk[j].archive
  BY <1>1, <1>2 DEF TypeOK, DiskOK
<1> QED
  BY <1>1, <1>2, <1>3, <1>4 DEF OutcomeInv, EndInv, Uncreated, Created, ReaderRuns, ClosedIsOver,
     EndRecorded, StatusRecorded, ArchiveFits, Unsupervised, TerminalFile, OneTerminal, BeingCreated
\* The steps behind the terminal status, recorded on disk or not.
LEMMA TailKeeps ==
  ASSUME OutcomeInv, NEW j \in Jobs, FinishFails(j) \/ Cleanup(j) \/ Reap(j)
  PROVE  StepOf(j) /\ EndInv(j)'
<1>1. TypeOK /\ EndInv(j)
  BY DEF OutcomeInv, CancelInv, TypeInv
<1>2. disk[j].dir = "made"
  BY <1>1 DEF TypeOK, DiskOK, EndInv, Uncreated, FinishFails, Cleanup, Reap, Turn
<1>3. CASE FinishFails(j)
  <2>1. /\ pc[j] \in {"fin_event", "fin_meta"} /\ goal[j] \in Terminal
        /\ j \notin InCall(booking)
    BY <1>1, <1>3 DEF OutcomeInv, CancelInv, TypeInv, TypeOK, GoalChosen, FinishFails, JobInv,
       NewIsIdle, Idle
  <2>2. /\ pc' = [pc EXCEPT ![j] = "cleanup"]
        /\ mem' = [mem EXCEPT ![j].status = goal[j]]
        /\ reader' = reader \/ reader' = [reader EXCEPT ![j] = NoReader]
        /\ faults' = faults + 1
        /\ UNCHANGED <<svc, booking, goal, disk>>
    BY <1>3 DEF FinishFails, LocalsDropped, Goto, Fails, Fault
  <2>3. faults' > 0
    BY <1>1, <2>2, BoundsAssumption DEF TypeOK
  <2>4. StepOf(j)
    BY <1>1, <2>2, <2>3, ReaderFrame DEF TypeOK, MemOK, StepOf, Still, NoFaultLost
  <2>5. pc'[j] = "cleanup" /\ mem'[j].status = goal[j] /\ reader'[j].state # "reading"
    BY <1>1, <2>1, <2>2, ReaderFrame DEF TypeOK, MemOK, EndInv, ReaderRuns
  <2> QED
    BY <1>1, <1>2, <2>1, <2>2, <2>3, <2>4, <2>5 DEF EndInv, Uncreated, Created, ReaderRuns,
       ClosedIsOver, EndRecorded, StatusRecorded, ArchiveFits, Unsupervised, TerminalFile,
       OneTerminal, BeingCreated
<1>4. CASE Cleanup(j) \/ Reap(j)
  <2>1. /\ pc[j] \in {"cleanup", "reap"}
        /\ \E to \in {"reap", "broken", "done"} : pc' = [pc EXCEPT ![j] = to]
        /\ goal' = goal \/ goal' = [goal EXCEPT ![j] = "none"]
        /\ reader' = reader \/ reader' = [reader EXCEPT ![j] = NoReader]
        /\ disk' = disk \/ disk' = [disk EXCEPT ![j].staging = FALSE]
        /\ UNCHANGED <<svc, booking, faults, mem>>
    BY <1>4 DEF Cleanup, Reap, Turn, Goto, damage
  <2>2. StepOf(j)
    BY <1>1, <2>1, ReaderFrame DEF TypeOK, DiskOK, StepOf, Still, NoFaultLost
  <2>3. /\ pc'[j] \in {"reap", "broken", "done"} /\ reader'[j].state # "reading"
        /\ disk'[j].dir = disk[j].dir /\ disk'[j].log = disk[j].log
        /\ disk'[j].terminal = disk[j].terminal /\ disk'[j].archive = disk[j].archive
    BY <1>1, <2>1, ReaderFrame DEF TypeOK, DiskOK, EndInv, ReaderRuns
  <2> QED
    BY <1>1, <1>2, <2>1, <2>2, <2>3 DEF EndInv, Uncreated, Created, ReaderRuns, ClosedIsOver,
       EndRecorded, StatusRecorded, ArchiveFits, Unsupervised, TerminalFile, OneTerminal,
       BeingCreated
<1> QED
  BY <1>3, <1>4

\* The reader appends phase and candidate events, or nothing.
LEMMA ReaderStep ==
  ASSUME OutcomeInv, NEW j \in Jobs, Reader(j)
  PROVE  StepOf(j) /\ (Still(j) \/ Logs(j))
<1>1. /\ TypeOK /\ reader[j].state = "reading" /\ pc[j] \in {"run", "stopping", "settling"}
      /\ ~IsClosed(disk[j].log) /\ disk[j].dir = "made"
  <2>1. TypeOK /\ EndInv(j) /\ reader[j].state = "reading"
    BY DEF OutcomeInv, CancelInv, TypeInv, Reader, ReadPhase, ReadCandidate, ReadComplete,
       ReadFailure, ReadInvalid, ReadEOF, Takes, Reads
  <2> QED
    BY <2>1 DEF TypeOK, DiskOK, EndInv, ReaderRuns, ClosedIsOver, Uncreated
<1> DEFINE Quietly == mem'[j].status = mem[j].status /\ disk' = disk
           Noting(e) == /\ mem'[j].status = e.status
                        /\ disk' = [disk EXCEPT ![j].log = Append(@, e)]
<1>2. /\ UNCHANGED <<svc, booking, faults, pc, goal>>
      /\ \A k \in Jobs \ {j} : mem'[k].status = mem[k].status /\ reader'[k] = reader[k]
      /\ Quietly \/ \E e \in {PhaseEvent} \cup {CandidateEvent(n) : n \in Nat} : Noting(e)
  <2> USE DEF readerFrame, taskVars, damage, TypeOK, MemOK, ReaderOK
  <2>1. ASSUME Flush(j)
        PROVE  /\ \A k \in Jobs \ {j} : mem'[k].status = mem[k].status
               /\ Quietly \/ \E e \in {CandidateEvent(n) : n \in Nat} : Noting(e)
    <3>1. CASE reader[j].pending
      <4>1. Noting(CandidateEvent(mem[j].count)) /\ mem[j].count \in Nat
        BY <1>1, <2>1, <3>1 DEF Flush, AppendEvent
      <4> QED
        BY <1>1, <2>1, <3>1, <4>1 DEF Flush, AppendEvent
    <3>2. CASE ~reader[j].pending
      BY <2>1, <3>2 DEF Flush
    <3> QED
      BY <3>1, <3>2
  <2>2. CASE ReadPhase(j)
    <3>1. Noting(PhaseEvent)
      BY <1>1, <2>2 DEF ReadPhase, AppendEvent
    <3> QED
      BY <1>1, <2>2, <3>1 DEF ReadPhase, AppendEvent
  <2>3. CASE ReadCandidate(j)
    <3>1. mem[j].count + 1 \in Nat
      BY <1>1
    <3>2. CandidateEvent(mem[j].count + 1).status = "running"
      BY DEF CandidateEvent
    <3>3. \/ /\ Noting(CandidateEvent(mem[j].count + 1))
             /\ \A k \in Jobs \ {j} : mem'[k].status = mem[k].status
          \/ Quietly /\ \A k \in Jobs \ {j} : mem'[k].status = mem[k].status
      BY <1>1, <2>3, <3>2 DEF ReadCandidate
    <3>4. /\ UNCHANGED <<svc, booking, faults, pc, goal>>
          /\ \A k \in Jobs \ {j} : reader'[k] = reader[k]
      BY <1>1, <2>3 DEF ReadCandidate
    <3> QED
      BY <3>1, <3>3, <3>4
  <2>4. ASSUME NEW n \in 0..MaxCandidates, ReadComplete(j, n) PROVE <1>2!:
    BY <1>1, <2>1, <2>4 DEF ReadComplete
  <2>5. CASE ReadFailure(j) \/ ReadInvalid(j)
    BY <1>1, <2>5 DEF ReadFailure, ReadInvalid
  <2>6. CASE ReadEOF(j)
    BY <1>1, <2>1, <2>6 DEF ReadEOF
  <2> QED
    BY <2>2, <2>3, <2>4, <2>5, <2>6 DEF Reader
<1>3. CASE Quietly
  BY <1>1, <1>2, <1>3 DEF StepOf, Still, NoFaultLost
<1>4. ASSUME NEW e \in {PhaseEvent} \cup {CandidateEvent(n) : n \in Nat}, Noting(e)
      PROVE  StepOf(j) /\ Logs(j)
  <2>1. e \in JobEvent /\ e.kind # "terminal"
    <3>1. \A n \in Nat : CandidateEvent(n) \in JobEvent /\ CandidateEvent(n).kind = "candidate"
      BY EventTypes DEF CandidateEvent
    <3>2. PhaseEvent \in JobEvent /\ PhaseEvent.kind = "phase"
      BY EventTypes DEF PhaseEvent
    <3> QED
      BY <1>4, <3>1, <3>2
  <2> HIDE DEF Quietly
  <2>2. StepOf(j)
    BY <1>1, <1>2, <1>4 DEF TypeOK, DiskOK, StepOf, Still, NoFaultLost
  <2>3. Logs(j)
    BY <1>1, <1>2, <1>4, <2>1 DEF TypeOK, DiskOK, Logs
  <2> QED
    BY <2>2, <2>3
<1> QED
  BY <1>2, <1>3, <1>4

\* The operating system and the archive thread touch none of this.
LEMMA EnvironmentStill ==
  ASSUME OutcomeInv, NEW j \in Jobs, Environment(j) \/ Thread(j)
  PROVE  \A k \in Jobs : Still(k) /\ NoFaultLost /\ UNCHANGED <<svc, booking>>
<1>1. TypeOK
  BY DEF OutcomeInv, CancelInv, TypeInv
<1> USE <1>1 DEF TypeOK, DiskOK, Still, NoFaultLost, threadFrame, taskVars, osVars, damage
<1>2. CASE Environment(j)
  BY <1>2 DEF Environment, Expire, SpawnEnds, SpawnDropped, WorkerExits, KinExits
<1>3. CASE ThreadStages(j)
  BY <1>3 DEF ThreadStages
<1>4. CASE ThreadDiscards(j)
  BY <1>4 DEF ThreadDiscards
<1>5. CASE ThreadFails(j) \/ ThreadChecks(j)
  BY <1>5 DEF ThreadFails, ThreadChecks
<1> QED
  BY <1>2, <1>3, <1>4, <1>5 DEF Thread

\* The reader's event that cannot be written changes none of this.
LEMMA ReadFailsStill ==
  ASSUME OutcomeInv, NEW j \in Jobs, ReadFails(j)
  PROVE  /\ disk[j].dir = "made" /\ faults' > 0 /\ UNCHANGED disk
         /\ \A k \in Jobs : Still(k) /\ NoFaultLost /\ UNCHANGED <<svc, booking>>
<1>1. TypeOK /\ EndInv(j) /\ reader[j].state = "reading"
  BY DEF OutcomeInv, CancelInv, TypeInv, ReadFails, Reports, Reads
<1>2. /\ faults' = faults + 1
      /\ reader' = [reader EXCEPT ![j].state = "error"]
      /\ mem' = mem \/ mem' = [mem EXCEPT ![j].count = @ + 1]
      /\ UNCHANGED <<svc, booking, pc, goal, disk>>
  BY DEF ReadFails, Fails, Fault
<1>3. faults' > 0
  BY <1>1, <1>2, BoundsAssumption DEF TypeOK
<1>4. disk[j].dir = "made"
  BY <1>1 DEF TypeOK, DiskOK, EndInv, ReaderRuns, Uncreated
<1>5. \A k \in Jobs : mem'[k].status = mem[k].status
  <2>1. CASE mem' = mem
    BY <2>1
  <2>2. CASE mem' = [mem EXCEPT ![j].count = @ + 1]
    BY <1>1, <2>2 DEF TypeOK, MemOK
  <2> QED
    BY <1>2, <2>1, <2>2
<1>6. \A k \in Jobs : reader'[k].state = "reading" => reader[k].state = "reading"
  BY <1>1, <1>2 DEF TypeOK, ReaderOK
<1> QED
  BY <1>2, <1>3, <1>4, <1>5, <1>6 DEF Still, NoFaultLost

\* A cancel reaches only a job whose history is open.
LEMMA CancelStep ==
  ASSUME OutcomeInv, NEW j \in Jobs, Cancellable(j)
  PROVE  /\ TypeOK /\ ~IsClosed(disk[j].log) /\ disk[j].dir = "made"
         /\ pc[j] \in {"init", "spawn", "stop_spawn", "run", "stopping", "settling", "archiving"}
         /\ Cancel(j) => StepOf(j) /\ Logs(j)
         /\ CancelFails(j) => StepOf(j) /\ EndInv(j)'
<1>1. /\ TypeOK /\ EndInv(j) /\ OutOfService(j)
      /\ svc = "up" /\ pc[j] \notin NoAwait /\ pc[j] # "none"
      /\ mem[j].status \in {"queued", "running"}
  BY DEF OutcomeInv, CancelInv, TypeInv, JobInv, Cancellable, Quiet
<1>2. pc[j] # "recover" /\ mem[j].status \notin Terminal
  BY <1>1 DEF OutOfService, Terminal
<1>3. /\ ~IsClosed(disk[j].log) /\ disk[j].dir = "made"
      /\ pc[j] \in {"init", "spawn", "stop_spawn", "run", "stopping", "settling", "archiving"}
  BY <1>1, <1>2 DEF TypeOK, DiskOK, EndInv, ClosedIsOver, EndRecorded, Uncreated, PC, Await, NoAwait
<1>4. ASSUME Cancel(j) PROVE StepOf(j) /\ Logs(j)
  <2> DEFINE e == StatusEvent("cancelling", mem[j].count)
  <2>1. e \in JobEvent /\ e.kind # "terminal" /\ e.status = "cancelling"
    BY <1>1, FieldTypes, EventTypes DEF StatusEvent
  <2>2. /\ disk' = [disk EXCEPT ![j].log = Append(@, e)]
        /\ mem' = [mem EXCEPT ![j].status = "cancelling", ![j].cancelReq = TRUE]
        /\ UNCHANGED <<svc, booking, faults, pc, goal, reader>>
    BY <1>4 DEF Cancel, taskVars, damage
  <2> HIDE DEF e
  <2>3. StepOf(j)
    BY <1>1, <2>2 DEF TypeOK, MemOK, DiskOK, StepOf, Still, NoFaultLost
  <2>4. Logs(j)
    BY <1>1, <1>3, <2>1, <2>2 DEF TypeOK, MemOK, DiskOK, Logs
  <2> QED
    BY <2>3, <2>4
<1>5. ASSUME CancelFails(j) PROVE StepOf(j) /\ EndInv(j)'
  <2>1. /\ mem' = [mem EXCEPT ![j].status = "cancelling"]
        /\ faults' = faults + 1
        /\ UNCHANGED <<svc, booking, disk, pc, goal, reader>>
    BY <1>5 DEF CancelFails, Fails, Fault, taskVars
  <2>2. faults' > 0
    BY <1>1, <2>1, BoundsAssumption DEF TypeOK
  <2>3. StepOf(j)
    BY <1>1, <2>1, <2>2 DEF TypeOK, MemOK, StepOf, Still, NoFaultLost
  <2>4. mem'[j].status = "cancelling" /\ mem'[j].status \notin Terminal
    BY <1>1, <2>1 DEF TypeOK, MemOK, Terminal
  <2> QED
    BY <1>1, <1>3, <2>1, <2>2, <2>3, <2>4 DEF EndInv, Uncreated, Created, ReaderRuns, ClosedIsOver,
       EndRecorded, StatusRecorded, ArchiveFits, Unsupervised, TerminalFile, OneTerminal,
       BeingCreated
<1> QED
  BY <1>1, <1>3, <1>4, <1>5

\* Jobs are created one after the other, and launched together.
LEMMA CreationKeeps ==
  ASSUME OutcomeInv, NEW i \in {1, 2}, MakeDirectory(i) \/ QueueJob(i), NEW k \in Jobs
  PROVE  EndInv(k)'
<1> DEFINE j == booking[i]
<1>1. /\ TypeOK /\ i \in DOMAIN booking /\ svc = "up"
      /\ \A m \in 1..i-1 : disk[booking[m]].dir = "made"
  BY DEF OutcomeInv, CancelInv, TypeInv, MakeDirectory, QueueJob, IsNext
<1>2. j \in Jobs /\ j \in InCall(booking) /\ InCall(booking) \subseteq Jobs
  BY <1>1, BookedIsJob, CallsNameJobs DEF TypeOK, InCall
<1>3. EndInv(k) /\ EndInv(j)
  BY <1>2 DEF OutcomeInv
<1>4. CASE MakeDirectory(i)
  <2>1. /\ disk[j].dir = "none" /\ disk' = [disk EXCEPT ![j].dir = "partial"]
        /\ UNCHANGED <<svc, booking, faults, pc, goal, mem, reader>>
    BY <1>4 DEF MakeDirectory, taskVars, damage
  <2>2. /\ disk'[k].dir = (IF k = j THEN "partial" ELSE disk[k].dir)
        /\ disk'[k].log = disk[k].log
        /\ disk'[k].terminal = disk[k].terminal /\ disk'[k].archive = disk[k].archive
    BY <1>1, <1>2, <2>1 DEF TypeOK, DiskOK
  <2> QED
    BY <1>2, <1>3, <2>1, <2>2 DEF EndInv, Uncreated, Created, ReaderRuns, ClosedIsOver,
       EndRecorded, StatusRecorded, ArchiveFits, Unsupervised, TerminalFile, OneTerminal,
       BeingCreated
<1>5. CASE QueueJob(i)
  <2> DEFINE e == StatusEvent("queued", 0)
  <2>1. e \in JobEvent /\ e.kind = "status" /\ e.status = "queued"
    BY EventTypes DEF StatusEvent
  <2>2. <<e>> # <<>> /\ ~IsClosed(<<e>>) /\ TerminalIsLast(<<e>>)
    <3>1. Len(<<e>>) = 1 /\ <<e>>[1] = e /\ Len(<<>>) = 0
      OBVIOUS
    <3> QED
      BY <2>1, <3>1 DEF IsClosed, TerminalIsLast
  <2>3. /\ disk[j].dir = "partial"
        /\ disk' = [disk EXCEPT ![j].dir = "made", ![j].log = <<e>>]
        /\ mem' = [mem EXCEPT ![j].status = "queued"]
        /\ UNCHANGED <<svc, faults, goal, reader>>
    BY <1>5 DEF QueueJob, damage
  <2> HIDE DEF e
  <2>4. /\ disk'[k].dir = (IF k = j THEN "made" ELSE disk[k].dir)
        /\ disk'[k].log = (IF k = j THEN <<e>> ELSE disk[k].log)
        /\ disk'[k].terminal = disk[k].terminal /\ disk'[k].archive = disk[k].archive
        /\ mem'[k].status = (IF k = j THEN "queued" ELSE mem[k].status)
    BY <1>1, <1>2, <2>3 DEF TypeOK, DiskOK, MemOK
  <2>5. k \in InCall(booking) => pc[k] = "none"
    BY DEF OutcomeInv, CancelInv, JobInv, NewIsIdle, Idle
  <2>6. pc[j] = "none"
    BY <1>2 DEF OutcomeInv, CancelInv, JobInv, NewIsIdle, Idle
  <2>7. k = j => ~disk[k].archive /\ disk[k].terminal = "none" /\ reader[k].state # "reading"
    BY <1>3, <2>3, <2>6 DEF EndInv, Uncreated, ReaderRuns
  <2>8. "queued" \notin Terminal
    BY DEF Terminal
  <2>9. CASE CallComplete(i)
    <3>1. /\ pc'[k] = IF k \in InCall(booking) THEN "init" ELSE pc[k]
          /\ InCall(booking') = {}
      BY <1>5, <2>9 DEF QueueJob, InCall
    <3>2. DOMAIN booking = 1..i /\ i \in Nat
      BY <1>1, <2>9, CallsAssumption DEF TypeOK, CallComplete
    <3>3. \A m \in 1..i : m = i \/ m \in 1..i-1
      BY <3>2
    <3>4. k \in InCall(booking) => disk'[k].dir = "made"
      BY <1>1, <2>4, <3>2, <3>3 DEF InCall
    <3>5. k \in InCall(booking) /\ k # j =>
            ~IsClosed(disk[k].log) /\ mem[k].status \notin Terminal
      BY <1>3, <2>4, <2>5, <3>4 DEF EndInv, BeingCreated
    <3> QED
      BY <1>2, <1>3, <2>2, <2>3, <2>4, <2>5, <2>7, <2>8, <3>1, <3>4, <3>5 DEF EndInv, Uncreated,
         Created,
         ReaderRuns, ClosedIsOver, EndRecorded, StatusRecorded, ArchiveFits, Unsupervised,
         TerminalFile, OneTerminal, BeingCreated
  <2>10. CASE ~CallComplete(i)
    <3>1. UNCHANGED <<pc, booking>>
      BY <1>5, <2>10 DEF QueueJob
    <3> QED
      BY <1>2, <1>3, <2>2, <2>3, <2>4, <2>6, <2>7, <2>8, <3>1 DEF EndInv, Uncreated, Created,
         ReaderRuns, ClosedIsOver, EndRecorded, StatusRecorded, ArchiveFits, Unsupervised,
         TerminalFile, OneTerminal, BeingCreated
  <2> QED
    BY <2>9, <2>10
<1> QED
  BY <1>4, <1>5
\* A call begins with jobs that have no files, and may be cut short by a fault.
LEMMA CallEndsKeep ==
  ASSUME OutcomeInv, CreationFails \/ \E call \in Calls : Start(call), NEW k \in Jobs
  PROVE  EndInv(k)'
<1>1. TypeOK /\ EndInv(k) /\ InCall(<<>>) = {} /\ "unknown" \notin Terminal
  BY DEF OutcomeInv, CancelInv, TypeInv, InCall, Terminal
<1> USE DEF EndInv, Uncreated, Created, ReaderRuns, ClosedIsOver, EndRecorded, StatusRecorded,
            ArchiveFits, Unsupervised, TerminalFile, OneTerminal, BeingCreated, taskVars, damage
<1>2. CASE CreationFails
  <2>1. faults' > 0
    BY <1>1, <1>2, BoundsAssumption DEF TypeOK, CreationFails, Fault
  <2> QED
    BY <1>1, <1>2, <2>1 DEF CreationFails
<1>3. ASSUME NEW call \in Calls, Start(call) PROVE EndInv(k)'
  <2>1. k \in InCall(call) => ~IsClosed(disk[k].log) /\ mem[k].status \notin Terminal
    BY <1>1, <1>3 DEF Start, IsClosed
  <2> QED
    BY <1>1, <1>3, <2>1 DEF Start, Quiet
<1> QED
  BY <1>2, <1>3

LEMMA RestartEnds ==
  ASSUME OutcomeInv, Crash \/ CutShort \/ Shutdown \/ Restart \/ Recovered, NEW k \in Jobs
  PROVE  EndInv(k)'
<1>1. /\ TypeOK /\ EndInv(k) /\ OutOfService(k)
      /\ svc # "up" => booking = <<>>
      /\ InCall(<<>>) = {} /\ "unknown" \notin Terminal
  BY DEF OutcomeInv, CancelInv, TypeInv, JobInv, InCall, Terminal
<1>2. ASSUME /\ pc'[k] \in {"none", "recover"}
             /\ pc'[k] = "none" /\ svc' # "down" =>
                  disk[k].dir = "none" \/ (pc[k] = "none" /\ svc = "recovering")
             /\ mem'[k].status \in {mem[k].status, "unknown"}
             /\ reader'[k].state # "reading" /\ booking' = <<>> /\ faults' = faults
             /\ disk'[k].dir = disk[k].dir /\ disk'[k].log = disk[k].log
             /\ disk'[k].terminal = disk[k].terminal /\ disk'[k].archive = disk[k].archive
             /\ mem[k].status = "unknown" \/ mem'[k] = Unknown \/ pc[k] = pc'[k]
      PROVE  EndInv(k)'
  BY <1>1, <1>2 DEF EndInv, Uncreated, Created, ReaderRuns, ClosedIsOver, EndRecorded,
     StatusRecorded, ArchiveFits, Unsupervised, TerminalFile, OneTerminal, BeingCreated, Unknown
<1>3. ASSUME MemoryLost,
             /\ disk'[k].dir = disk[k].dir /\ disk'[k].log = disk[k].log
             /\ disk'[k].terminal = disk[k].terminal /\ disk'[k].archive = disk[k].archive
      PROVE  EndInv(k)'
  BY <1>2, <1>3 DEF MemoryLost, Unknown, NoReader
<1>4. CASE Crash
  BY <1>3, <1>4 DEF Crash
<1>8. CASE CutShort
  <2>1. /\ disk'[k].dir = disk[k].dir /\ disk'[k].log = disk[k].log
        /\ disk'[k].terminal = disk[k].terminal /\ disk'[k].archive = disk[k].archive
    BY <1>1, <1>8 DEF TypeOK, DiskOK, CutShort, CutWrite
  <2> QED
    BY <1>3, <1>8, <2>1 DEF CutShort, CutWrite
<1>5. CASE Shutdown
  <2>1. /\ disk'[k].dir = disk[k].dir /\ disk'[k].log = disk[k].log
        /\ disk'[k].terminal = disk[k].terminal /\ disk'[k].archive = disk[k].archive
    BY <1>1, <1>5 DEF TypeOK, DiskOK, Shutdown
  <2> QED
    BY <1>3, <1>5, <2>1 DEF Shutdown
<1>6. CASE Restart
  BY <1>1, <1>2, <1>6 DEF OutOfService, Restart, damage
<1>7. CASE Recovered
  <2>1. pc[k] = "none" /\ svc = "recovering" /\ reader[k].state # "reading"
    BY <1>1, <1>7 DEF Recovered, AllRecovered, OutOfService
  <2> QED
    BY <1>1, <1>2, <1>7, <2>1 DEF Recovered, taskVars, damage
<1> QED
  BY <1>4, <1>5, <1>6, <1>7, <1>8

\* Recovery puts right what a crash left between two writes.
LEMMA RecoveryEnds ==
  ASSUME OutcomeInv, NEW j \in Jobs, RecoverRefuses(j) \/ RecoverClosed(j) \/ RecoverOpen(j),
         NEW k \in Jobs
  PROVE  EndInv(k)'
<1>1. /\ TypeOK /\ EndInv(k) /\ EndInv(j) /\ OutOfService(k) /\ OutOfService(j)
      /\ svc = "recovering" /\ pc[j] = "recover" /\ InCall(booking) = {}
  BY DEF OutcomeInv, CancelInv, TypeInv, JobInv, InCall, RecoverRefuses, RecoverClosed, RecoverOpen,
     Recovers
<1>2. reader[k].state # "reading" /\ reader[j].state # "reading"
  BY <1>1 DEF OutOfService
<1>3. CASE RecoverRefuses(j)
  <2>1. /\ svc' = "refused" /\ pc'[k] = "none"
        /\ disk' = disk \/ disk' = [disk EXCEPT ![j].staging = FALSE]
        /\ UNCHANGED <<booking, faults, mem, goal, reader>>
    BY <1>3 DEF RecoverRefuses, damage
  <2>2. /\ disk'[k].dir = disk[k].dir /\ disk'[k].log = disk[k].log
        /\ disk'[k].terminal = disk[k].terminal /\ disk'[k].archive = disk[k].archive
    <3>1. CASE disk' = disk
      BY <3>1
    <3>2. CASE disk' = [disk EXCEPT ![j].staging = FALSE]
      BY <1>1, <3>2 DEF TypeOK, DiskOK
    <3> QED
      BY <2>1, <3>1, <3>2
  <2> QED
    BY <1>1, <1>2, <2>1, <2>2 DEF EndInv, Uncreated, Created, ReaderRuns, ClosedIsOver, EndRecorded,
       StatusRecorded, ArchiveFits, Unsupervised, TerminalFile, OneTerminal, BeingCreated
<1>4. CASE RecoverClosed(j) \/ RecoverOpen(j)
  <2>1. /\ disk[j].dir = "made" /\ disk[j].log # <<>> /\ disk[j].log \in Seq(JobEvent)
        /\ Acceptable(j)
        /\ mem' = [mem EXCEPT ![j] = Recalled(j)]
        /\ UNCHANGED <<svc, booking, faults, reader>>
    BY <1>1, <1>4, FieldTypes DEF RecoverClosed, RecoverOpen, Acceptable, Legible, ValidHistory,
       damage
  <2>2. Recalled(j).status \in Terminal <=> IsClosed(disk[j].log)
    BY <2>1, LastEvent DEF Recalled
  <2>3. Recalled(j).status = Outcome(disk[j].log)
    BY DEF Recalled, Outcome
  <2>4. mem'[j] = Recalled(j)
    BY <1>1, <2>1 DEF TypeOK, MemOK
  <2>5. StepOf(j)
    <3>1. /\ \E to \in {"none", "fin_event"} : pc' = [pc EXCEPT ![j] = to]
          /\ goal' = goal \/ goal' = [goal EXCEPT ![j] = "failed"]
          /\ \E f : disk' = [disk EXCEPT ![j] = f]
      BY <1>4 DEF RecoverClosed, RecoverOpen, Finish, Goto
    <3> QED
      BY <1>1, <2>1, <3>1 DEF TypeOK, MemOK, DiskOK, StepOf, Still, NoFaultLost
  <2>6. CASE RecoverClosed(j)
    <3>1. /\ pc'[j] = "none" /\ disk'[j] = Tidied(j) /\ IsClosed(disk[j].log) /\ goal' = goal
      BY <1>1, <2>6 DEF TypeOK, DiskOK, RecoverClosed, Goto
    <3>2. /\ disk'[j].dir = "made" /\ disk'[j].log = disk[j].log
          /\ disk'[j].terminal = Outcome(disk[j].log) /\ disk'[j].archive = disk[j].archive
      BY <1>1, <2>1, <3>1 DEF TypeOK, DiskOK, Tidied
    <3>3. EndInv(j)'
      BY <1>1, <1>2, <2>1, <2>2, <2>3, <2>4, <3>1, <3>2 DEF EndInv, Uncreated, Created,
         ReaderRuns, ClosedIsOver, EndRecorded, StatusRecorded, ArchiveFits, Unsupervised,
         TerminalFile, OneTerminal, BeingCreated
    <3> QED
      BY <2>5, <3>3, StillKeeps DEF StepOf
  <2>7. CASE RecoverOpen(j)
    <3>1. /\ pc'[j] = "fin_event" /\ goal'[j] = "failed" /\ disk'[j] = Emptied(j)
          /\ ~IsClosed(disk[j].log)
      BY <1>1, <2>7 DEF TypeOK, DiskOK, RecoverOpen, Finish, Goto
    <3>2. /\ disk'[j].dir = "made" /\ disk'[j].log = disk[j].log
          /\ disk'[j].terminal = disk[j].terminal
      BY <1>1, <2>1, <3>1 DEF TypeOK, DiskOK, Emptied
    <3>3. EndInv(j)'
      BY <1>1, <1>2, <2>1, <2>2, <2>4, <3>1, <3>2 DEF EndInv, Uncreated, Created, ReaderRuns,
         ClosedIsOver, EndRecorded, StatusRecorded, ArchiveFits, Unsupervised, TerminalFile,
         OneTerminal, BeingCreated
    <3> QED
      BY <2>5, <3>3, StillKeeps DEF StepOf
  <2> QED
    BY <1>4, <2>6, <2>7
<1> QED
  BY <1>3, <1>4
-----------------------------------------------------------------------------
\* A step of one job keeps the invariant of all, if it keeps that of the one.
LEMMA OthersKeep ==
  ASSUME OutcomeInv, NEW j \in Jobs, StepOf(j), EndInv(j)', NEW k \in Jobs
  PROVE  EndInv(k)'
BY StillKeeps DEF StepOf

LEMMA OutcomeInvInit == Init => OutcomeInv
<1> SUFFICES ASSUME Init, NEW j \in Jobs PROVE EndInv(j)
  BY CancelInvInit DEF OutcomeInv
<1>1. /\ disk[j] = NoFiles /\ mem[j] = Unknown /\ reader[j] = NoReader /\ pc[j] = "none"
      /\ booking = <<>> /\ ~IsClosed(<<>>) /\ "unknown" \notin Terminal /\ InCall(<<>>) = {}
  BY DEF Init, IsClosed, Terminal, InCall
<1> QED
  BY <1>1 DEF NoFiles, Unknown, NoReader, EndInv, Uncreated, Created, ReaderRuns,
     ClosedIsOver, EndRecorded, StatusRecorded, ArchiveFits, Unsupervised, TerminalFile,
     OneTerminal, BeingCreated

LEMMA OutcomeInvStep == OutcomeInv /\ [Next]_vars => OutcomeInv'
<1> SUFFICES ASSUME OutcomeInv, [Next]_vars, NEW k \in Jobs PROVE EndInv(k)'
  BY CancelInvStep DEF OutcomeInv
<1>1. CASE UNCHANGED vars
  BY <1>1, StillKeeps DEF vars, taskVars, damage, Still, NoFaultLost
<1>2. ASSUME NEW j \in Jobs, Runner(j) PROVE EndInv(k)'
  BY <1>2, RunnerMoves, MovesKeeps, SpawnedStep, LogsKeeps, FinishEventKeeps, FinishMetaKeeps,
     TailKeeps, OthersKeep DEF Runner
<1>3. ASSUME NEW j \in Jobs, Reader(j) PROVE EndInv(k)'
  BY <1>3, ReaderStep, LogsKeeps, OthersKeep, StillKeeps DEF StepOf
<1>4. ASSUME NEW j \in Jobs, Thread(j) \/ Environment(j) PROVE EndInv(k)'
  BY <1>4, EnvironmentStill, StillKeeps
<1>5. CASE Client \/ Creation
  <2>1. ASSUME NEW j \in Jobs, Cancel(j) PROVE EndInv(k)'
    BY <2>1, CancelStep, LogsKeeps, OthersKeep DEF Cancel
  <2> QED
    BY <1>5, <2>1, CallEndsKeep, CreationKeeps DEF Client, Creation
<1>6. CASE DiskFault
  <2>1. ASSUME NEW j \in Jobs, CancelFails(j) PROVE EndInv(k)'
    BY <2>1, CancelStep, OthersKeep DEF CancelFails
  <2>2. ASSUME NEW j \in Jobs, SpawnedFails(j) \/ FinishFails(j) PROVE EndInv(k)'
    BY <2>2, RunnerMoves, MovesKeeps, TailKeeps, OthersKeep
  <2>3. ASSUME NEW j \in Jobs, ReadFails(j) PROVE EndInv(k)'
    BY <2>3, ReadFailsStill, StillKeeps
  <2> QED
    BY <1>6, <2>1, <2>2, <2>3, CallEndsKeep DEF DiskFault
<1>7. CASE Crash \/ CutShort \/ Shutdown \/ Recovery
  BY <1>7, RestartEnds, RecoveryEnds DEF Recovery
<1> QED
  BY <1>1, <1>2, <1>3, <1>4, <1>5, <1>6, <1>7 DEF Next

LEMMA OutcomeInvAlways == Spec => []OutcomeInv
BY OutcomeInvInit, OutcomeInvStep, PTL DEF Spec

-----------------------------------------------------------------------------
(***************************************************************************)
(* Files that end in part of a write.                                      *)
(***************************************************************************)
\* terminal.json is cut off only once, where it was to be written; a service that
\* has taken a job up again has found its files whole.
Tearing(j) ==
  /\ torn[j] # {} => disk[j].dir = "made"
  /\ "terminal.json" \in torn[j] => IsClosed(disk[j].log) /\ disk[j].terminal = "none"
  /\ pc[j] = "fin_meta" => disk[j].terminal = "none" /\ "terminal.json" \notin torn[j]
  /\ svc = "up" \/ (svc = "recovering" /\ pc[j] # "recover") => torn[j] = {} \/ faults > 0

TornInv == OutcomeInv /\ \A j \in Jobs : Tearing(j)

\* Only a write that fails or is cut off leaves a file torn.
LEMMA TornFrame ==
  ASSUME [Next]_vars,
         ~CutShort,
         \A j \in Jobs : ~(CancelFails(j) \/ SpawnedFails(j) \/ FinishFails(j) \/ ReadFails(j))
  PROVE  UNCHANGED torn
<1> USE DEF damage, readerFrame, threadFrame
<1>1. CASE UNCHANGED vars BY <1>1 DEF vars
<1>2. ASSUME NEW j \in Jobs, Runner(j) PROVE UNCHANGED torn
  BY <1>2 DEF Runner, Begin, SpawnInterrupted, StopSpawned, SpawnFailed, Spawned, RunCancelled,
     RunTimedOut, RunProtocolError, RunDrained, StopDone, SettleDone, ArchiveGivenUp, Discard,
     ArchiveFailed, ArchiveRename, Commit, FinishEvent, FinishMeta, Cleanup, Reap
<1>3. ASSUME NEW j \in Jobs, Reader(j) \/ Thread(j) \/ Environment(j) PROVE UNCHANGED torn
  BY <1>3 DEF Reader, ReadPhase, ReadCandidate, ReadFailure, ReadInvalid, ReadEOF, ReadComplete,
     Thread, ThreadStages, ThreadFails, ThreadChecks, ThreadDiscards,
     Environment, Expire, SpawnEnds, SpawnDropped, WorkerExits, KinExits
<1>4. CASE Client \/ Creation
  BY <1>4 DEF Client, Creation, Start, Cancel, MakeDirectory, QueueJob
<1>5. CASE DiskFault \/ Crash \/ Shutdown
  BY <1>5 DEF DiskFault, CreationFails, Crash, Shutdown
<1>6. CASE Recovery
  BY <1>6 DEF Recovery, Restart, Recovered, RecoverRefuses, RecoverClosed, RecoverOpen
<1> QED
  BY <1>1, <1>2, <1>3, <1>4, <1>5, <1>6 DEF Next

\* What the steps of a runner and its reader that write whole events leave as it was.
LEMMA TearingStays ==
  ASSUME TornInv, NEW k \in Jobs, UNCHANGED <<svc, torn>>, NoFaultLost,
         Still(k) \/ Moves(k) \/ Logs(k)
  PROVE  Tearing(k)'
<1>1. CASE Still(k)
  BY <1>1 DEF TornInv, Tearing, Still, NoFaultLost
<1>2. CASE Moves(k)
  <2>1. ~IsClosed(disk[k].log) /\ disk'[k].log = disk[k].log
    BY <1>2 DEF Moves, TornInv, OutcomeInv, EndInv, ClosedIsOver
  <2> QED
    BY <1>2, <2>1 DEF TornInv, Tearing, Moves, NoFaultLost
<1>3. CASE Logs(k)
  BY <1>3 DEF TornInv, Tearing, Logs, NoFaultLost
<1> QED
  BY <1>1, <1>2, <1>3

LEMMA FailedWriteTears ==
  ASSUME TornInv, NEW j \in Jobs,
         CancelFails(j) \/ SpawnedFails(j) \/ FinishFails(j) \/ ReadFails(j), NEW k \in Jobs
  PROVE  Tearing(k)'
<1>1. TypeOK /\ EndInv(j) /\ Tearing(k) /\ Tearing(j)
  BY DEF TornInv, OutcomeInv, CancelInv, TypeInv
<1>2. /\ faults' = faults + 1
      /\ \E file \in TornFile : torn' = torn \/ torn' = [torn EXCEPT ![j] = @ \cup {file}]
  BY DEF CancelFails, SpawnedFails, FinishFails, ReadFails, Fails, Tears, Fault, TornFile
<1>3. faults' > 0
  BY <1>1, <1>2, BoundsAssumption DEF TypeOK
<1>4. disk[j].dir = "made" /\ UNCHANGED <<svc, disk>>
  <2>1. CASE CancelFails(j)
    BY <2>1, CancelStep DEF TornInv, CancelFails
  <2>2. CASE SpawnedFails(j) \/ FinishFails(j)
    BY <1>1, <2>2 DEF TypeOK, DiskOK, EndInv, Uncreated, SpawnedFails, FinishFails, Turn
  <2>3. CASE ReadFails(j)
    BY <2>3, ReadFailsStill DEF TornInv
  <2> QED
    BY <2>1, <2>2, <2>3
<1>5. "terminal.json" \in torn'[j] =>
        \/ "terminal.json" \in torn[j]
        \/ FinishFails(j) /\ pc[j] = "fin_meta"
  BY <1>1 DEF TypeOK, CancelFails, SpawnedFails, FinishFails, ReadFails, Fails, Tears
<1>6. pc'[k] = "fin_meta" => pc[k] = "fin_meta" /\ k # j
  <2>1. \/ pc[j] # "fin_meta" /\ pc' = pc
        \/ \E to \in {"stopping", "fin_event", "cleanup"} : pc' = [pc EXCEPT ![j] = to]
    BY DEF CancelFails, SpawnedFails, FinishFails, ReadFails, Cancellable, Reports, Reads, Quiet,
       NoAwait, StopThen, Finish, Goto, taskVars
  <2> QED
    BY <1>1, <2>1 DEF TypeOK
<1>7. CASE k = j
  <2>1. "terminal.json" \in torn'[j] => IsClosed(disk[j].log) /\ disk[j].terminal = "none"
    BY <1>1, <1>5 DEF Tearing, EndInv, EndRecorded
  <2> QED
    BY <1>3, <1>4, <1>6, <1>7, <2>1 DEF Tearing
<1>8. CASE k # j
  <2>1. torn'[k] = torn[k]
    BY <1>1, <1>2, <1>8 DEF TypeOK
  <2> QED
    BY <1>1, <1>3, <1>4, <1>6, <2>1 DEF Tearing
<1> QED
  BY <1>7, <1>8

LEMMA CutWriteTears ==
  ASSUME TornInv, NEW j \in Jobs, NEW file \in TornFile, CutWrite(j, file), NEW k \in Jobs
  PROVE  Tearing(k)'
<1>1. TypeOK /\ EndInv(j) /\ Tearing(j) /\ Tearing(k)
  BY DEF TornInv, OutcomeInv, CancelInv, TypeInv
<1>2. disk[j].dir = "made"
  <2>1. CASE Cancellable(j)
    BY <2>1, CancelStep DEF TornInv
  <2>2. CASE Reports(j)
    BY <1>1, <2>2 DEF TypeOK, DiskOK, EndInv, ReaderRuns, Uncreated, Reports, Reads
  <2>3. CASE pc[j] \in {"spawn", "fin_event", "fin_meta"}
    BY <1>1, <2>3 DEF TypeOK, DiskOK, EndInv, Uncreated
  <2>4. CASE Acceptable(j)
    BY <2>4 DEF Acceptable, Legible
  <2> QED
    BY <2>1, <2>2, <2>3, <2>4 DEF CutWrite, Writes, AddsEvent, Turn, TornFile
<1>3. /\ svc' = "down" /\ pc'[k] = "none"
      /\ torn' = [torn EXCEPT ![j] = @ \cup {file}]
  BY DEF CutWrite, MemoryLost, Tears
<1>4. /\ disk'[k].dir = disk[k].dir /\ disk'[k].log = disk[k].log
      /\ disk'[k].terminal = disk[k].terminal
  BY <1>1 DEF TypeOK, DiskOK, CutWrite
<1>5. file = "terminal.json" => IsClosed(disk[j].log) /\ disk[j].terminal = "none"
  BY <1>1 DEF CutWrite, Writes, Tearing, EndInv, EndRecorded
<1> QED
  BY <1>1, <1>2, <1>3, <1>4, <1>5 DEF TypeOK, Tearing

\* The steps that write the terminal event and terminal.json, and those behind them.
LEMMA LastStretchTears ==
  ASSUME TornInv, NEW j \in Jobs, FinishEvent(j) \/ FinishMeta(j) \/ Cleanup(j) \/ Reap(j)
  PROVE  Tearing(j)'
<1>1. TypeOK /\ EndInv(j) /\ Tearing(j)
  BY DEF TornInv, OutcomeInv, CancelInv, TypeInv
<1>2. UNCHANGED <<svc, torn, faults>>
  BY DEF FinishEvent, FinishMeta, Cleanup, Reap, damage
<1>3. CASE FinishEvent(j)
  <2>1. ~IsClosed(disk[j].log) /\ pc[j] = "fin_event"
    BY <1>1, <1>3 DEF FinishEvent, EndInv, ClosedIsOver
  <2>2. disk[j].terminal = "none" /\ "terminal.json" \notin torn[j]
    BY <1>1, <2>1 DEF EndInv, TerminalFile, Tearing
  <2>3. /\ disk'[j].dir = disk[j].dir /\ disk'[j].terminal = disk[j].terminal
    BY <1>1, <1>3 DEF TypeOK, DiskOK, FinishEvent, AppendEvent
  <2> QED
    BY <1>1, <1>2, <2>1, <2>2, <2>3 DEF Tearing
<1>4. CASE FinishMeta(j)
  <2>1. /\ pc[j] = "fin_meta" /\ pc'[j] \in {"cleanup", "none"}
        /\ disk'[j].dir = disk[j].dir
    BY <1>1, <1>4 DEF TypeOK, DiskOK, FinishMeta, Goto
  <2> QED
    BY <1>1, <1>2, <2>1 DEF Tearing
<1>5. CASE Cleanup(j) \/ Reap(j)
  <2>1. /\ pc[j] \in {"cleanup", "reap"} /\ pc'[j] \in {"reap", "broken", "done"}
        /\ disk' = disk \/ disk' = [disk EXCEPT ![j].staging = FALSE]
    BY <1>1, <1>5 DEF TypeOK, Cleanup, Reap, Turn, Goto
  <2>2. /\ disk'[j].dir = disk[j].dir /\ disk'[j].log = disk[j].log
        /\ disk'[j].terminal = disk[j].terminal
    BY <1>1, <2>1 DEF TypeOK, DiskOK
  <2> QED
    BY <1>1, <1>2, <2>1, <2>2 DEF Tearing
<1> QED
  BY <1>3, <1>4, <1>5

LEMMA CreationTears ==
  ASSUME TornInv, Creation \/ CreationFails \/ (\E call \in Calls : Start(call)), NEW k \in Jobs,
         UNCHANGED torn
  PROVE  Tearing(k)'
<1>1. TypeOK /\ EndInv(k) /\ Tearing(k)
  BY DEF TornInv, OutcomeInv, CancelInv, TypeInv
<1>2. svc' = svc /\ (faults' = faults \/ faults' = faults + 1)
  BY DEF Creation, CreationFails, Start, MakeDirectory, QueueJob, Fault, damage
<1>3. pc'[k] = "fin_meta" => pc[k] = "fin_meta"
  BY <1>1 DEF TypeOK, Creation, CreationFails, Start, MakeDirectory, QueueJob, taskVars
<1>5. svc = "up"
  BY DEF Creation, CreationFails, Start, MakeDirectory, QueueJob, IsNext, Quiet
<1>6. faults > 0 => faults' > 0
  BY <1>1, <1>2, BoundsAssumption DEF TypeOK
<1>7. CASE disk' = disk
  BY <1>1, <1>2, <1>3, <1>5, <1>6, <1>7 DEF Tearing
<1>8. ASSUME NEW i \in {1, 2}, MakeDirectory(i) \/ QueueJob(i) PROVE Tearing(k)'
  <2> DEFINE j == booking[i]
  <2>1. j \in Jobs /\ disk[j].dir # "made"
    BY <1>1, <1>8, BookedIsJob DEF TypeOK, MakeDirectory, QueueJob, IsNext
  <2>4. \/ disk' = [disk EXCEPT ![j].dir = "partial"]
        \/ \E log : disk' = [disk EXCEPT ![j].dir = "made", ![j].log = log]
    BY <1>8 DEF MakeDirectory, QueueJob
  <2> HIDE DEF j
  <2>2. /\ disk'[j].terminal = disk[j].terminal
        /\ \A m \in Jobs \ {j} : disk'[m] = disk[m]
    BY <1>1, <2>1, <2>4 DEF TypeOK, DiskOK
  <2>3. torn[j] = {} \/ k # j
    BY <1>1, <2>1 DEF Tearing
  <2> QED
    BY <1>1, <1>2, <1>3, <1>5, <1>6, <2>2, <2>3 DEF Tearing
<1> QED
  BY <1>7, <1>8 DEF Creation, CreationFails, Start

LEMMA RestartTears ==
  ASSUME TornInv, Crash \/ Shutdown \/ Recovery, UNCHANGED torn, NEW k \in Jobs
  PROVE  Tearing(k)'
<1>1. TypeOK /\ EndInv(k) /\ Tearing(k)
  BY DEF TornInv, OutcomeInv, CancelInv, TypeInv
<1>2. CASE Crash \/ Shutdown
  <2>1. svc' = "down" /\ pc'[k] = "none"
    BY <1>2 DEF Crash, Shutdown, MemoryLost
  <2>2. /\ disk'[k].dir = disk[k].dir /\ disk'[k].log = disk[k].log
        /\ disk'[k].terminal = disk[k].terminal
    BY <1>1, <1>2 DEF TypeOK, DiskOK, Crash, Shutdown
  <2> QED
    BY <1>1, <2>1, <2>2 DEF Tearing
<1>3. CASE Restart
  BY <1>1, <1>3 DEF Tearing, Restart, damage
<1>4. CASE Recovered
  <2>1. pc[k] = "none" /\ svc = "recovering" /\ svc' = "up" /\ UNCHANGED <<pc, disk, faults>>
    BY <1>4 DEF Recovered, AllRecovered, taskVars, damage
  <2> QED
    BY <1>1, <2>1 DEF Tearing
<1>5. ASSUME NEW j \in Jobs, RecoverRefuses(j) PROVE Tearing(k)'
  <2>1. /\ svc' = "refused" /\ pc'[k] = "none"
        /\ disk' = disk \/ disk' = [disk EXCEPT ![j].staging = FALSE]
    BY <1>5 DEF RecoverRefuses
  <2>2. /\ disk'[k].dir = disk[k].dir /\ disk'[k].log = disk[k].log
        /\ disk'[k].terminal = disk[k].terminal
    <3>1. CASE disk' = disk
      BY <3>1
    <3>2. CASE disk' = [disk EXCEPT ![j].staging = FALSE]
      BY <1>1, <3>2 DEF TypeOK, DiskOK
    <3> QED
      BY <2>1, <3>1, <3>2
  <2> QED
    BY <1>1, <2>1, <2>2 DEF Tearing
<1>6. ASSUME NEW j \in Jobs, RecoverClosed(j) \/ RecoverOpen(j) PROVE Tearing(k)'
  <2>1. /\ Acceptable(j) /\ svc = "recovering" /\ UNCHANGED <<svc, faults>>
        /\ \E to \in {"none", "fin_event"} : pc' = [pc EXCEPT ![j] = to]
        /\ \E f : disk' = [disk EXCEPT ![j] = f]
    BY <1>6 DEF RecoverClosed, RecoverOpen, Recovers, Finish, Goto, damage
  <2>2. torn[j] = {}
    BY <1>1, <2>1 DEF Acceptable, Legible
  <2>3. CASE k = j
    BY <1>1, <2>1, <2>2, <2>3 DEF TypeOK, Tearing
  <2>4. CASE k # j
    <3>1. disk'[k] = disk[k] /\ pc'[k] = pc[k]
      BY <1>1, <2>1, <2>4 DEF TypeOK, DiskOK
    <3> QED
      BY <1>1, <2>1, <3>1 DEF Tearing
  <2> QED
    BY <2>3, <2>4
<1> QED
  BY <1>2, <1>3, <1>4, <1>5, <1>6 DEF Recovery

LEMMA TornInvInit == Init => TornInv
BY OutcomeInvInit DEF Init, TornInv, Tearing

LEMMA TornInvStep == TornInv /\ [Next]_vars => TornInv'
<1> SUFFICES ASSUME TornInv, [Next]_vars, NEW k \in Jobs PROVE Tearing(k)'
  BY OutcomeInvStep DEF TornInv
<1>1. CASE CutShort
  BY <1>1, CutWriteTears DEF CutShort
<1>2. ASSUME NEW j \in Jobs,
             CancelFails(j) \/ SpawnedFails(j) \/ FinishFails(j) \/ ReadFails(j)
      PROVE  Tearing(k)'
  BY <1>2, FailedWriteTears
<1>3. CASE UNCHANGED torn
  <2>1. ASSUME NEW j \in Jobs, StepOf(j),
               \/ Tearing(j)'
               \/ Still(j) \/ Moves(j) \/ Logs(j)
        PROVE  Tearing(k)'
    BY <1>3, <2>1, TearingStays DEF StepOf
  <2>2. CASE UNCHANGED vars
    BY <1>3, <2>2, TearingStays DEF vars, taskVars, damage, Still, NoFaultLost
  <2>3. ASSUME NEW j \in Jobs, Runner(j) PROVE Tearing(k)'
    BY <2>1, <2>3, RunnerMoves, SpawnedStep, FinishEventKeeps, FinishMetaKeeps, TailKeeps,
       LastStretchTears DEF Runner, TornInv
  <2>4. ASSUME NEW j \in Jobs, Reader(j) PROVE Tearing(k)'
    BY <2>1, <2>4, ReaderStep DEF TornInv
  <2>5. ASSUME NEW j \in Jobs, Thread(j) \/ Environment(j) PROVE Tearing(k)'
    BY <1>3, <2>5, EnvironmentStill, TearingStays DEF TornInv
  <2>6. ASSUME NEW j \in Jobs, Cancel(j) PROVE Tearing(k)'
    BY <2>1, <2>6, CancelStep DEF TornInv, Cancel
  <2>7. CASE Creation \/ CreationFails \/ \E call \in Calls : Start(call)
    BY <1>3, <2>7, CreationTears
  <2>8. CASE Crash \/ Shutdown \/ Recovery
    BY <1>3, <2>8, RestartTears
  <2> QED
    BY <1>1, <1>2, <2>2, <2>3, <2>4, <2>5, <2>6, <2>7, <2>8 DEF Next, Client, DiskFault
<1> QED
  BY <1>1, <1>2, <1>3, TornFrame

LEMMA TornInvAlways == Spec => []TornInv
BY TornInvInit, TornInvStep, PTL DEF Spec

-----------------------------------------------------------------------------
\* Behind the terminal event of a history nothing is written: not by the reader, not by
\* a cancel, not by the runner or by recovery (_append_event in workbench/jobs.py).
THEOREM TerminalEventStaysLast == Spec => []TerminalEventIsLast
<1>1. OutcomeInv => TerminalEventIsLast
  BY DEF OutcomeInv, EndInv, OneTerminal, TerminalEventIsLast, Log
<1> QED
  BY <1>1, OutcomeInvAlways, PTL

\* terminal.json exists, be it cut off, only beside a closed history; written whole it
\* tells the same outcome (_finish_terminal, _recover_existing_jobs, _write_new).
THEOREM TerminalFileIsTrue == Spec => []TerminalFileAgrees
<1>1. TornInv => TerminalFileAgrees
  BY DEF TornInv, Tearing, OutcomeInv, EndInv, TerminalFile, TerminalFileAgrees, Log
<1> QED
  BY <1>1, TornInvAlways, PTL

\* A closed history has an archive exactly when it is completed; an open one has one only
\* in the last stretch of a completion, or after a fault (_run_job).
THEOREM ArchiveIsFounded == Spec => []ArchiveAgreesWithOutcome
<1>1. OutcomeInv => ArchiveAgreesWithOutcome
  <2> SUFFICES ASSUME OutcomeInv, NEW j \in Jobs
               PROVE  /\ IsClosed(Log(j)) => (disk[j].archive <=> Completed(j))
                      /\ disk[j].archive /\ ~IsClosed(Log(j)) /\ svc = "up" =>
                           \/ pc[j] = "renamed"
                           \/ pc[j] = "fin_event" /\ goal[j] = "completed"
                           \/ mem[j].status = "completed" /\ faults > 0
    BY DEF ArchiveAgreesWithOutcome
  <2>1. EndInv(j) /\ JobInv(j)
    BY DEF OutcomeInv, CancelInv
  <2>2. "completed" \in Terminal
    BY DEF Terminal
  <2> QED
    BY <2>1, <2>2 DEF EndInv, JobInv, ArchiveFits, ArchiveCommitted, StatusRecorded, Unsupervised,
       OutOfService, Completed, Log
<1> QED
  BY <1>1, OutcomeInvAlways, PTL

\* A terminal status a client sees between two turns of the loop is the recorded one,
\* unless a disk write has failed (snapshot, _finish_terminal).
THEOREM SnapshotsAreTrue == Spec => []SnapshotsTellTheTruth
<1>1. OutcomeInv => SnapshotsTellTheTruth
  BY DEF OutcomeInv, EndInv, StatusRecorded, SnapshotsTellTheTruth, Log
<1> QED
  BY <1>1, OutcomeInvAlways, PTL

\* A service that serves supervises every job whose history is open, unless a disk write
\* has failed: restarts, calls and cancels forget none (_recover_existing_jobs, start).
THEOREM NoJobIsForgotten == Spec => []NoJobForgotten
<1>1. OutcomeInv => NoJobForgotten
  <2> SUFFICES ASSUME OutcomeInv, NEW j \in Jobs, svc = "up", booking = <<>>,
                      disk[j].dir # "none", ~IsClosed(disk[j].log), faults = 0
               PROVE  HasRunner(j)
    BY DEF NoJobForgotten, Log, OutcomeInv, CancelInv, TypeInv, TypeOK
  <2>1. EndInv(j) /\ JobInv(j) /\ pc[j] \in PC /\ InCall(<<>>) = {}
    BY DEF OutcomeInv, CancelInv, TypeInv, TypeOK, InCall
  <2>2. pc[j] # "none" /\ pc[j] # "recover"
    BY <2>1 DEF EndInv, Unsupervised, JobInv, OutOfService
  <2>3. mem[j].status \notin Terminal
    BY <2>1 DEF EndInv, StatusRecorded
  <2> QED
    BY <2>1, <2>2, <2>3 DEF EndInv, EndRecorded, HasRunner, PC
<1> QED
  BY <1>1, OutcomeInvAlways, PTL
-----------------------------------------------------------------------------
(***************************************************************************)
(* The supervisor implements JobOutcome.                                   *)
(***************************************************************************)
\* What JobOutcome sees of job k stays as it is.
Unseen(k) == disk'[k].log = disk[k].log /\ disk'[k].archive = disk[k].archive

\* What a step of the supervisor may show of a job.
Shown(j) ==
  \/ Unseen(j)
  \/ /\ RecordedOutcome(j) = "none" /\ RecordedOutcome(j)' = "open"
     /\ disk'[j].archive = disk[j].archive
  \/ RecordedOutcome(j) = "open" /\ RecordedOutcome(j)' = "open"
  \/ /\ RecordedOutcome(j) = "open" /\ RecordedOutcome(j)' \in Terminal
     /\ disk'[j].archive = disk[j].archive
     /\ disk[j].archive <=> RecordedOutcome(j)' = "completed"

PromiseStep ==
  [Promise!Next]_<<[j \in Jobs |-> RecordedOutcome(j)], [j \in Jobs |-> disk[j].archive]>>

\* Seen from outside, a step that shows one job only is one of JobOutcome's, or none.
LEMMA ShownSteps ==
  ASSUME TypeOK, TypeOK', NEW j \in Jobs, \A k \in Jobs \ {j} : Unseen(k), Shown(j)
  PROVE  PromiseStep
<1> DEFINE o == [k \in Jobs |-> RecordedOutcome(k)]
           a == [k \in Jobs |-> disk[k].archive]
<1>1. \A k \in Jobs : disk[k].archive \in BOOLEAN /\ disk'[k].archive \in BOOLEAN
  BY DEF TypeOK, DiskOK
<1>2. \A k \in Jobs : Unseen(k) =>
        RecordedOutcome(k)' = RecordedOutcome(k) /\ disk'[k].archive = disk[k].archive
  BY DEF Unseen, RecordedOutcome, Log
<1>3. o' = [o EXCEPT ![j] = RecordedOutcome(j)'] /\ a' = [a EXCEPT ![j] = disk'[j].archive]
  BY <1>2
<1>4. CASE RecordedOutcome(j)' = RecordedOutcome(j) /\ disk'[j].archive = disk[j].archive
  <2>1. o' = o /\ a' = a
    BY <1>2, <1>4
  <2> QED
    BY <2>1 DEF PromiseStep
<1>5. CASE /\ RecordedOutcome(j) = "none" /\ RecordedOutcome(j)' = "open"
           /\ disk'[j].archive = disk[j].archive
  <2>1. Promise!Accept(j)
    BY <1>2, <1>3, <1>5 DEF Promise!Accept
  <2> QED
    BY <2>1 DEF PromiseStep, Promise!Next
<1>6. CASE RecordedOutcome(j) = "open" /\ RecordedOutcome(j)' = "open"
  <2>1. o' = o
    BY <1>2, <1>6
  <2>2. CASE disk[j].archive /\ ~disk'[j].archive
    <3>1. disk'[j].archive = FALSE
      BY <1>1, <2>2
    <3>2. Promise!Withdraw(j)
      BY <1>3, <1>6, <2>1, <2>2, <3>1 DEF Promise!Withdraw
    <3> QED
      BY <3>2 DEF PromiseStep, Promise!Next
  <2>3. CASE ~disk[j].archive /\ disk'[j].archive
    <3>1. Promise!Publish(j)
      BY <1>3, <1>6, <2>1, <2>3 DEF Promise!Publish
    <3> QED
      BY <3>1 DEF PromiseStep, Promise!Next
  <2> QED
    BY <1>1, <1>4, <1>6, <2>2, <2>3
<1>7. CASE /\ RecordedOutcome(j) = "open" /\ RecordedOutcome(j)' \in Terminal
           /\ disk'[j].archive = disk[j].archive
           /\ disk[j].archive <=> RecordedOutcome(j)' = "completed"
  <2>1. Promise!Close(j, RecordedOutcome(j)')
    BY <1>2, <1>3, <1>7 DEF Promise!Close
  <2>2. RecordedOutcome(j)' \in Promise!Final
    BY <1>7 DEF Terminal, Promise!Final
  <2> QED
    BY <2>1, <2>2 DEF PromiseStep, Promise!Next
<1> QED
  BY <1>2, <1>4, <1>5, <1>6, <1>7 DEF Shown
\* An open history that stays open, or grows by an event that is not terminal.
LEMMA OpenIsShown ==
  ASSUME OutcomeInv, NEW j \in Jobs, Moves(j) \/ Logs(j) PROVE Shown(j)
<1>1. /\ disk[j].dir = "made" /\ ~IsClosed(disk[j].log) /\ disk[j].log # <<>>
      /\ disk[j].log \in Seq(JobEvent)
  BY FieldTypes DEF OutcomeInv, CancelInv, TypeInv, TypeOK, DiskOK, EndInv, ClosedIsOver, Uncreated,
     Created, Moves, Logs
<1>2. disk'[j].log # <<>> /\ ~IsClosed(disk'[j].log)
  BY <1>1, LogGrows DEF Moves, Logs
<1> QED
  BY <1>1, <1>2 DEF Shown, RecordedOutcome, Log

LEMMA RunnerIsShown ==
  ASSUME OutcomeInv, NEW j \in Jobs, Runner(j) \/ SpawnedFails(j) \/ FinishFails(j)
  PROVE  StepOf(j) /\ Shown(j)
<1>1. CASE FinishEvent(j)
  <2>1. StepOf(j) /\ EndInv(j)'
    BY <1>1, FinishEventKeeps
  <2>2. /\ TypeOK /\ pc[j] = "fin_event" /\ goal[j] \in Terminal /\ EndInv(j)
        /\ pc' = [pc EXCEPT ![j] = "fin_meta"] /\ goal' = goal
        /\ \E e : disk' = [disk EXCEPT ![j].log = Append(@, e)]
    BY <1>1 DEF OutcomeInv, CancelInv, TypeInv, TypeOK, GoalChosen, FinishEvent, Goto, AppendEvent
  <2>3. pc'[j] = "fin_meta" /\ disk'[j].archive = disk[j].archive
    BY <2>2, LogFrame DEF TypeOK
  <2>4. /\ IsClosed(disk'[j].log) /\ Outcome(disk'[j].log) = goal[j]
        /\ disk'[j].archive <=> goal[j] = "completed"
    BY <2>1, <2>2, <2>3 DEF EndInv, EndRecorded, ArchiveFits
  <2>5. disk[j].log # <<>> /\ ~IsClosed(disk[j].log)
    BY <2>2 DEF TypeOK, DiskOK, EndInv, ClosedIsOver, Uncreated, Created
  <2>6. disk'[j].log # <<>>
    BY <2>4 DEF IsClosed
  <2> QED
    BY <2>1, <2>2, <2>3, <2>4, <2>5, <2>6 DEF Shown, RecordedOutcome, Log
<1>2. CASE FinishMeta(j)
  <2>1. TypeOK /\ disk' = [disk EXCEPT ![j].terminal = goal[j]]
    BY <1>2 DEF OutcomeInv, CancelInv, TypeInv, FinishMeta
  <2> QED
    BY <1>2, <2>1, FinishMetaKeeps DEF TypeOK, DiskOK, Shown, Unseen
<1>3. CASE FinishFails(j) \/ Cleanup(j) \/ Reap(j)
  <2>1. TypeOK /\ (disk' = disk \/ disk' = [disk EXCEPT ![j].staging = FALSE])
    BY <1>3 DEF OutcomeInv, CancelInv, TypeInv, FinishFails, Cleanup, Reap
  <2>2. Unseen(j)
    <3>1. CASE disk' = disk
      BY <3>1 DEF Unseen
    <3>2. CASE disk' = [disk EXCEPT ![j].staging = FALSE]
      BY <2>1, <3>2 DEF TypeOK, DiskOK, Unseen
    <3> QED
      BY <2>1, <3>1, <3>2
  <2> QED
    BY <1>3, <2>2, TailKeeps DEF Shown
<1> QED
  BY <1>1, <1>2, <1>3, RunnerMoves, SpawnedStep, OpenIsShown DEF Runner

LEMMA FilesAreShown ==
  ASSUME OutcomeInv,
         \/ \E i \in {1, 2} : MakeDirectory(i) \/ QueueJob(i)
         \/ \E j \in Jobs : RecoverRefuses(j) \/ RecoverClosed(j) \/ RecoverOpen(j)
  PROVE  \E j \in Jobs : Shown(j) /\ \A k \in Jobs \ {j} : Unseen(k)
<1>1. TypeOK /\ \A j \in Jobs : EndInv(j)
  BY DEF OutcomeInv, CancelInv, TypeInv
<1> USE DEF TypeOK, DiskOK
<1>2. ASSUME NEW i \in {1, 2}, MakeDirectory(i) \/ QueueJob(i)
      PROVE  \E j \in Jobs : Shown(j) /\ \A k \in Jobs \ {j} : Unseen(k)
  <2> DEFINE e == StatusEvent("queued", 0)
  <2>1. PICK j \in Jobs : j = booking[i] /\ disk[j].dir # "made"
    BY <1>1, <1>2, BookedIsJob DEF MakeDirectory, QueueJob, IsNext
  <2>2. CASE MakeDirectory(i)
    <3>1. disk' = [disk EXCEPT ![j].dir = "partial"]
      BY <2>1, <2>2 DEF MakeDirectory
    <3>2. \A k \in Jobs : Unseen(k)
      BY <1>1, <3>1 DEF Unseen
    <3> QED
      BY <2>1, <3>2 DEF Shown
  <2>3. CASE QueueJob(i)
    <3>1. disk' = [disk EXCEPT ![j].dir = "made", ![j].log = <<e>>]
      BY <2>1, <2>3 DEF QueueJob
    <3>2. Len(<<e>>) = 1 /\ <<e>>[1] = e /\ Len(<<>>) = 0 /\ e.kind = "status"
      BY DEF StatusEvent
    <3> HIDE DEF e
    <3>3. <<e>> # <<>> /\ ~IsClosed(<<e>>)
      BY <3>2 DEF IsClosed
    <3>4. disk[j].log = <<>>
      BY <1>1, <2>1 DEF EndInv, Uncreated
    <3>5. disk'[j].log = <<e>> /\ disk'[j].archive = disk[j].archive
      BY <1>1, <2>1, <3>1
    <3>6. Shown(j)
      BY <3>3, <3>4, <3>5 DEF Shown, RecordedOutcome, Log
    <3>7. \A k \in Jobs \ {j} : Unseen(k)
      BY <1>1, <2>1, <3>1 DEF Unseen
    <3> QED
      BY <2>1, <3>6, <3>7
  <2> QED
    BY <1>2, <2>2, <2>3
<1>3. ASSUME NEW j \in Jobs, RecoverRefuses(j) \/ RecoverClosed(j)
      PROVE  Shown(j) /\ \A k \in Jobs \ {j} : Unseen(k)
  <2>1. disk' = disk \/ \E f \in {[disk[j] EXCEPT !.staging = FALSE], Tidied(j)} :
                          disk' = [disk EXCEPT ![j] = f]
    BY <1>3 DEF RecoverRefuses, RecoverClosed
  <2>2. \A k \in Jobs : Unseen(k)
    <3>1. CASE disk' = disk
      BY <3>1 DEF Unseen
    <3>2. ASSUME NEW f \in {[disk[j] EXCEPT !.staging = FALSE], Tidied(j)},
                 disk' = [disk EXCEPT ![j] = f]
          PROVE  \A k \in Jobs : Unseen(k)
      <4>1. f.log = disk[j].log /\ f.archive = disk[j].archive
        BY <1>1 DEF Tidied
      <4> QED
        BY <1>1, <3>2, <4>1 DEF Unseen
    <3> QED
      BY <2>1, <3>1, <3>2
  <2> QED
    BY <2>2 DEF Shown
<1>4. ASSUME NEW j \in Jobs, RecoverOpen(j)
      PROVE  Shown(j) /\ \A k \in Jobs \ {j} : Unseen(k)
  <2>1. /\ disk[j].log # <<>> /\ ~IsClosed(disk[j].log)
        /\ disk' = [disk EXCEPT ![j] = Emptied(j)]
    BY <1>4 DEF RecoverOpen, Acceptable, Legible, ValidHistory
  <2>2. disk'[j].log = disk[j].log /\ \A k \in Jobs \ {j} : Unseen(k)
    BY <1>1, <2>1 DEF Emptied, Unseen
  <2> QED
    BY <2>1, <2>2 DEF Shown, RecordedOutcome, Log
<1> QED
  BY <1>2, <1>3, <1>4

LEMMA PromiseSteps ==
  ASSUME OutcomeInv, OutcomeInv', [Next]_vars PROVE PromiseStep
<1>1. TypeOK /\ TypeOK'
  BY DEF OutcomeInv, CancelInv, TypeInv
<1>2. ASSUME NEW j \in Jobs, StepOf(j), Shown(j) PROVE PromiseStep
  <2>1. \A k \in Jobs \ {j} : Unseen(k)
    BY <1>2 DEF StepOf, Still, Unseen
  <2> QED
    BY <1>1, <1>2, <2>1, ShownSteps
<1>3. ASSUME \A k \in Jobs : Unseen(k) PROVE PromiseStep
  BY <1>3 DEF PromiseStep, Unseen, RecordedOutcome, Log
<1>4. ASSUME NEW j \in Jobs, Still(j) PROVE Shown(j)
  BY <1>4 DEF Still, Shown, Unseen
<1>5. CASE UNCHANGED vars
  BY <1>3, <1>5 DEF vars, Unseen
<1>6. ASSUME NEW j \in Jobs, Runner(j) \/ Reader(j) \/ SpawnedFails(j) \/ FinishFails(j)
      PROVE  PromiseStep
  BY <1>2, <1>4, <1>6, RunnerIsShown, ReaderStep, OpenIsShown
<1>7. ASSUME NEW j \in Jobs, Thread(j) \/ Environment(j) PROVE PromiseStep
  BY <1>3, <1>7, EnvironmentStill DEF Still, Unseen
<1>8. ASSUME NEW j \in Jobs, Cancel(j) PROVE PromiseStep
  BY <1>2, <1>8, CancelStep, OpenIsShown DEF Cancel
<1>9. CASE \/ Crash \/ Restart \/ Recovered \/ CreationFails
           \/ \E call \in Calls : Start(call)
           \/ \E j \in Jobs : CancelFails(j) \/ ReadFails(j)
  BY <1>3, <1>9 DEF Crash, Restart, Recovered, CreationFails, Start, CancelFails, ReadFails, Unseen
<1>10. CASE Shutdown
  BY <1>1, <1>3, <1>10 DEF TypeOK, DiskOK, Shutdown, Unseen
<1>12. CASE CutShort
  <2>1. PICK j \in Jobs, f \in BOOLEAN : disk' = [disk EXCEPT ![j].staging = f]
    <3>1. PICK j \in Jobs, file \in TornFile : CutWrite(j, file)
      BY <1>12 DEF CutShort
    <3>2. (disk[j].staging /\ pc[j] # "recover") \in BOOLEAN
      OBVIOUS
    <3> QED
      BY <3>1, <3>2 DEF CutWrite
  <2> QED
    BY <1>1, <1>3, <2>1 DEF TypeOK, DiskOK, Unseen
<1>11. CASE \/ Creation
            \/ \E j \in Jobs : RecoverRefuses(j) \/ RecoverClosed(j) \/ RecoverOpen(j)
  BY <1>1, <1>11, FilesAreShown, ShownSteps DEF Creation
<1> QED
  BY <1>5, <1>6, <1>7, <1>8, <1>9, <1>10, <1>11, <1>12 DEF Next, Client, DiskFault, Recovery

\* Every run of the supervisor, with its crashes, restarts, cancels and failed writes, is
\* one JobOutcome allows: an outcome is recorded once, and the archive published for good
\* exactly for a completed job.
THEOREM SupervisorKeepsPromise == Spec => KeepsPromise
<1>1. Init => Promise!Init
  BY DEF Init, Promise!Init, RecordedOutcome, Log, NoFiles
<1>2. OutcomeInv /\ OutcomeInv' /\ [Next]_vars => PromiseStep
  BY PromiseSteps
<1> QED
  BY <1>1, <1>2, OutcomeInvAlways, PTL DEF Spec, KeepsPromise, Promise!Spec, PromiseStep
=============================================================================
