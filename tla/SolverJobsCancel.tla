-------------------------- MODULE SolverJobsCancel --------------------------
(***************************************************************************)
(* The types of SolverJobs, and that an accepted cancel wins, for every    *)
(* set of jobs, every set of calls and every bound.                        *)
(***************************************************************************)
EXTENDS SolverJobs, TLAPS

-----------------------------------------------------------------------------
(***************************************************************************)
(* TypeOK is not inductive: the terminal event and terminal.json take the  *)
(* outcome the runner has chosen, so a runner must have chosen one         *)
(* (GoalChosen) wherever it can still reach them.                          *)
(***************************************************************************)
GoalChosen(j) ==
  pc[j] \in {"stopping", "settling", "discard", "fin_event", "fin_meta"} => goal[j] # "none"

TypeInv == TypeOK /\ \A j \in Jobs : GoalChosen(j)

\* The constants the types are made of.
MemRec == [status: JobStatus \cup {"unknown"}, count: Nat, cancelReq: BOOLEAN]
ReaderStates == {"off", "reading", "done", "error", "cancelled"}

-----------------------------------------------------------------------------
\* The jobs of a call are jobs.
LEMMA CallsNameJobs == \A call \in Calls \cup {<<>>} : InCall(call) \subseteq Jobs
BY CallsAssumption DEF InCall

\* So are the jobs of the call in progress.
LEMMA BookedIsJob ==
  ASSUME booking \in Calls \cup {<<>>}, NEW i \in DOMAIN booking PROVE booking[i] \in Jobs
BY CallsNameJobs DEF InCall

\* Every event the service writes has the shape of a JobEvent.
LEMMA EventTypes ==
  ASSUME NEW n \in Nat, NEW b \in Nat
  PROVE  /\ \A s \in {"queued", "running", "cancelling"} : StatusEvent(s, n) \in JobEvent
         /\ PhaseEvent \in JobEvent
         /\ CandidateEvent(n) \in JobEvent
         /\ \A s \in Terminal :
              TerminalEvent(s, n, IF s = "completed" THEN b ELSE 0) \in JobEvent
BY DEF StatusEvent, PhaseEvent, CandidateEvent, TerminalEvent, JobEvent, JobStatus, EventKind,
       Terminal

\* Field by field, an update keeps each of the three tables in its type.
LEMMA MemUpdate ==
  ASSUME mem \in MemOK, NEW j \in Jobs, NEW s \in JobStatus
  PROVE  /\ [mem EXCEPT ![j].status = s] \in MemOK
         /\ \A n \in Nat : [mem EXCEPT ![j].count = n, ![j].status = s] \in MemOK
         /\ \A n \in Nat : [mem EXCEPT ![j].count = n] \in MemOK
         /\ [mem EXCEPT ![j].status = s, ![j].cancelReq = TRUE] \in MemOK
         /\ \A r \in MemRec : [mem EXCEPT ![j] = r] \in MemOK
BY DEF MemOK, MemRec

LEMMA ReaderUpdate ==
  ASSUME reader \in ReaderOK, NEW j \in Jobs
  PROVE  /\ \A s \in ReaderStates :
              /\ [reader EXCEPT ![j].state = s] \in ReaderOK
              /\ [reader EXCEPT ![j].state = s, ![j].pending = FALSE] \in ReaderOK
         /\ [reader EXCEPT ![j].phase = TRUE] \in ReaderOK
         /\ \A p \in BOOLEAN : [reader EXCEPT ![j].pending = p] \in ReaderOK
         /\ [reader EXCEPT ![j].outcome = "failure"] \in ReaderOK
         /\ \A n \in Nat :
              [reader EXCEPT ![j].outcome = "result", ![j].batch = n, ![j].pending = FALSE]
                \in ReaderOK
         /\ [reader EXCEPT ![j] = NoReader] \in ReaderOK
<1>1. \A s \in ReaderStates :
        /\ [reader EXCEPT ![j].state = s] \in ReaderOK
        /\ [reader EXCEPT ![j].state = s, ![j].pending = FALSE] \in ReaderOK
  BY DEF ReaderOK, ReaderStates
<1>2. /\ [reader EXCEPT ![j].phase = TRUE] \in ReaderOK
      /\ \A p \in BOOLEAN : [reader EXCEPT ![j].pending = p] \in ReaderOK
  BY DEF ReaderOK
<1>3. [reader EXCEPT ![j].outcome = "failure"] \in ReaderOK
  BY DEF ReaderOK
<1>4. ASSUME NEW n \in Nat
      PROVE  [reader EXCEPT ![j].outcome = "result", ![j].batch = n, ![j].pending = FALSE]
               \in ReaderOK
  <2> DEFINE r == [reader[j] EXCEPT !.outcome = "result", !.batch = n, !.pending = FALSE]
  <2>1. [reader EXCEPT ![j].outcome = "result", ![j].batch = n, ![j].pending = FALSE]
          = [reader EXCEPT ![j] = r]
    BY DEF ReaderOK
  <2>2. [reader EXCEPT ![j] = r] \in ReaderOK
    BY DEF ReaderOK
  <2> QED
    BY <2>1, <2>2
<1>5. [reader EXCEPT ![j] = NoReader] \in ReaderOK
  BY DEF ReaderOK, NoReader
<1> QED
  BY <1>1, <1>2, <1>3, <1>4, <1>5

LEMMA DiskUpdate ==
  ASSUME disk \in DiskOK, NEW j \in Jobs
  PROVE  /\ [disk EXCEPT ![j].dir = "partial"] \in DiskOK
         /\ \A l \in Seq(JobEvent) :
              /\ [disk EXCEPT ![j].dir = "made", ![j].log = l] \in DiskOK
              /\ [disk EXCEPT ![j].log = l] \in DiskOK
         /\ \A t \in Terminal :
              /\ [disk EXCEPT ![j].terminal = t] \in DiskOK
              /\ [disk EXCEPT ![j] = [disk[j] EXCEPT !.staging = FALSE, !.terminal = t]] \in DiskOK
         /\ \A b \in BOOLEAN :
              /\ [disk EXCEPT ![j].staging = b] \in DiskOK
              /\ [disk EXCEPT ![j].archive = b] \in DiskOK
              /\ [disk EXCEPT ![j].staging = FALSE, ![j].archive = b] \in DiskOK
         /\ [disk EXCEPT ![j] = [disk[j] EXCEPT !.archive = FALSE, !.staging = FALSE]] \in DiskOK
<1>1. [disk EXCEPT ![j].dir = "partial"] \in DiskOK
  BY DEF DiskOK
<1>2. ASSUME NEW l \in Seq(JobEvent)
      PROVE  /\ [disk EXCEPT ![j].dir = "made", ![j].log = l] \in DiskOK
             /\ [disk EXCEPT ![j].log = l] \in DiskOK
  BY DEF DiskOK
<1>3. ASSUME NEW t \in Terminal
      PROVE  /\ [disk EXCEPT ![j].terminal = t] \in DiskOK
             /\ [disk EXCEPT ![j] = [disk[j] EXCEPT !.staging = FALSE, !.terminal = t]] \in DiskOK
  BY DEF DiskOK
<1>4. ASSUME NEW b \in BOOLEAN
      PROVE  /\ [disk EXCEPT ![j].staging = b] \in DiskOK
             /\ [disk EXCEPT ![j].archive = b] \in DiskOK
             /\ [disk EXCEPT ![j].staging = FALSE, ![j].archive = b] \in DiskOK
  BY DEF DiskOK
<1>5. [disk EXCEPT ![j] = [disk[j] EXCEPT !.archive = FALSE, !.staging = FALSE]] \in DiskOK
  BY DEF DiskOK
<1> QED
  BY <1>1, <1>2, <1>3, <1>4, <1>5

\* The staged archives that a shutdown leaves.
LEMMA StagingsUpdate ==
  ASSUME disk \in DiskOK, NEW b \in [Jobs -> BOOLEAN]
  PROVE  [j \in Jobs |-> [disk[j] EXCEPT !.staging = b[j]]] \in DiskOK
BY DEF DiskOK

LEMMA FieldTypes ==
  ASSUME TypeOK, NEW j \in Jobs
  PROVE  /\ mem[j].count \in Nat /\ mem[j].cancelReq \in BOOLEAN
         /\ reader[j].batch \in Nat /\ reader[j].state \in ReaderStates
         /\ disk[j].log \in Seq(JobEvent)
         /\ disk[j].staging \in BOOLEAN /\ disk[j].archive \in BOOLEAN
BY DEF TypeOK, MemOK, ReaderOK, DiskOK, ReaderStates

\* Appending an event keeps both tables in their types.
LEMMA AppendTypes ==
  ASSUME TypeOK, NEW j \in Jobs, NEW e \in JobEvent
  PROVE  /\ [disk EXCEPT ![j].log = Append(@, e)] \in DiskOK
         /\ AppendEvent(j, e) => mem' \in MemOK /\ disk' \in DiskOK
<1>1. Append(disk[j].log, e) \in Seq(JobEvent)
  BY FieldTypes
<1>2. e.status \in JobStatus
  BY DEF JobEvent
<1>3. [disk EXCEPT ![j].log = Append(@, e)] \in DiskOK
  BY <1>1, DiskUpdate DEF TypeOK
<1>4. [mem EXCEPT ![j].status = e.status] \in MemOK
  BY <1>2, MemUpdate DEF TypeOK
<1> QED
  BY <1>3, <1>4 DEF AppendEvent

\* So does a write that fails.
LEMMA FailTypes ==
  ASSUME TypeOK, NEW j \in Jobs, NEW file \in TornFile
  PROVE  /\ Tears(j, file) => torn' \in [Jobs -> SUBSET TornFile]
         /\ Fails(j, file) => torn' \in [Jobs -> SUBSET TornFile] /\ faults' \in 0..MaxFaults
BY BoundsAssumption DEF TypeOK, Tears, Fails, Fault

-----------------------------------------------------------------------------
\* Steps that leave the three tables alone.
LEMMA ControlStepTypes ==
  ASSUME TypeOK, UNCHANGED <<mem, reader, disk>>, NEW j \in Jobs,
         \/ Begin(j) \/ SpawnInterrupted(j) \/ StopSpawned(j) \/ SpawnFailed(j)
         \/ RunCancelled(j) \/ RunTimedOut(j) \/ RunProtocolError(j)
         \/ StopDone(j) \/ RunDrained(j) \/ ArchiveGivenUp(j)
  PROVE  TypeOK'
<1> USE DEF TypeOK, Goto, Finish, StopThen, Kill, Fault, EarlyStatus, Terminal,
        PC, Await, NoAwait, WorkerState, Alive, ThreadState, Staging, taskVars, osVars, damage
<1>1. CASE Begin(j) BY <1>1 DEF Begin
<1>2. CASE SpawnInterrupted(j) BY <1>2 DEF SpawnInterrupted
<1>3. CASE StopSpawned(j) BY <1>3 DEF StopSpawned
<1>4. CASE SpawnFailed(j) BY <1>4 DEF SpawnFailed
<1>6. CASE RunCancelled(j) BY <1>6 DEF RunCancelled
<1>7. CASE RunTimedOut(j) BY <1>7 DEF RunTimedOut
<1>8. CASE RunProtocolError(j) BY <1>8 DEF RunProtocolError
<1>9. CASE StopDone(j) BY <1>9 DEF StopDone
<1>10. CASE RunDrained(j) BY <1>10 DEF RunDrained
<1>11. CASE ArchiveGivenUp(j) BY <1>11 DEF ArchiveGivenUp
<1> QED
  BY <1>1, <1>2, <1>3, <1>4, <1>6, <1>7, <1>8, <1>9, <1>10, <1>11

LEMMA EnvironmentStepTypes ==
  ASSUME TypeOK, NEW j \in Jobs, Environment(j) \/ Thread(j)
  PROVE  TypeOK'
<1> USE DEF TypeOK, WorkerState, Alive, ThreadState, Staging, taskVars, osVars, damage
<1>1. CASE Expire(j) BY <1>1 DEF Expire
<1>2. CASE SpawnEnds(j) BY <1>2 DEF SpawnEnds
<1>3. CASE WorkerExits(j) BY <1>3 DEF WorkerExits
<1>4. CASE KinExits(j) BY <1>4 DEF KinExits
<1>9. CASE SpawnDropped(j) BY <1>9 DEF SpawnDropped
<1>5. CASE ThreadStages(j) BY <1>5, DiskUpdate DEF ThreadStages, threadFrame
<1>6. CASE ThreadFails(j) BY <1>6 DEF ThreadFails, threadFrame
<1>7. CASE ThreadChecks(j) BY <1>7 DEF ThreadChecks, threadFrame
<1>8. CASE ThreadDiscards(j) BY <1>8, DiskUpdate DEF ThreadDiscards, threadFrame
<1> QED
  BY <1>1, <1>2, <1>3, <1>4, <1>5, <1>6, <1>7, <1>8, <1>9
     DEF Environment, Thread

\* Steps of the runner that write a file or touch the tables.
LEMMA RunnerStepTypes ==
  ASSUME TypeInv, NEW j \in Jobs, Runner(j)
  PROVE  TypeOK'
<1> USE DEF TypeInv, TypeOK, Goto, Finish, taskVars, osVars, damage
<1>1. CASE Spawned(j)
  <2>1. mem' \in MemOK /\ disk' \in DiskOK
    <3>1. StatusEvent("running", 0) \in JobEvent
      BY EventTypes
    <3> QED BY <1>1, <3>1, AppendTypes DEF Spawned
  <2>2. reader' \in ReaderOK
    BY <1>1, ReaderUpdate DEF Spawned, ReaderStates
  <2> QED
    BY <1>1, <2>1, <2>2 DEF Spawned, StopThen, Kill, PC, Await, NoAwait, WorkerState, Alive, Terminal
<1>2. CASE SettleDone(j)
  <2>1. (IF reader[j].state = "reading" THEN "cancelled" ELSE reader[j].state) \in ReaderStates
    BY FieldTypes DEF ReaderStates
  <2>2. reader' \in ReaderOK
    BY <1>2, <2>1, ReaderUpdate DEF SettleDone
  <2> QED
    BY <1>2, <2>2 DEF SettleDone, PC, NoAwait
<1>3. CASE Discard(j)
  <2>1. disk' \in DiskOK
    BY <1>3, DiskUpdate DEF Discard
  <2> QED
    BY <1>3, <2>1 DEF Discard, PC, NoAwait, Terminal
<1>4. CASE ArchiveFailed(j)
  <2>1. disk' \in DiskOK
    BY <1>4, DiskUpdate DEF ArchiveFailed
  <2> QED
    BY <1>4, <2>1 DEF ArchiveFailed, PC, NoAwait, Terminal
<1>5. CASE ArchiveRename(j)
  <2>1. disk' \in DiskOK
    BY <1>5, DiskUpdate DEF ArchiveRename
  <2> QED
    BY <1>5, <2>1 DEF ArchiveRename, PC, NoAwait
<1>6. CASE Commit(j)
  <2>1. disk' = disk \/ disk' = [disk EXCEPT ![j].archive = FALSE]
    BY <1>6 DEF Commit
  <2>2. disk' \in DiskOK
    BY <2>1, DiskUpdate
  <2> QED
    BY <1>6, <2>2 DEF Commit, PC, NoAwait, Terminal
<1>7. CASE FinishEvent(j)
  <2>1. goal[j] \in Terminal
    BY <1>7 DEF FinishEvent, GoalChosen
  <2>2. TerminalEvent(goal[j], mem[j].count, IF goal[j] = "completed" THEN reader[j].batch ELSE 0)
          \in JobEvent
    BY <2>1, FieldTypes, EventTypes
  <2>3. mem' \in MemOK /\ disk' \in DiskOK
    BY <1>7, <2>2, AppendTypes DEF FinishEvent
  <2>4. reader' \in ReaderOK
    BY <1>7, ReaderUpdate DEF FinishEvent, LocalsDropped
  <2> QED
    BY <1>7, <2>3, <2>4 DEF FinishEvent, LocalsDropped, PC, NoAwait
<1>8. CASE FinishMeta(j)
  <2>1. goal[j] \in Terminal
    BY <1>8 DEF FinishMeta, GoalChosen
  <2>2. disk' \in DiskOK
    BY <1>8, <2>1, DiskUpdate DEF FinishMeta
  <2> QED
    BY <1>8, <2>2 DEF FinishMeta, PC, NoAwait
<1>9. CASE Cleanup(j)
  <2>1. disk' \in DiskOK
    BY <1>9, DiskUpdate DEF Cleanup
  <2> QED
    BY <1>9, <2>1 DEF Cleanup, PC, Await
<1>10. CASE Reap(j)
  <2>1. reader' \in ReaderOK
    BY <1>10, ReaderUpdate DEF Reap
  <2> QED
    BY <1>10, <2>1 DEF Reap, Kill, PC, WorkerState
<1>11. CASE \/ Begin(j) \/ SpawnInterrupted(j) \/ StopSpawned(j) \/ SpawnFailed(j)
            \/ RunCancelled(j) \/ RunTimedOut(j) \/ RunProtocolError(j)
            \/ StopDone(j) \/ RunDrained(j) \/ ArchiveGivenUp(j)
  <2>1. UNCHANGED <<mem, reader, disk>>
    BY <1>11 DEF Begin, SpawnInterrupted, StopSpawned, SpawnFailed, RunCancelled, RunTimedOut,
                 RunProtocolError, StopDone, RunDrained, ArchiveGivenUp
  <2> QED
    BY <1>11, <2>1, ControlStepTypes
<1> QED
  BY <1>1, <1>2, <1>3, <1>4, <1>5, <1>6, <1>7, <1>8, <1>9, <1>10, <1>11 DEF Runner

LEMMA ReaderStepTypes ==
  ASSUME TypeOK, NEW j \in Jobs, Reader(j)
  PROVE  TypeOK'
<1> USE DEF TypeOK, readerFrame, taskVars, osVars, damage
<1>1. ASSUME NEW n \in Nat PROVE CandidateEvent(n) \in JobEvent /\ CandidateEvent(n).status \in JobStatus
  BY EventTypes DEF CandidateEvent, JobStatus
<1>2. ASSUME Flush(j) PROVE mem' \in MemOK /\ disk' \in DiskOK
  BY <1>1, <1>2, FieldTypes, AppendTypes DEF Flush
<1>3. CASE ReadPhase(j)
  <2>1. PhaseEvent \in JobEvent
    BY EventTypes
  <2>2. mem' \in MemOK /\ disk' \in DiskOK
    BY <1>3, <2>1, AppendTypes DEF ReadPhase
  <2>3. reader' \in ReaderOK
    BY <1>3, ReaderUpdate DEF ReadPhase
  <2> QED
    BY <1>3, <2>2, <2>3 DEF ReadPhase
<1>4. CASE ReadCandidate(j)
  <2> DEFINE n == mem[j].count + 1
  <2>1. n \in Nat
    BY FieldTypes
  <2>2. [mem EXCEPT ![j].count = n, ![j].status = "running"] \in MemOK
    BY <2>1, MemUpdate DEF JobStatus
  <2>3. [mem EXCEPT ![j].count = n] \in MemOK
    BY <2>1, MemUpdate DEF JobStatus
  <2>4. mem' \in MemOK
    BY <1>4, <2>2, <2>3 DEF ReadCandidate
  <2>5. disk' \in DiskOK
    <3>1. CandidateEvent(n) \in JobEvent
      BY <1>1, <2>1
    <3>2. [disk EXCEPT ![j].log = Append(@, CandidateEvent(n))] \in DiskOK
      BY <3>1, AppendTypes
    <3> QED BY <1>4, <3>2 DEF ReadCandidate
  <2>6. reader' \in ReaderOK
    BY <1>4, ReaderUpdate DEF ReadCandidate
  <2> QED
    BY <1>4, <2>4, <2>5, <2>6 DEF ReadCandidate
<1>5. ASSUME NEW n \in 0..MaxCandidates, ReadComplete(j, n) PROVE TypeOK'
  <2>1. n \in Nat
    BY <1>5, BoundsAssumption
  <2>2. [reader EXCEPT ![j].outcome = "result", ![j].batch = n, ![j].pending = FALSE] \in ReaderOK
    BY <2>1, ReaderUpdate
  <2>3. reader' \in ReaderOK
    BY <1>5, <2>2 DEF ReadComplete
  <2> QED
    BY <1>2, <1>5, <2>3 DEF ReadComplete
<1>6. CASE ReadFailure(j)
  BY <1>6, ReaderUpdate DEF ReadFailure
<1>7. CASE ReadInvalid(j)
  BY <1>7, ReaderUpdate DEF ReadInvalid, ReaderStates
<1>8. CASE ReadEOF(j)
  <2>1. (IF reader[j].phase THEN "done" ELSE "error") \in ReaderStates
    BY DEF ReaderStates
  <2>2. reader' \in ReaderOK
    BY <1>8, <2>1, ReaderUpdate DEF ReadEOF
  <2> QED
    BY <1>2, <1>8, <2>2 DEF ReadEOF
<1> QED
  BY <1>3, <1>4, <1>5, <1>6, <1>7, <1>8 DEF Reader

LEMMA CallStepTypes ==
  ASSUME TypeInv, Client \/ Creation \/ DiskFault
  PROVE  TypeOK'
<1> USE DEF TypeInv, TypeOK, Fault, taskVars, osVars, damage
<1>1. ASSUME NEW call \in Calls, Start(call) PROVE TypeOK'
  BY <1>1 DEF Start
<1>2. ASSUME NEW j \in Jobs, Cancel(j) PROVE TypeOK'
  <2>1. StatusEvent("cancelling", mem[j].count) \in JobEvent
    BY FieldTypes, EventTypes
  <2>2. disk' \in DiskOK
    BY <1>2, <2>1, AppendTypes DEF Cancel
  <2>3. mem' \in MemOK
    BY <1>2, MemUpdate DEF Cancel, JobStatus
  <2> QED
    BY <1>2, <2>2, <2>3 DEF Cancel
<1>3. ASSUME NEW i \in {1, 2}, MakeDirectory(i) PROVE TypeOK'
  BY <1>3, BookedIsJob, DiskUpdate DEF MakeDirectory, IsNext
<1>4. ASSUME NEW i \in {1, 2}, QueueJob(i) PROVE TypeOK'
  <2> DEFINE j == booking[i]
  <2>1. j \in Jobs
    BY <1>4, BookedIsJob DEF QueueJob, IsNext
  <2>2. <<StatusEvent("queued", 0)>> \in Seq(JobEvent)
    BY EventTypes
  <2>3. disk' \in DiskOK
    BY <1>4, <2>1, <2>2, DiskUpdate DEF QueueJob
  <2>4. mem' \in MemOK
    BY <1>4, <2>1, MemUpdate DEF QueueJob, JobStatus
  <2>5. pc' \in [Jobs -> PC]
    BY <1>4 DEF QueueJob, PC, Await
  <2>6. active' \in SUBSET Jobs /\ booking' \in Calls \cup {<<>>}
    BY <1>4, CallsNameJobs DEF QueueJob
  <2> QED
    BY <1>4, <2>3, <2>4, <2>5, <2>6 DEF QueueJob
<1>5. CASE CreationFails
  BY <1>5, BoundsAssumption DEF CreationFails
<1>6. ASSUME NEW j \in Jobs, CancelFails(j) PROVE TypeOK'
  <2>1. mem' \in MemOK
    BY <1>6, MemUpdate DEF CancelFails, JobStatus
  <2>2. torn' \in [Jobs -> SUBSET TornFile] /\ faults' \in 0..MaxFaults
    BY <1>6, FailTypes DEF CancelFails, TornFile
  <2> QED
    BY <1>6, <2>1, <2>2 DEF CancelFails
<1>7. ASSUME NEW j \in Jobs, SpawnedFails(j) PROVE TypeOK'
  <2>4. mem' = mem \/ mem' = [mem EXCEPT ![j].status = "running"]
    BY <1>7 DEF SpawnedFails
  <2>5. "running" \in JobStatus
    BY DEF JobStatus
  <2>1. mem' \in MemOK
    BY <2>4, <2>5, MemUpdate
  <2>2. torn' \in [Jobs -> SUBSET TornFile] /\ faults' \in 0..MaxFaults
    BY <1>7, FailTypes DEF SpawnedFails, TornFile
  <2>3. pc' \in [Jobs -> PC] /\ goal' \in [Jobs -> Terminal \cup {"none"}]
    BY <1>7 DEF SpawnedFails, StopThen, Finish, Goto, PC, Await, NoAwait, Terminal
  <2> QED
    BY <1>7, <2>1, <2>2, <2>3 DEF SpawnedFails
<1>8. ASSUME NEW j \in Jobs, FinishFails(j) PROVE TypeOK'
  <2>1. goal[j] \in Terminal
    BY <1>8 DEF FinishFails, GoalChosen
  <2>2. mem' \in MemOK
    BY <1>8, <2>1, MemUpdate DEF FinishFails, JobStatus
  <2>3. reader' \in ReaderOK
    BY <1>8, ReaderUpdate DEF FinishFails, LocalsDropped
  <2>4. torn' \in [Jobs -> SUBSET TornFile] /\ faults' \in 0..MaxFaults
    BY <1>8, FailTypes DEF FinishFails, TornFile
  <2> QED
    BY <1>8, <2>2, <2>3, <2>4 DEF FinishFails, LocalsDropped, Goto, PC, NoAwait
<1>9. ASSUME NEW j \in Jobs, ReadFails(j) PROVE TypeOK'
  <2>1. mem[j].count + 1 \in Nat
    BY FieldTypes
  <2>2. mem' \in MemOK
    <3>1. mem' = mem \/ mem' = [mem EXCEPT ![j].count = mem[j].count + 1]
      BY <1>9 DEF ReadFails
    <3>2. \A n \in Nat : [mem EXCEPT ![j].count = n] \in MemOK
      BY MemUpdate DEF JobStatus
    <3> QED
      BY <2>1, <3>1, <3>2
  <2>3. reader' \in ReaderOK
    BY <1>9, ReaderUpdate DEF ReadFails, ReaderStates
  <2>4. torn' \in [Jobs -> SUBSET TornFile] /\ faults' \in 0..MaxFaults
    BY <1>9, FailTypes DEF ReadFails, TornFile
  <2> QED
    BY <1>9, <2>2, <2>3, <2>4 DEF ReadFails
<1> QED
  BY <1>1, <1>2, <1>3, <1>4, <1>5, <1>6, <1>7, <1>8, <1>9 DEF Client, Creation, DiskFault

LEMMA RestartStepTypes ==
  ASSUME TypeOK, Crash \/ CutShort \/ Shutdown \/ Recovery
  PROVE  TypeOK'
<1> USE DEF TypeOK, taskVars, osVars, damage
<1>1. ASSUME MemoryLost, worker' \in [Jobs -> WorkerState], disk' \in DiskOK,
             torn' \in [Jobs -> SUBSET TornFile]
      PROVE  TypeOK'
  <2>1. mem' \in MemOK
    BY <1>1 DEF MemoryLost, MemOK, Unknown
  <2>2. reader' \in ReaderOK
    BY <1>1 DEF MemoryLost, ReaderOK, NoReader
  <2> QED
    BY <1>1, <2>1, <2>2, BoundsAssumption DEF MemoryLost, PC, ThreadState
<1>2. CASE Crash
  BY <1>1, <1>2 DEF Crash
<1>10. ASSUME NEW j \in Jobs, NEW file \in TornFile, CutWrite(j, file) PROVE TypeOK'
  <2>1. (disk[j].staging /\ pc[j] # "recover") \in BOOLEAN
    OBVIOUS
  <2>2. disk' \in DiskOK
    BY <1>10, <2>1, DiskUpdate DEF CutWrite
  <2> QED
    BY <1>1, <1>10, <2>2, FailTypes DEF CutWrite
<1>3. CASE Shutdown
  <2>1. worker' \in [Jobs -> WorkerState]
    BY <1>3 DEF Shutdown, WorkerState, Alive
  <2>2. disk' \in DiskOK
    <3>1. PICK kept \in SUBSET Jobs :
            disk' = [j \in Jobs |-> [disk[j] EXCEPT !.staging =
                       disk[j].staging /\ (pc[j] \in Await => j \in kept)]]
      BY <1>3 DEF Shutdown
    <3> DEFINE b == [j \in Jobs |-> disk[j].staging /\ (pc[j] \in Await => j \in kept)]
    <3>2. b \in [Jobs -> BOOLEAN]
      OBVIOUS
    <3>3. disk' = [j \in Jobs |-> [disk[j] EXCEPT !.staging = b[j]]]
      BY <3>1
    <3> HIDE DEF b, TypeOK
    <3> QED
      BY <3>2, <3>3, StagingsUpdate DEF TypeOK
  <2> QED
    BY <1>1, <1>3, <2>1, <2>2 DEF Shutdown
<1>4. CASE Restart
  BY <1>4 DEF Restart, PC
<1>5. CASE Recovered
  BY <1>5 DEF Recovered
<1>6. ASSUME NEW j \in Jobs, RecoverRefuses(j) PROVE TypeOK'
  <2>1. disk' \in DiskOK
    BY <1>6, DiskUpdate DEF RecoverRefuses
  <2> QED
    BY <1>6, <2>1 DEF RecoverRefuses, PC
<1>7. ASSUME NEW j \in Jobs, RecoverClosed(j) \/ RecoverOpen(j)
      PROVE  mem' \in MemOK /\ disk[j].log[Len(disk[j].log)] \in JobEvent
  <2>1. disk[j].log # <<>> /\ mem' = [mem EXCEPT ![j] = Recalled(j)]
    BY <1>7 DEF RecoverClosed, RecoverOpen, Acceptable, Legible, ValidHistory
  <2>2. disk[j].log[Len(disk[j].log)] \in JobEvent
    BY <2>1, FieldTypes
  <2>3. Recalled(j) \in MemRec
    BY <2>2 DEF Recalled, MemRec, JobEvent
  <2>4. mem' \in MemOK
    BY <2>1, <2>3, MemUpdate DEF JobStatus
  <2> QED
    BY <2>2, <2>4
<1>8. ASSUME NEW j \in Jobs, RecoverClosed(j) PROVE TypeOK'
  <2>1. Outcome(disk[j].log) \in Terminal
    BY <1>7, <1>8 DEF RecoverClosed, IsClosed, Outcome, JobEvent
  <2>2. disk' \in DiskOK
    BY <1>8, <2>1, DiskUpdate DEF RecoverClosed, Tidied
  <2> QED
    BY <1>7, <1>8, <2>2 DEF RecoverClosed, Goto, PC
<1>9. ASSUME NEW j \in Jobs, RecoverOpen(j) PROVE TypeOK'
  <2>1. disk' \in DiskOK
    BY <1>9, DiskUpdate DEF RecoverOpen, Emptied
  <2> QED
    BY <1>7, <1>9, <2>1 DEF RecoverOpen, Finish, Goto, PC, NoAwait, Terminal
<1> QED
  BY <1>2, <1>3, <1>4, <1>5, <1>6, <1>8, <1>9, <1>10 DEF Recovery, CutShort

-----------------------------------------------------------------------------
LEMMA TypeStep == TypeInv /\ [Next]_vars => TypeOK'
<1> SUFFICES ASSUME TypeInv, [Next]_vars PROVE TypeOK'
  OBVIOUS
<1>1. CASE UNCHANGED vars
  BY <1>1 DEF TypeInv, TypeOK, vars, taskVars, osVars, damage
<1>2. CASE Next
  BY <1>2, RunnerStepTypes, ReaderStepTypes, EnvironmentStepTypes, CallStepTypes,
     RestartStepTypes DEF Next, TypeInv
<1> QED
  BY <1>1, <1>2

\* A runner that enters one of these control points brings its outcome with it.
LEMMA GoalStep == TypeInv /\ [Next]_vars => \A j \in Jobs : GoalChosen(j)'
<1> SUFFICES ASSUME TypeInv, [Next]_vars, NEW k \in Jobs PROVE GoalChosen(k)'
  OBVIOUS
<1> USE DEF TypeInv, TypeOK, GoalChosen, Turn, Goto, Finish, StopThen, EarlyStatus, Terminal,
            taskVars, osVars, damage, readerFrame, threadFrame
<1>1. CASE UNCHANGED vars
  BY <1>1 DEF vars
<1>2. ASSUME NEW j \in Jobs, Runner(j) PROVE GoalChosen(k)'
  <2>1. CASE Begin(j) \/ SpawnInterrupted(j) \/ StopSpawned(j) \/ SpawnFailed(j)
    BY <2>1 DEF Begin, SpawnInterrupted, StopSpawned, SpawnFailed
  <2>2. CASE Spawned(j) \/ RunCancelled(j) \/ RunTimedOut(j) \/ RunProtocolError(j)
    BY <2>2 DEF Spawned, RunCancelled, RunTimedOut, RunProtocolError
  <2>3. CASE RunDrained(j) \/ StopDone(j) \/ SettleDone(j)
    BY <2>3 DEF RunDrained, StopDone, SettleDone
  <2>4. CASE ArchiveGivenUp(j) \/ Discard(j) \/ ArchiveFailed(j) \/ ArchiveRename(j) \/ Commit(j)
    BY <2>4 DEF ArchiveGivenUp, Discard, ArchiveFailed, ArchiveRename, Commit
  <2>5. CASE FinishEvent(j) \/ FinishMeta(j) \/ Cleanup(j) \/ Reap(j)
    BY <2>5 DEF FinishEvent, FinishMeta, Cleanup, Reap
  <2> QED
    BY <1>2, <2>1, <2>2, <2>3, <2>4, <2>5 DEF Runner
<1>3. ASSUME NEW j \in Jobs, Reader(j) \/ Thread(j) \/ Environment(j) PROVE UNCHANGED <<pc, goal>>
  BY <1>3 DEF Reader, ReadPhase, ReadCandidate, ReadFailure, ReadInvalid, ReadEOF, ReadComplete,
              Thread, ThreadStages, ThreadFails, ThreadChecks, ThreadDiscards,
              Environment, Expire, SpawnEnds, SpawnDropped, WorkerExits, KinExits
<1>4. CASE Client \/ Creation
  <2>1. CASE Client BY <2>1 DEF Client, Start, Cancel
  <2>2. ASSUME NEW i \in {1, 2}, MakeDirectory(i) PROVE GoalChosen(k)'
    BY <2>2 DEF MakeDirectory
  <2>3. ASSUME NEW i \in {1, 2}, QueueJob(i) PROVE GoalChosen(k)'
    <3>1. goal' = goal /\ pc'[k] \in {pc[k], "init"}
      BY <2>3 DEF QueueJob
    <3> QED
      BY <3>1
  <2> QED
    BY <1>4, <2>1, <2>2, <2>3 DEF Creation
<1>5. CASE DiskFault
  BY <1>5 DEF DiskFault, CreationFails, CancelFails, SpawnedFails, FinishFails, ReadFails
<1>6. CASE Crash \/ CutShort \/ Shutdown
  BY <1>6 DEF Crash, CutShort, CutWrite, Shutdown, MemoryLost
<1>7. CASE Recovery
  BY <1>7 DEF Recovery, Restart, Recovered, RecoverRefuses, RecoverClosed, RecoverOpen
<1> QED
  BY <1>1, <1>2, <1>3, <1>4, <1>5, <1>6, <1>7 DEF Next

LEMMA TypeInvInit == Init => TypeInv
BY BoundsAssumption DEF Init, TypeInv, TypeOK, GoalChosen, MemOK, ReaderOK, DiskOK, Unknown, NoReader,
   NoFiles, TornFile, PC, WorkerState, ThreadState

LEMMA TypeInvAlways == Spec => []TypeInv
<1>1. TypeInv /\ [Next]_vars => TypeInv'
  BY TypeStep, GoalStep DEF TypeInv
<1> QED
  BY <1>1, TypeInvInit, PTL DEF Spec

\* Every variable of the supervisor stays in its range: events, outcomes, tables.
THEOREM Types == Spec => []TypeOK
BY TypeInvAlways, PTL DEF TypeInv

-----------------------------------------------------------------------------
(***************************************************************************)
(* AcceptedCancelWins is not inductive.  CancelInv adds what the code      *)
(* relies on without saying so: "completed" is chosen only at the last     *)
(* look at the clock and becomes the status before any other task moves,   *)
(* the reader has ended before the archive is staged, an archive is there  *)
(* only once the completion can no longer be cancelled, and a job that is  *)
(* being created has none of this yet.                                     *)
(***************************************************************************)
\* Nothing has happened for the job yet: no runner, no archive, no request.
Idle(j) ==
  /\ pc[j] = "none"
  /\ ~disk[j].archive
  /\ mem[j].status # "completed"
  /\ ~mem[j].cancelReq

NewIsIdle(j) == disk[j].dir = "none" \/ j \in InCall(booking) => Idle(j)

CompletionCommitted(j) ==
  goal[j] = "completed" =>
    \/ pc[j] = "fin_event"
    \/ pc[j] \in {"fin_meta", "cleanup", "reap", "broken"} /\ mem[j].status = "completed"

CompletedIsOver(j) ==
  mem[j].status = "completed" =>
    /\ pc[j] \in {"fin_meta", "cleanup", "reap", "done", "broken", "none"}
    /\ pc[j] = "fin_meta" => goal[j] = "completed"

ReaderAttached(j) ==
  reader[j].state = "reading" =>
    /\ pc[j] \notin {"none", "archiving", "renamed"}
    /\ goal[j] # "completed"
    /\ mem[j].status # "completed"

ArchiveCommitted(j) ==
  disk[j].archive /\ pc[j] \notin {"none", "recover"} =>
    \/ pc[j] = "renamed"
    \/ pc[j] = "fin_event" /\ goal[j] = "completed"
    \/ mem[j].status = "completed"

OutOfService(j) ==
  /\ svc # "up" => goal[j] # "completed" /\ reader[j].state # "reading"
  /\ svc = "down" => mem[j].status = "unknown"
  /\ pc[j] = "recover" => svc = "recovering"

CancelWins(j) ==
  mem[j].cancelReq =>
    /\ mem[j].status # "completed"
    /\ ~disk[j].archive
    /\ pc[j] # "renamed"
    /\ goal[j] # "completed"

JobInv(j) ==
  /\ NewIsIdle(j) /\ CompletionCommitted(j) /\ CompletedIsOver(j) /\ ReaderAttached(j)
  /\ ArchiveCommitted(j) /\ OutOfService(j) /\ CancelWins(j)

CancelInv ==
  /\ TypeInv
  /\ svc # "up" => booking = <<>>
  /\ \A j \in Jobs : JobInv(j)

-----------------------------------------------------------------------------
\* A longer log leaves the rest of the files as they are.
LEMMA LogFrame ==
  ASSUME disk \in DiskOK, NEW j \in Jobs, NEW k \in Jobs,
         \E log : disk' = [disk EXCEPT ![j].log = log]
  PROVE  disk'[k].archive = disk[k].archive /\ disk'[k].dir = disk[k].dir
BY DEF DiskOK

\* A reader that is dropped does not read.
LEMMA ReaderFrame ==
  ASSUME reader \in ReaderOK, NEW j \in Jobs, NEW k \in Jobs,
         reader' = reader \/ reader' = [reader EXCEPT ![j] = NoReader],
         reader'[k].state = "reading"
  PROVE  reader[k].state = "reading"
<1>1. CASE reader' = reader BY <1>1
<1>2. CASE reader' = [reader EXCEPT ![j] = NoReader] BY <1>2 DEF ReaderOK, NoReader
<1> QED
  BY <1>1, <1>2

\* Runner steps: the choice of an outcome, the rename, the terminal event.
LEMMA RunnerKeeps ==
  ASSUME CancelInv, NEW j \in Jobs, Runner(j), NEW k \in Jobs PROVE JobInv(k)'
<1> USE DEF CancelInv, TypeInv, TypeOK, MemOK, ReaderOK, DiskOK, JobInv, NewIsIdle, Idle,
            CompletionCommitted, CompletedIsOver, ReaderAttached, ArchiveCommitted,
            OutOfService, CancelWins,
            Turn, Quiet, Goto, Finish, StopThen, EarlyStatus, NoAwait, taskVars, osVars, damage
<1>1. CASE Begin(j) BY <1>1 DEF Begin
<1>2. CASE SpawnInterrupted(j)
  <2>1. /\ pc[j] = "spawn"
        /\ \/ pc' = [pc EXCEPT ![j] = "stop_spawn"] /\ goal' = goal
           \/ /\ pc' = [pc EXCEPT ![j] = "fin_event"]
              /\ \/ goal' = [goal EXCEPT ![j] = "cancelled"]
                 \/ goal' = [goal EXCEPT ![j] = "timed_out"]
        /\ UNCHANGED <<svc, booking, mem, reader, disk>>
    BY <1>2 DEF SpawnInterrupted
  <2>2. CASE pc' = [pc EXCEPT ![j] = "stop_spawn"] /\ goal' = goal
    BY <2>1, <2>2
  <2>3. ASSUME NEW g \in {"cancelled", "timed_out"}, goal' = [goal EXCEPT ![j] = g],
               pc' = [pc EXCEPT ![j] = "fin_event"]
        PROVE  JobInv(k)'
    BY <2>1, <2>3
  <2> QED
    BY <2>1, <2>2, <2>3
<1>3. CASE StopSpawned(j) BY <1>3 DEF StopSpawned
<1>4. CASE SpawnFailed(j) BY <1>4 DEF SpawnFailed
<1>5. CASE Spawned(j)
  <2>1. pc[j] = "spawn" /\ goal[j] # "completed" /\ ~disk[j].archive /\ svc = "up"
    BY <1>5 DEF Spawned
  <2>2. CASE late[j]
    <3>1. /\ pc' = [pc EXCEPT ![j] = "stopping"] \/ pc' = [pc EXCEPT ![j] = "fin_event"]
          /\ goal' = [goal EXCEPT ![j] = "timed_out"]
          /\ UNCHANGED <<svc, booking, mem, reader, disk>>
      BY <1>5, <2>2 DEF Spawned
    <3> QED
      BY <2>1, <3>1
  <2>3. CASE ~late[j]
    <3>1. /\ pc' = [pc EXCEPT ![j] = "run"]
          /\ mem' = [mem EXCEPT ![j].status = "running"]
          /\ disk' = [disk EXCEPT ![j].log = Append(@, StatusEvent("running", 0))]
          /\ reader' = [reader EXCEPT ![j].state = "reading"]
          /\ UNCHANGED <<svc, booking, goal>>
      BY <1>5, <2>3 DEF Spawned, AppendEvent, StatusEvent
    <3> QED
      BY <2>1, <3>1
  <2> QED
    BY <2>2, <2>3
<1>6. CASE RunCancelled(j) BY <1>6 DEF RunCancelled
<1>7. CASE RunTimedOut(j) BY <1>7 DEF RunTimedOut
<1>8. CASE RunProtocolError(j) BY <1>8 DEF RunProtocolError
<1>9. CASE RunDrained(j)
  <2>1. pc[j] = "run" /\ reader[j].state # "reading" /\ goal[j] # "completed"
    BY <1>9 DEF RunDrained
  <2>2. /\ pc' = [pc EXCEPT ![j] = "fin_event"] \/ pc' = [pc EXCEPT ![j] = "archiving"]
        /\ goal' = goal \/ goal' = [goal EXCEPT ![j] = "failed"]
                        \/ goal' = [goal EXCEPT ![j] = "timed_out"]
        /\ UNCHANGED <<svc, booking, mem, reader, disk>>
    BY <1>9 DEF RunDrained
  <2>3. ASSUME NEW g \in {"failed", "timed_out"}, goal' = [goal EXCEPT ![j] = g]
        PROVE  JobInv(k)'
    BY <2>1, <2>2, <2>3
  <2>4. CASE goal' = goal
    <3>1. CASE pc' = [pc EXCEPT ![j] = "fin_event"] BY <2>1, <2>2, <2>4, <3>1
    <3>2. CASE pc' = [pc EXCEPT ![j] = "archiving"] BY <2>1, <2>2, <2>4, <3>2
    <3> QED
      BY <2>2, <3>1, <3>2
  <2> QED
    BY <2>2, <2>3, <2>4
<1>10. CASE StopDone(j) BY <1>10 DEF StopDone
<1>11. CASE SettleDone(j) BY <1>11 DEF SettleDone
<1>12. CASE ArchiveGivenUp(j) BY <1>12 DEF ArchiveGivenUp
<1>13. CASE Discard(j)
  <2>1. pc[j] = "discard" /\ goal[j] # "completed"
    BY <1>13 DEF Discard
  <2>2. /\ pc' = [pc EXCEPT ![j] = "fin_event"]
        /\ goal' = goal \/ goal' = [goal EXCEPT ![j] = "failed"]
        /\ disk' = disk \/ disk' = [disk EXCEPT ![j].staging = FALSE]
        /\ UNCHANGED <<svc, booking, mem, reader>>
    BY <1>13 DEF Discard
  <2>3. CASE disk' = disk
    BY <2>1, <2>2, <2>3
  <2>4. CASE disk' = [disk EXCEPT ![j].staging = FALSE]
    BY <2>1, <2>2, <2>4
  <2> QED
    BY <2>2, <2>3, <2>4
<1>14. CASE ArchiveFailed(j) BY <1>14 DEF ArchiveFailed
<1>15. CASE ArchiveRename(j) BY <1>15 DEF ArchiveRename, Publishable
<1>16. CASE Commit(j) BY <1>16 DEF Commit
<1>17. CASE FinishEvent(j)
  <2>1. /\ pc[j] = "fin_event"
        /\ pc' = [pc EXCEPT ![j] = "fin_meta"]
        /\ mem' = [mem EXCEPT ![j].status = goal[j]]
        /\ \E e : disk' = [disk EXCEPT ![j].log = Append(@, e)]
        /\ reader' = reader \/ reader' = [reader EXCEPT ![j] = NoReader]
        /\ UNCHANGED <<svc, booking, goal>>
    BY <1>17 DEF FinishEvent, AppendEvent, TerminalEvent, LocalsDropped
  <2>2. disk'[k].archive = disk[k].archive /\ disk'[k].dir = disk[k].dir
    BY <2>1, LogFrame
  <2>3. svc = "down" => FALSE
    BY <1>17 DEF FinishEvent
  <2>4. reader'[k].state = "reading" => reader[k].state = "reading"
    BY <2>1, ReaderFrame
  <2> QED
    BY <2>1, <2>2, <2>3, <2>4
<1>18. CASE FinishMeta(j) BY <1>18 DEF FinishMeta
<1>19. CASE Cleanup(j)
  <2>1. /\ pc[j] = "cleanup"
        /\ pc' = [pc EXCEPT ![j] = "reap"] \/ pc' = [pc EXCEPT ![j] = "broken"]
        /\ disk' = disk \/ disk' = [disk EXCEPT ![j].staging = FALSE]
        /\ UNCHANGED <<svc, booking, mem, goal, reader>>
    BY <1>19 DEF Cleanup
  <2>2. CASE disk' = disk
    BY <2>1, <2>2
  <2>3. CASE disk' = [disk EXCEPT ![j].staging = FALSE]
    BY <2>1, <2>3
  <2> QED
    BY <2>1, <2>2, <2>3
<1>20. CASE Reap(j) BY <1>20 DEF Reap, NoReader
<1> QED
  BY <1>1, <1>2, <1>3, <1>4, <1>5, <1>6, <1>7, <1>8, <1>9, <1>10, <1>11, <1>12, <1>13,
     <1>14, <1>15, <1>16, <1>17, <1>18, <1>19, <1>20 DEF Runner

\* Reader steps append events, but only while nothing is committed.
LEMMA ReaderKeeps ==
  ASSUME CancelInv, NEW j \in Jobs, Reader(j), NEW k \in Jobs PROVE JobInv(k)'
<1> USE DEF CancelInv, TypeInv, TypeOK, MemOK, ReaderOK, DiskOK, JobInv, NewIsIdle, Idle,
            CompletionCommitted, CompletedIsOver, ReaderAttached, ArchiveCommitted,
            OutOfService, CancelWins, Reads, Quiet, readerFrame, taskVars, osVars, damage
<1>1. reader[j].state = "reading" /\ svc = "up"
  BY DEF Reader, ReadPhase, ReadCandidate, ReadComplete, ReadFailure, ReadInvalid, ReadEOF, Takes
<1>2. /\ UNCHANGED <<svc, booking, pc, goal>>
      /\ reader'[k].state = "reading" => reader[k].state = "reading"
      /\ mem'[k].status = mem[k].status \/ (k = j /\ mem'[k].status = "running")
      /\ mem'[k].cancelReq = mem[k].cancelReq
      /\ disk'[k].archive = disk[k].archive
      /\ disk'[k].dir = disk[k].dir
  <2>1. CASE ReadPhase(j) BY <2>1 DEF ReadPhase, AppendEvent, PhaseEvent
  <2>2. CASE ReadCandidate(j) BY <2>2 DEF ReadCandidate
  <2>3. ASSUME NEW n \in 0..MaxCandidates, ReadComplete(j, n) PROVE <1>2!:
    BY <2>3 DEF ReadComplete, Flush, AppendEvent, CandidateEvent
  <2>4. CASE ReadFailure(j) BY <2>4 DEF ReadFailure
  <2>5. CASE ReadInvalid(j) BY <2>5 DEF ReadInvalid
  <2>6. CASE ReadEOF(j) BY <2>6 DEF ReadEOF, Flush, AppendEvent, CandidateEvent
  <2> QED
    BY <2>1, <2>2, <2>3, <2>4, <2>5, <2>6 DEF Reader
<1> QED
  BY <1>1, <1>2

LEMMA EnvironmentKeeps ==
  ASSUME CancelInv, NEW j \in Jobs, Environment(j) \/ Thread(j), NEW k \in Jobs PROVE JobInv(k)'
<1> USE DEF CancelInv, TypeInv, TypeOK, MemOK, ReaderOK, DiskOK, JobInv, NewIsIdle, Idle,
            CompletionCommitted, CompletedIsOver, ReaderAttached, ArchiveCommitted,
            OutOfService, CancelWins, threadFrame, taskVars, osVars, damage
<1>1. CASE Environment(j)
  BY <1>1 DEF Environment, Expire, SpawnEnds, SpawnDropped, WorkerExits, KinExits
<1>2. CASE ThreadStages(j) BY <1>2 DEF ThreadStages
<1>3. CASE ThreadDiscards(j) BY <1>3 DEF ThreadDiscards
<1>4. CASE ThreadFails(j) \/ ThreadChecks(j) BY <1>4 DEF ThreadFails, ThreadChecks
<1> QED
  BY <1>1, <1>2, <1>3, <1>4 DEF Thread

LEMMA CallKeeps ==
  ASSUME CancelInv, Client \/ Creation \/ DiskFault, NEW k \in Jobs PROVE JobInv(k)'
<1> USE DEF CancelInv, TypeInv, TypeOK, MemOK, ReaderOK, DiskOK, JobInv, NewIsIdle, Idle,
            CompletionCommitted, CompletedIsOver, ReaderAttached, ArchiveCommitted,
            OutOfService, CancelWins, Quiet, NoAwait, Cancellable, Fault, Goto,
            taskVars, osVars, damage
<1>1. ASSUME NEW call \in Calls, Start(call) PROVE JobInv(k)'
  BY <1>1 DEF Start
<1>2. ASSUME NEW j \in Jobs, Cancel(j) PROVE JobInv(k)'
  BY <1>2 DEF Cancel
<1>3. ASSUME NEW i \in {1, 2}, MakeDirectory(i) PROVE JobInv(k)'
  BY <1>3, BookedIsJob DEF MakeDirectory, IsNext
<1>4. ASSUME NEW i \in {1, 2}, QueueJob(i) PROVE JobInv(k)'
  <2> DEFINE j == booking[i]
  <2>1. j \in Jobs /\ j \in InCall(booking)
    BY <1>4, BookedIsJob DEF QueueJob, IsNext, InCall
  <2>2. k \in InCall(booking) \/ k = j =>
          Idle(k) /\ goal[k] # "completed" /\ reader[k].state # "reading"
    BY <2>1
  <2>3. /\ disk'[k].archive = disk[k].archive
        /\ mem'[k].cancelReq = mem[k].cancelReq
        /\ mem'[k].status = IF k = j THEN "queued" ELSE mem[k].status
        /\ disk'[k].dir = IF k = j THEN "made" ELSE disk[k].dir
        /\ UNCHANGED <<svc, goal, reader>>
    BY <1>4, <2>1 DEF QueueJob
  <2>4. svc = "up"
    BY <1>4 DEF QueueJob, IsNext
  <2>5. CASE CallComplete(i)
    <3>1. /\ InCall(booking') = {}
          /\ pc'[k] = IF k \in InCall(booking) THEN "init" ELSE pc[k]
      BY <1>4, <2>5 DEF QueueJob, InCall
    <3>2. DOMAIN booking = 1..i /\ i \in Nat
      BY <1>4, <2>5, CallsAssumption DEF QueueJob, IsNext, CallComplete
    <3>3. \A m \in 1..i-1 : disk[booking[m]].dir = "made"
      BY <1>4 DEF QueueJob, IsNext
    <3>4. \A m \in 1..i : m = i \/ m \in 1..i-1
      BY <3>2
    <3>5. k \in InCall(booking) => k = j \/ disk[k].dir = "made"
      BY <3>2, <3>3, <3>4 DEF InCall
    <3> QED
      BY <2>1, <2>2, <2>3, <2>4, <3>1, <3>5
  <2>6. CASE ~CallComplete(i)
    <3>1. UNCHANGED <<pc, booking>>
      BY <1>4, <2>6 DEF QueueJob
    <3> QED
      BY <2>1, <2>2, <2>3, <2>4, <3>1
  <2> QED
    BY <2>5, <2>6
<1>5. CASE CreationFails
  BY <1>5 DEF CreationFails, InCall
<1>6. ASSUME NEW j \in Jobs, CancelFails(j) PROVE JobInv(k)'
  BY <1>6 DEF CancelFails
<1>7. ASSUME NEW j \in Jobs, SpawnedFails(j) PROVE JobInv(k)'
  <2>1. /\ pc[j] = "spawn" /\ svc = "up"
        /\ pc' = [pc EXCEPT ![j] = "stopping"] \/ pc' = [pc EXCEPT ![j] = "fin_event"]
        /\ goal' = [goal EXCEPT ![j] = "failed"]
        /\ mem' = mem \/ mem' = [mem EXCEPT ![j].status = "running"]
        /\ UNCHANGED <<svc, booking, reader, disk>>
    BY <1>7 DEF SpawnedFails, Turn, StopThen, Finish
  <2> QED
    BY <2>1
<1>8. ASSUME NEW j \in Jobs, FinishFails(j) PROVE JobInv(k)'
  <2>1. /\ svc = "up" /\ pc[j] \in {"fin_event", "fin_meta"}
        /\ mem' = [mem EXCEPT ![j].status = goal[j]]
        /\ pc' = [pc EXCEPT ![j] = "cleanup"]
        /\ reader' = reader \/ reader' = [reader EXCEPT ![j] = NoReader]
        /\ UNCHANGED <<svc, booking, goal, disk>>
    BY <1>8 DEF FinishFails, LocalsDropped
  <2>2. reader'[k].state = "reading" => reader[k].state = "reading"
    BY <2>1, ReaderFrame
  <2> QED
    BY <2>1, <2>2
<1>9. ASSUME NEW j \in Jobs, ReadFails(j) PROVE JobInv(k)'
  <2>1. svc = "up" /\ reader[j].state = "reading"
    BY <1>9 DEF ReadFails, Reports, Reads
  <2>2. /\ reader' = [reader EXCEPT ![j].state = "error"]
        /\ mem' = mem \/ mem' = [mem EXCEPT ![j].count = @ + 1]
        /\ UNCHANGED <<svc, booking, pc, goal, disk>>
    BY <1>9 DEF ReadFails
  <2> QED
    BY <2>1, <2>2
<1> QED
  BY <1>1, <1>2, <1>3, <1>4, <1>5, <1>6, <1>7, <1>8, <1>9 DEF Client, Creation, DiskFault

LEMMA RestartKeeps ==
  ASSUME CancelInv, Crash \/ CutShort \/ Shutdown \/ Recovery, NEW k \in Jobs PROVE JobInv(k)'
<1> USE DEF CancelInv, TypeInv, TypeOK, MemOK, ReaderOK, DiskOK, JobInv, NewIsIdle, Idle,
            CompletionCommitted, CompletedIsOver, ReaderAttached, ArchiveCommitted,
            OutOfService, CancelWins, Goto, Finish, Unknown, NoReader, InCall,
            taskVars, osVars, damage
<1>1. CASE Crash
  BY <1>1 DEF Crash, MemoryLost
<1>8. CASE CutShort
  <2>1. disk'[k].archive = disk[k].archive /\ disk'[k].dir = disk[k].dir
    BY <1>8 DEF CutShort, CutWrite
  <2> QED
    BY <1>8, <2>1 DEF CutShort, CutWrite, MemoryLost
<1>2. CASE Shutdown
  <2>1. disk'[k].archive = disk[k].archive /\ disk'[k].dir = disk[k].dir
    BY <1>2 DEF Shutdown
  <2> QED
    BY <1>2, <2>1 DEF Shutdown, MemoryLost
<1>3. CASE Restart
  BY <1>3 DEF Restart
<1>4. CASE Recovered
  BY <1>4 DEF Recovered, AllRecovered
<1>5. ASSUME NEW j \in Jobs, RecoverRefuses(j) PROVE JobInv(k)'
  <2>1. /\ svc = "recovering" /\ svc' = "refused"
        /\ pc'[k] = "none"
        /\ disk' = disk \/ disk' = [disk EXCEPT ![j].staging = FALSE]
        /\ UNCHANGED <<booking, mem, goal, reader>>
    BY <1>5 DEF RecoverRefuses, Recovers
  <2>2. CASE disk' = disk
    BY <2>1, <2>2
  <2>3. CASE disk' = [disk EXCEPT ![j].staging = FALSE]
    BY <2>1, <2>3
  <2> QED
    BY <2>1, <2>2, <2>3
<1>6. ASSUME NEW j \in Jobs, RecoverClosed(j) PROVE JobInv(k)'
  BY <1>6 DEF RecoverClosed, Recovers, Recalled, Tidied
<1>7. ASSUME NEW j \in Jobs, RecoverOpen(j) PROVE JobInv(k)'
  <2>1. /\ svc = "recovering" /\ disk[j].dir = "made"
        /\ disk[j].log # <<>> /\ ~IsClosed(disk[j].log)
        /\ pc' = [pc EXCEPT ![j] = "fin_event"]
        /\ goal' = [goal EXCEPT ![j] = "failed"]
        /\ mem' = [mem EXCEPT ![j] = Recalled(j)]
        /\ disk' = [disk EXCEPT ![j] = Emptied(j)]
        /\ UNCHANGED <<svc, booking, reader>>
    BY <1>7 DEF RecoverOpen, Recovers, Acceptable, Legible, ValidHistory
  <2>2. disk[j].log[Len(disk[j].log)] \in JobEvent
    BY <2>1
  <2>3. Recalled(j).status # "completed" /\ ~Recalled(j).cancelReq
    BY <2>1, <2>2 DEF Recalled, IsClosed, JobEvent, Terminal
  <2>4. /\ disk'[k].archive => k # j /\ disk[k].archive
        /\ disk'[k].dir = disk[k].dir
    BY <2>1 DEF Emptied
  <2> QED
    BY <2>1, <2>3, <2>4
<1> QED
  BY <1>1, <1>2, <1>3, <1>4, <1>5, <1>6, <1>7, <1>8 DEF Recovery

\* Outside a service that is up no call is in progress.
LEMMA NoCallOutOfService ==
  ASSUME CancelInv, [Next]_vars PROVE (svc # "up" => booking = <<>>)'
<1> USE DEF CancelInv, taskVars, osVars, damage, readerFrame, threadFrame
<1>1. CASE UNCHANGED vars BY <1>1 DEF vars
<1>2. ASSUME NEW j \in Jobs, Runner(j) PROVE UNCHANGED <<svc, booking>>
  BY <1>2 DEF Runner, Begin, SpawnInterrupted, StopSpawned, SpawnFailed, Spawned, RunCancelled,
     RunTimedOut, RunProtocolError, RunDrained, StopDone, SettleDone, ArchiveGivenUp, Discard,
     ArchiveFailed, ArchiveRename, Commit, FinishEvent, FinishMeta, Cleanup, Reap
<1>3. ASSUME NEW j \in Jobs, Reader(j) \/ Thread(j) \/ Environment(j)
      PROVE  UNCHANGED <<svc, booking>>
  BY <1>3 DEF Reader, ReadPhase, ReadCandidate, ReadFailure, ReadInvalid, ReadEOF, ReadComplete,
     Thread, ThreadStages, ThreadFails, ThreadChecks, ThreadDiscards,
     Environment, Expire, SpawnEnds, SpawnDropped, WorkerExits, KinExits
<1>4. CASE Client \/ Creation
  BY <1>4 DEF Client, Creation, Start, Cancel, MakeDirectory, QueueJob, Quiet, IsNext
<1>5. CASE DiskFault
  BY <1>5 DEF DiskFault, CreationFails, CancelFails, SpawnedFails, FinishFails, ReadFails
<1>6. CASE Crash \/ CutShort \/ Shutdown
  BY <1>6 DEF Crash, CutShort, CutWrite, Shutdown, MemoryLost
<1>7. CASE Recovery
  BY <1>7 DEF Recovery, Restart, Recovered, RecoverRefuses, RecoverClosed, RecoverOpen, Recovers
<1> QED
  BY <1>1, <1>2, <1>3, <1>4, <1>5, <1>6, <1>7 DEF Next

LEMMA CancelInvInit == Init => CancelInv
BY TypeInvInit DEF Init, CancelInv, JobInv, NewIsIdle, Idle, CompletionCommitted, CompletedIsOver,
   ReaderAttached, ArchiveCommitted, OutOfService, CancelWins, Unknown, NoReader, NoFiles

LEMMA CancelInvStep == CancelInv /\ [Next]_vars => CancelInv'
<1> SUFFICES ASSUME CancelInv, [Next]_vars PROVE CancelInv'
  OBVIOUS
<1>1. TypeInv'
  BY TypeStep, GoalStep DEF CancelInv, TypeInv
<1>2. ASSUME NEW k \in Jobs PROVE JobInv(k)'
  <2>1. CASE UNCHANGED vars
    BY <2>1 DEF CancelInv, vars, taskVars, JobInv, NewIsIdle, Idle, CompletionCommitted,
       CompletedIsOver, ReaderAttached, ArchiveCommitted, OutOfService, CancelWins
  <2>2. CASE Next
    BY <2>2, RunnerKeeps, ReaderKeeps, EnvironmentKeeps, CallKeeps, RestartKeeps DEF Next
  <2> QED
    BY <2>1, <2>2
<1> QED
  BY <1>1, <1>2, NoCallOutOfService DEF CancelInv

\* An accepted cancel wins every race with the worker, the deadline and the archive
\* thread: the job is never completed and never has an archive (SolverJobService.cancel,
\* _run_job).
THEOREM CancelIsFinal == Spec => []AcceptedCancelWins
<1>1. CancelInv => AcceptedCancelWins
  BY DEF CancelInv, JobInv, CancelWins, AcceptedCancelWins
<1> QED
  BY <1>1, CancelInvInit, CancelInvStep, PTL DEF Spec
=============================================================================
