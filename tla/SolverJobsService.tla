------------------------- MODULE SolverJobsService --------------------------
(***************************************************************************)
(* What a job leaves behind in the system, and which jobs run together,    *)
(* for every set of jobs, every set of calls and every bound.              *)
(*                                                                         *)
(* Four arguments.  _active_job_ids keeps a second call out only if it     *)
(* names every job that is not terminal (OpenIsActive), which rests on the *)
(* order in which runners are launched and ids are discarded.  A runner is *)
(* done only after the spawn it cancelled (SpawnAwaited), and whichever of *)
(* its finally block and the archive thread comes last removes the staged  *)
(* archive (Handed, PublishedIsClean).                                     *)
(* Startup refuses a history it cannot replay, so every append has to      *)
(* follow what stands on disk, which memory tells (Told); it does, but for *)
(* the timeout of a job that was cancelled meanwhile.  And half a pair is  *)
(* there only while a call creates it or a restart has yet to close it     *)
(* (Half, Passing).                                                        *)
(***************************************************************************)
EXTENDS SolverJobsOutcome

\* Where a runner stands before its terminal event.
OpenPC == {"init", "spawn", "stop_spawn", "run", "stopping", "settling", "discard", "archiving",
           "renamed", "fin_event"}
EndPC == {"fin_meta", "cleanup", "reap", "done", "broken"}

-----------------------------------------------------------------------------
(***************************************************************************)
(* One call at a time.                                                     *)
(***************************************************************************)
OpenIsActive(j) == svc = "up" /\ pc[j] \in OpenPC => j \in active

OpenStatus(j) == pc[j] \in OpenPC => mem[j].status \notin Terminal

\* Only jobs of a call are ever created.
Named(j) == disk[j].dir # "none" => \E call \in Calls : j \in InCall(call)

\* Outside a serving process only recovery runs jobs.
RecoveryRuns(j) ==
  /\ svc = "recovering" => pc[j] \in {"none", "recover", "fin_event", "fin_meta"}
  /\ svc \in {"down", "refused"} => pc[j] = "none"
  /\ booking # <<>> => pc[j] \notin OpenPC

CallJob(j) == OpenIsActive(j) /\ OpenStatus(j) /\ Named(j) /\ RecoveryRuns(j)

ActiveIsOneCall == active = {} \/ \E call \in Calls : active \subseteq InCall(call)

\* Recovery takes the directories one at a time.
RecoversInTurn ==
  svc = "recovering" =>
    \A j, k \in Jobs : pc[j] \in NoAwait /\ pc[k] \in NoAwait => j = k

CallInv == OutcomeInv /\ ActiveIsOneCall /\ RecoversInTurn /\ \A j \in Jobs : CallJob(j)

\* A step of job j that starts no job.
Advances(j) ==
  /\ StepOf(j) /\ disk'[j].dir = disk[j].dir
  /\ active' = active \/ (active' = active \ {j} /\ pc'[j] \notin OpenPC)
  /\ pc'[j] \in OpenPC => pc[j] \in OpenPC /\ mem'[j].status \notin Terminal
  /\ svc # "up" => /\ svc = "recovering" /\ pc[j] \in {"fin_event", "fin_meta"}
                   /\ pc'[j] \in {"fin_meta", "none"}
                   /\ pc[j] = "fin_meta" \/ pc'[j] = "fin_meta"

LEMMA AdvancesKeeps ==
  ASSUME CallInv, NEW j \in Jobs, Advances(j)
  PROVE  ActiveIsOneCall' /\ RecoversInTurn' /\ \A k \in Jobs : CallJob(k)'
<1>1. svc' = svc /\ booking' = booking
  BY DEF Advances, StepOf
<1>2. \A k \in Jobs : k # j =>
        pc'[k] = pc[k] /\ mem'[k].status = mem[k].status /\ disk'[k].dir = disk[k].dir
  BY DEF Advances, StepOf, Still
<1>3. ActiveIsOneCall'
  BY DEF CallInv, ActiveIsOneCall, Advances
<1>4. RecoversInTurn'
  BY <1>1, <1>2 DEF CallInv, RecoversInTurn, Advances, NoAwait
<1>5. ASSUME NEW k \in Jobs PROVE CallJob(k)'
  <2>1. CallJob(k)
    BY DEF CallInv
  <2>2. CASE k = j
    BY <1>1, <2>1, <2>2 DEF CallJob, OpenIsActive, OpenStatus, Named, RecoveryRuns, Advances
  <2>3. CASE k # j
    BY <1>1, <1>2, <2>1, <2>3 DEF CallJob, OpenIsActive, OpenStatus, Named, RecoveryRuns, Advances
  <2> QED
    BY <2>2, <2>3
<1> QED
  BY <1>3, <1>4, <1>5

LEMMA RunnerAdvances ==
  ASSUME CallInv, NEW j \in Jobs, Runner(j) \/ SpawnedFails(j) \/ FinishFails(j)
  PROVE  Advances(j)
<1>1. TypeOK /\ OutcomeInv /\ CallJob(j)
  BY DEF CallInv, OutcomeInv, CancelInv, TypeInv
<1>2. ASSUME Moves(j), StepOf(j), UNCHANGED active, svc = "up" PROVE Advances(j)
  BY <1>1, <1>2 DEF Moves, Advances, CallJob, OpenStatus, OpenPC, Terminal
<1>3. ASSUME Logs(j), StepOf(j), UNCHANGED active, svc = "up", pc[j] \in OpenPC PROVE Advances(j)
  <2>1. mem'[j].status \notin Terminal
    BY <1>3 DEF Logs, JobEvent
  <2> QED
    BY <1>3, <2>1 DEF Logs, Advances
<1>4. CASE \/ Begin(j) \/ SpawnInterrupted(j) \/ StopSpawned(j) \/ SpawnFailed(j)
           \/ RunCancelled(j) \/ RunTimedOut(j) \/ RunProtocolError(j) \/ RunDrained(j)
           \/ StopDone(j) \/ SettleDone(j) \/ ArchiveGivenUp(j) \/ Discard(j)
           \/ ArchiveFailed(j) \/ ArchiveRename(j) \/ Commit(j) \/ SpawnedFails(j)
  <2>1. UNCHANGED active /\ svc = "up"
    BY <1>4 DEF Begin, SpawnInterrupted, StopSpawned, SpawnFailed, RunCancelled, RunTimedOut,
       RunProtocolError, RunDrained, StopDone, SettleDone, ArchiveGivenUp, Discard, ArchiveFailed,
       ArchiveRename, Commit, SpawnedFails, Turn, Quiet
  <2> QED
    BY <1>1, <1>2, <1>4, <2>1, RunnerMoves
<1>5. CASE Spawned(j)
  <2>1. UNCHANGED active /\ svc = "up" /\ pc[j] \in OpenPC
    BY <1>5 DEF Spawned, Turn, Quiet, OpenPC
  <2> QED
    BY <1>1, <1>2, <1>3, <1>5, <2>1, SpawnedStep
<1>6. CASE FinishEvent(j) \/ FinishMeta(j)
  <2>1. /\ UNCHANGED active /\ svc \in {"up", "recovering"} /\ pc[j] \in {"fin_event", "fin_meta"}
        /\ pc'[j] \in {"fin_meta", "cleanup", "none"}
        /\ svc = "recovering" => pc'[j] \in {"fin_meta", "none"}
        /\ pc[j] = "fin_meta" \/ pc'[j] = "fin_meta"
        /\ disk'[j].dir = disk[j].dir
    BY <1>1, <1>6 DEF TypeOK, DiskOK, FinishEvent, FinishMeta, Goto, AppendEvent
  <2> QED
    BY <1>1, <1>6, <2>1, FinishEventKeeps, FinishMetaKeeps DEF Advances, OpenPC
<1>7. CASE FinishFails(j) \/ Cleanup(j) \/ Reap(j)
  <2>1. /\ active' \in {active, active \ {j}} /\ svc = "up"
        /\ pc'[j] \in {"cleanup", "reap", "broken", "done"}
    BY <1>1, <1>7 DEF TypeOK, FinishFails, Cleanup, Reap, Goto, Turn, Quiet
  <2>2. disk'[j].dir = disk[j].dir
    <3>1. disk' = disk \/ disk' = [disk EXCEPT ![j].staging = FALSE]
      BY <1>7 DEF FinishFails, Cleanup, Reap
    <3>2. CASE disk' = disk
      BY <3>2
    <3>3. CASE disk' = [disk EXCEPT ![j].staging = FALSE]
      BY <1>1, <3>3 DEF TypeOK, DiskOK
    <3> QED
      BY <3>1, <3>2, <3>3
  <2> QED
    BY <1>1, <1>7, <2>1, <2>2, TailKeeps DEF Advances, OpenPC
<1> QED
  BY <1>4, <1>5, <1>6, <1>7 DEF Runner

LEMMA ReaderAndCancelAdvance ==
  ASSUME CallInv, NEW j \in Jobs, Reader(j) \/ Cancel(j) \/ CancelFails(j) \/ ReadFails(j)
  PROVE  Advances(j)
<1>1. TypeOK /\ OutcomeInv /\ CallJob(j)
  BY DEF CallInv, OutcomeInv, CancelInv, TypeInv
<1>2. /\ UNCHANGED <<active, pc>> /\ svc = "up"
      /\ Reader(j) \/ ReadFails(j) => reader[j].state = "reading"
  BY DEF Reader, ReadPhase, ReadCandidate, ReadComplete, ReadFailure, ReadInvalid, ReadEOF,
     Takes, Reads, Quiet, readerFrame, Cancel, CancelFails, Cancellable, ReadFails, Reports,
     taskVars
<1>3. pc[j] \in OpenPC
  BY <1>1, <1>2, CancelStep DEF Cancel, CancelFails, OutcomeInv, EndInv, ReaderRuns, OpenPC
<1>4. ASSUME Still(j) \/ Logs(j), StepOf(j) PROVE Advances(j)
  BY <1>1, <1>2, <1>3, <1>4 DEF Still, Logs, JobEvent, Advances, CallJob, OpenStatus
<1>5. CASE CancelFails(j)
  <2>1. mem'[j].status \notin Terminal /\ disk' = disk
    BY <1>1, <1>5 DEF TypeOK, MemOK, CancelFails, Terminal
  <2> QED
    BY <1>1, <1>2, <1>3, <1>5, <2>1, CancelStep DEF CancelFails, Advances
<1>6. CASE Reader(j) \/ Cancel(j)
  BY <1>1, <1>4, <1>6, ReaderStep, CancelStep DEF Cancel
<1>7. CASE ReadFails(j)
  BY <1>1, <1>4, <1>7, ReadFailsStill DEF StepOf
<1> QED
  BY <1>5, <1>6, <1>7

\* The parts of CallInv that are not OutcomeInv.
CallParts == ActiveIsOneCall /\ RecoversInTurn /\ \A k \in Jobs : CallJob(k)

\* A call is let in when no runner is left before its terminal event, and names all
\* its jobs active when it launches them.
LEMMA CallsKeep ==
  ASSUME CallInv,
         \/ \E call \in Calls : Start(call)
         \/ CreationFails
         \/ \E i \in {1, 2} : MakeDirectory(i) \/ QueueJob(i)
  PROVE  CallParts'
<1>1. TypeOK /\ OutcomeInv /\ CallParts /\ InCall(<<>>) = {} /\ svc = "up" /\ "init" \in OpenPC
  BY DEF CallInv, OutcomeInv, CancelInv, TypeInv, CallParts, InCall, Start, Quiet, CreationFails,
     MakeDirectory, QueueJob, IsNext, OpenPC
<1> USE DEF CallParts, CallJob, OpenIsActive, OpenStatus, Named, RecoveryRuns, ActiveIsOneCall,
            RecoversInTurn
<1>2. ASSUME NEW call \in Calls, Start(call) PROVE CallParts'
  <2>1. \A k \in Jobs : pc[k] \notin OpenPC
    BY <1>1, <1>2 DEF Start, NoneActive
  <2> QED
    BY <1>1, <1>2, <2>1 DEF Start, taskVars
<1>3. CASE CreationFails
  BY <1>1, <1>3 DEF CreationFails, taskVars
<1>4. ASSUME NEW i \in {1, 2}, MakeDirectory(i) \/ QueueJob(i) PROVE CallParts'
  <2>1. PICK j \in Jobs : j = booking[i] /\ j \in InCall(booking) /\ booking # <<>>
    BY <1>1, <1>4, BookedIsJob DEF TypeOK, MakeDirectory, QueueJob, IsNext, InCall
  <2>2. booking \in Calls
    BY <1>1, <2>1 DEF TypeOK
  <2>3. CASE MakeDirectory(i)
    <3>1. /\ UNCHANGED <<svc, booking, active, mem, pc>>
          /\ disk' = [disk EXCEPT ![j].dir = "partial"]
      BY <2>1, <2>3 DEF MakeDirectory, taskVars
    <3>2. \A k \in Jobs : disk'[k].dir = (IF k = j THEN "partial" ELSE disk[k].dir)
      BY <1>1, <3>1 DEF TypeOK, DiskOK
    <3> QED
      BY <1>1, <2>1, <2>2, <3>1, <3>2
  <2>4. CASE QueueJob(i)
    <3>1. /\ \E l : disk' = [disk EXCEPT ![j].dir = "made", ![j].log = l]
          /\ mem' = [mem EXCEPT ![j].status = "queued"]
          /\ svc' = svc
      BY <2>1, <2>4 DEF QueueJob
    <3>2. \A k \in Jobs : /\ disk'[k].dir = (IF k = j THEN "made" ELSE disk[k].dir)
                          /\ mem'[k].status = (IF k = j THEN "queued" ELSE mem[k].status)
      BY <1>1, <3>1 DEF TypeOK, DiskOK, MemOK
    <3>3. \A k \in Jobs : /\ pc[k] \notin OpenPC
                          /\ k \in InCall(booking) => mem'[k].status \notin Terminal
      BY <1>1, <2>1, <3>2 DEF OutcomeInv, EndInv, BeingCreated, Terminal
    <3>4. \/ UNCHANGED <<active, pc, booking>>
          \/ /\ active' = InCall(booking) /\ booking' = <<>>
             /\ pc' = [k \in Jobs |-> IF k \in InCall(booking) THEN "init" ELSE pc[k]]
      BY <2>4 DEF QueueJob
    <3>5. CASE UNCHANGED <<active, pc, booking>>
      <4>1. ActiveIsOneCall' /\ RecoversInTurn'
        BY <1>1, <3>1, <3>5
      <4>2. ASSUME NEW k \in Jobs PROVE CallJob(k)'
        <5>1. Named(k)'
          BY <1>1, <2>1, <2>2, <3>2
        <5>2. svc' = "up"
          BY <1>1, <3>1
        <5>3. pc'[k] \notin OpenPC
          BY <3>3, <3>5
        <5> HIDE DEF Named
        <5> QED
          BY <5>1, <5>2, <5>3
      <4> QED
        BY <4>1, <4>2
    <3>6. CASE /\ active' = InCall(booking) /\ booking' = <<>>
               /\ pc' = [k \in Jobs |-> IF k \in InCall(booking) THEN "init" ELSE pc[k]]
      <4>1. ActiveIsOneCall' /\ RecoversInTurn'
        BY <1>1, <2>1, <2>2, <3>1, <3>6
      <4>2. ASSUME NEW k \in Jobs PROVE CallJob(k)'
        <5>1. Named(k)'
          BY <1>1, <2>1, <2>2, <3>2
        <5>2. svc' = "up"
          BY <1>1, <3>1, <2>1
        <5>3. pc'[k] \in OpenPC => k \in InCall(booking)
          BY <3>3, <3>6
        <5> HIDE DEF Named
        <5> QED
          BY <3>3, <3>6, <5>1, <5>2, <5>3
      <4> QED
        BY <4>1, <4>2
    <3> QED
      BY <3>4, <3>5, <3>6
  <2> QED
    BY <1>4, <2>3, <2>4
<1> QED
  BY <1>2, <1>3, <1>4

LEMMA ServiceKeeps ==
  ASSUME CallInv, Crash \/ CutShort \/ Shutdown \/ Recovery PROVE CallParts'
<1>1. TypeOK /\ OutcomeInv /\ CallParts /\ InCall(<<>>) = {} /\ \A k \in Jobs : OutOfService(k)
  BY DEF CallInv, OutcomeInv, CancelInv, TypeInv, JobInv, CallParts, InCall
<1>2. svc # "up" => booking = <<>>
  BY DEF CallInv, OutcomeInv, CancelInv
<1> USE DEF CallParts, CallJob, OpenIsActive, OpenStatus, Named, RecoveryRuns, ActiveIsOneCall,
            RecoversInTurn
<1>3. ASSUME \A k \in Jobs : disk'[k].dir = disk[k].dir /\ pc'[k] \in {"none", "recover"},
             \A k \in Jobs : svc' \in {"down", "refused"} => pc'[k] = "none",
             active' = active \/ active' = {}
      PROVE  CallParts'
  BY <1>1, <1>3 DEF OpenPC, NoAwait
<1>4. CASE Crash \/ CutShort \/ Shutdown
  <2>1. \A k \in Jobs : disk'[k].dir = disk[k].dir
    BY <1>1, <1>4 DEF TypeOK, DiskOK, Crash, CutShort, CutWrite, Shutdown
  <2> QED
    BY <1>3, <1>4, <2>1 DEF Crash, CutShort, CutWrite, Shutdown, MemoryLost
<1>5. CASE Restart
  BY <1>3, <1>5 DEF Restart
<1>6. CASE Recovered
  BY <1>3, <1>6 DEF Recovered, AllRecovered, taskVars
<1>7. ASSUME NEW j \in Jobs, RecoverRefuses(j) PROVE CallParts'
  <2>1. disk' = disk \/ disk' = [disk EXCEPT ![j].staging = FALSE]
    BY <1>7 DEF RecoverRefuses
  <2>2. \A k \in Jobs : disk'[k].dir = disk[k].dir
    <3>1. CASE disk' = disk
      BY <3>1
    <3>2. CASE disk' = [disk EXCEPT ![j].staging = FALSE]
      BY <1>1, <3>2 DEF TypeOK, DiskOK
    <3> QED
      BY <2>1, <3>1, <3>2
  <2> QED
    BY <1>3, <1>7, <2>2 DEF RecoverRefuses
<1>8. ASSUME NEW j \in Jobs, RecoverClosed(j) \/ RecoverOpen(j) PROVE CallParts'
  <2>1. /\ svc = "recovering" /\ booking = <<>> /\ \A k \in Jobs : pc[k] \notin NoAwait
        /\ disk[j].log # <<>> /\ disk[j].log \in Seq(JobEvent)
        /\ UNCHANGED <<svc, booking, active>>
        /\ mem' = [mem EXCEPT ![j] = Recalled(j)]
    BY <1>1, <1>2, <1>8, FieldTypes DEF RecoverClosed, RecoverOpen, Recovers, Acceptable, Legible,
       ValidHistory
  <2>2. \/ pc' = [pc EXCEPT ![j] = "none"] /\ disk' = [disk EXCEPT ![j] = Tidied(j)]
        \/ /\ pc' = [pc EXCEPT ![j] = "fin_event"] /\ disk' = [disk EXCEPT ![j] = Emptied(j)]
           /\ ~IsClosed(disk[j].log)
    BY <1>8 DEF RecoverClosed, RecoverOpen, Finish, Goto
  <2>3. Tidied(j).dir = disk[j].dir /\ Emptied(j).dir = disk[j].dir
    BY <1>1 DEF TypeOK, DiskOK, Tidied, Emptied
  <2>4. \A k \in Jobs : disk'[k].dir = disk[k].dir
    BY <1>1, <2>2, <2>3 DEF TypeOK, DiskOK
  <2>5. \A k \in Jobs : mem'[k] = IF k = j THEN Recalled(j) ELSE mem[k]
    BY <1>1, <2>1 DEF TypeOK, MemOK
  <2>6. pc'[j] \in OpenPC => mem'[j].status \notin Terminal
    BY <1>1, <2>1, <2>2, <2>5, LastEvent DEF TypeOK, OpenPC, Recalled
  <2>7. /\ pc'[j] \in {"none", "fin_event"}
        /\ \A k \in Jobs : k # j => pc'[k] = pc[k]
    BY <1>1, <2>2 DEF TypeOK
  <2> QED
    BY <1>1, <2>1, <2>4, <2>5, <2>6, <2>7
<1> QED
  BY <1>4, <1>5, <1>6, <1>7, <1>8 DEF Recovery

LEMMA CallInvStep == CallInv /\ [Next]_vars => CallInv'
<1> SUFFICES ASSUME CallInv, [Next]_vars PROVE CallParts'
  BY OutcomeInvStep DEF CallInv, CallParts
<1>1. CASE UNCHANGED vars
  BY <1>1 DEF CallInv, CallParts, vars, taskVars, ActiveIsOneCall, RecoversInTurn, CallJob,
     OpenIsActive, OpenStatus, Named, RecoveryRuns
<1>2. ASSUME NEW j \in Jobs, Environment(j) \/ Thread(j) PROVE CallParts'
  <2>1. UNCHANGED active
    BY <1>2 DEF Environment, Expire, SpawnEnds, SpawnDropped, WorkerExits, KinExits, Thread,
       ThreadStages, ThreadFails, ThreadChecks, ThreadDiscards, threadFrame
  <2> QED
    BY <1>2, <2>1, EnvironmentStill DEF CallInv, CallParts, Still, ActiveIsOneCall,
       RecoversInTurn, CallJob, OpenIsActive, OpenStatus, Named, RecoveryRuns
<1>3. ASSUME NEW j \in Jobs, \/ Runner(j) \/ SpawnedFails(j) \/ FinishFails(j) \/ Reader(j)
                             \/ Cancel(j) \/ CancelFails(j) \/ ReadFails(j)
      PROVE  CallParts'
  BY <1>3, RunnerAdvances, ReaderAndCancelAdvance, AdvancesKeeps DEF CallParts
<1> QED
  BY <1>1, <1>2, <1>3, CallsKeep, ServiceKeeps DEF Next, Client, Creation, DiskFault

LEMMA CallInvInit == Init => CallInv
BY OutcomeInvInit DEF Init, CallInv, ActiveIsOneCall, RecoversInTurn, CallJob, OpenIsActive,
   OpenStatus, Named, RecoveryRuns, OpenPC, NoAwait, NoFiles

\* Two runners whose jobs are not terminal were launched by one call: start refuses while a
\* job of an earlier call goes on, whatever fails and restarts (ActiveJobError in
\* start and start_pair, _active_job_ids).
THEOREM CallsExclude == Spec => []OneCallAtATime
<1>1. Init => CallInv
  BY CallInvInit
<1>2. CallInv => OneCallAtATime
  <2> SUFFICES ASSUME CallInv, NEW j \in Jobs, NEW k \in Jobs, Unfinished(j), Unfinished(k)
               PROVE  \E call \in Calls : {j, k} \subseteq InCall(call)
    BY DEF OneCallAtATime
  <2>1. TypeOK /\ \A m \in Jobs : EndInv(m) /\ CallJob(m)
    BY DEF CallInv, OutcomeInv, CancelInv, TypeInv
  <2>2. ASSUME NEW m \in Jobs, Unfinished(m) PROVE pc[m] \in OpenPC /\ disk[m].dir # "none"
    BY <2>1, <2>2 DEF Unfinished, HasRunner, Await, NoAwait, OpenPC, EndInv, EndRecorded,
       ClosedIsOver, Uncreated
  <2>3. CASE svc = "up"
    BY <2>1, <2>2, <2>3 DEF CallInv, CallJob, OpenIsActive, ActiveIsOneCall
  <2>4. CASE svc = "recovering"
    <3>1. j = k
      BY <2>1, <2>2, <2>4 DEF CallInv, CallJob, RecoveryRuns, RecoversInTurn, OpenPC, NoAwait
    <3> QED
      BY <2>1, <2>2, <3>1 DEF CallJob, Named
  <2>5. CASE svc \in {"down", "refused"}
    BY <2>1, <2>2, <2>5 DEF CallJob, RecoveryRuns, OpenPC
  <2> QED
    BY <2>1, <2>3, <2>4, <2>5 DEF TypeOK
<1> QED
  BY <1>1, <1>2, CallInvStep, PTL DEF Spec

-----------------------------------------------------------------------------
(***************************************************************************)
(* Processes and staged archives.                                          *)
(***************************************************************************)
\* A spawn is under way only while its runner waits for it, or after the service that
\* began it has ended.
SpawnAwaited(j) ==
  worker[j] = "spawning" =>
    /\ disk[j].dir = "made" /\ j \notin InCall(booking)
    /\ svc = "up" => pc[j] \in {"spawn", "none"}

DoneIsDead(j) == pc[j] = "done" => worker[j] \notin Alive

\* After the finally block the thread, if it is still busy, knows that it has to
\* remove what it stages.
Handed(j) ==
  pc[j] \in {"reap", "done"} =>
    /\ thread[j] \in Staging => abandoned[j]
    /\ thread[j] \notin {"staged", "discarding"} => ~disk[j].staging

Publishes(j) ==
  \/ pc[j] = "renamed"
  \/ pc[j] = "fin_event" /\ goal[j] = "completed"
  \/ pc[j] \in EndPC /\ mem[j].status = "completed"

PublishedIsClean(j) == Publishes(j) => thread[j] = "ok" /\ ~disk[j].staging

LeavesNothing(j) == DoneIsDead(j) /\ Handed(j) /\ PublishedIsClean(j)

EndsInv == CallInv /\ \A j \in Jobs : SpawnAwaited(j) /\ LeavesNothing(j)

\* Nothing of what these say about job k moves.
Apart(k) ==
  /\ pc'[k] = pc[k] /\ goal'[k] = goal[k] /\ mem'[k].status = mem[k].status
  /\ worker'[k] = worker[k] /\ thread'[k] = thread[k] /\ abandoned'[k] = abandoned[k]
  /\ disk'[k].staging = disk[k].staging

\* Job k has not come as far as that.
Early(k) ==
  \/ pc'[k] \in {"none", "recover"} \cup (OpenPC \ {"renamed", "fin_event"})
  \/ pc'[k] = "fin_event" /\ goal'[k] # "completed"

LEMMA ApartOrEarly ==
  ASSUME NEW k \in Jobs, LeavesNothing(k), Apart(k) \/ Early(k)
  PROVE  LeavesNothing(k)'
BY DEF LeavesNothing, Apart, Early, DoneIsDead, Handed, PublishedIsClean, Publishes, OpenPC, EndPC

LEMMA EarlyRunner ==
  ASSUME EndsInv, NEW j \in Jobs,
         \/ Begin(j) \/ SpawnInterrupted(j) \/ StopSpawned(j) \/ SpawnFailed(j) \/ Spawned(j)
         \/ RunCancelled(j) \/ RunTimedOut(j) \/ RunProtocolError(j) \/ RunDrained(j)
         \/ StopDone(j) \/ SettleDone(j) \/ ArchiveGivenUp(j) \/ Discard(j)
         \/ ArchiveFailed(j) \/ SpawnedFails(j)
  PROVE  Early(j) /\ \A k \in Jobs \ {j} : Apart(k)
<1>1. TypeOK /\ CompletionCommitted(j)
  BY DEF EndsInv, CallInv, OutcomeInv, CancelInv, TypeInv, JobInv
<1> USE <1>1 DEF TypeOK, MemOK, DiskOK, CompletionCommitted, Early, Apart, OpenPC,
                 Turn, Goto, Finish, StopThen, EarlyStatus, Kill, taskVars, osVars
<1>2. CASE Begin(j) \/ SpawnInterrupted(j) \/ StopSpawned(j) \/ SpawnFailed(j)
  BY <1>2 DEF Begin, SpawnInterrupted, StopSpawned, SpawnFailed
<1>3. CASE Spawned(j)
  BY <1>3 DEF Spawned, AppendEvent
<1>4. CASE RunCancelled(j) \/ RunTimedOut(j) \/ RunProtocolError(j) \/ RunDrained(j)
  BY <1>4 DEF RunCancelled, RunTimedOut, RunProtocolError, RunDrained
<1>5. CASE StopDone(j) \/ SettleDone(j) \/ ArchiveGivenUp(j)
  BY <1>5 DEF StopDone, SettleDone, ArchiveGivenUp
<1>6. CASE Discard(j) \/ ArchiveFailed(j)
  BY <1>6 DEF Discard, ArchiveFailed
<1>7. CASE SpawnedFails(j)
  BY <1>7 DEF SpawnedFails
<1> QED
  BY <1>2, <1>3, <1>4, <1>5, <1>6, <1>7

\* From the rename to the end of the runner.
LEMMA LateRunner ==
  ASSUME EndsInv, NEW j \in Jobs,
         \/ ArchiveRename(j) \/ Commit(j) \/ FinishEvent(j) \/ FinishFails(j) \/ FinishMeta(j)
         \/ Cleanup(j) \/ Reap(j)
  PROVE  LeavesNothing(j)' /\ \A k \in Jobs \ {j} : Apart(k)
<1>1. TypeOK /\ CompletionCommitted(j) /\ LeavesNothing(j)
  BY DEF EndsInv, CallInv, OutcomeInv, CancelInv, TypeInv, JobInv
<1> USE <1>1 DEF TypeOK, MemOK, DiskOK, Turn, Goto, Finish, taskVars, osVars
<1>2. \A k \in Jobs \ {j} : Apart(k)
  <2> USE DEF Apart
  <2>1. CASE ArchiveRename(j) \/ Commit(j)
    BY <2>1 DEF ArchiveRename, Commit
  <2>2. CASE FinishEvent(j) \/ FinishFails(j)
    BY <2>2 DEF FinishEvent, FinishFails, LocalsDropped, AppendEvent
  <2>3. CASE FinishMeta(j) \/ Cleanup(j) \/ Reap(j)
    BY <2>3 DEF FinishMeta, Cleanup, Reap, Kill
  <2> QED
    BY <2>1, <2>2, <2>3
<1>3. CASE ArchiveRename(j)
  <2>1. pc'[j] = "renamed" /\ thread'[j] = "ok" /\ disk'[j].staging = FALSE
    BY <1>3 DEF ArchiveRename, Publishable
  <2> QED
    BY <1>2, <2>1 DEF LeavesNothing, DoneIsDead, Handed, PublishedIsClean
<1>4. CASE Commit(j)
  <2>1. /\ pc[j] = "renamed" /\ pc'[j] = "fin_event" /\ thread' = thread
        /\ disk'[j].staging = disk[j].staging
    BY <1>4 DEF Commit
  <2> QED
    BY <1>2, <2>1 DEF LeavesNothing, DoneIsDead, Handed, PublishedIsClean, Publishes, EndPC
<1>5. CASE FinishEvent(j) \/ FinishFails(j)
  <2>1. /\ pc[j] \in {"fin_event", "fin_meta"} /\ pc'[j] \in {"fin_meta", "cleanup"}
        /\ mem'[j].status = goal[j] /\ thread' = thread /\ disk'[j].staging = disk[j].staging
    BY <1>5 DEF FinishEvent, FinishFails, AppendEvent, TerminalEvent
  <2> QED
    BY <1>2, <2>1 DEF LeavesNothing, DoneIsDead, Handed, PublishedIsClean, Publishes, EndPC,
       CompletionCommitted
<1>6. CASE FinishMeta(j)
  <2>1. /\ pc[j] = "fin_meta" /\ pc'[j] \in {"none", "cleanup"}
        /\ mem' = mem /\ thread' = thread /\ disk'[j].staging = disk[j].staging
    BY <1>6 DEF FinishMeta
  <2> QED
    BY <1>2, <2>1 DEF LeavesNothing, DoneIsDead, Handed, PublishedIsClean, Publishes, EndPC
<1>7. CASE Cleanup(j)
  <2>1. /\ pc[j] = "cleanup" /\ mem' = mem /\ thread' = thread
        /\ abandoned'[j] = (abandoned[j] \/ thread[j] \in Staging)
        /\ \/ /\ pc'[j] = "reap" /\ mem[j].status = "completed" /\ disk' = disk
           \/ pc'[j] = "reap" /\ disk'[j].staging = FALSE
           \/ pc'[j] = "broken" /\ disk' = disk
    BY <1>7 DEF Cleanup
  <2> QED
    BY <1>2, <2>1 DEF LeavesNothing, DoneIsDead, Handed, PublishedIsClean, Publishes, EndPC, Staging
<1>8. CASE Reap(j)
  <2>2. worker[j] \notin {"spawning", "dropped"}
    BY <1>8 DEF EndsInv, SpawnAwaited, Reap, Turn, Quiet
  <2>1. /\ pc[j] = "reap" /\ pc'[j] = "done" /\ worker'[j] \notin Alive
        /\ UNCHANGED <<mem, thread, abandoned, disk>>
    BY <1>8, <2>2 DEF Reap, Lingers, Kill, Alive
  <2> QED
    BY <1>2, <2>1 DEF LeavesNothing, DoneIsDead, Handed, PublishedIsClean, Publishes, EndPC
<1> QED
  BY <1>2, <1>3, <1>4, <1>5, <1>6, <1>7, <1>8

\* Reader, clients and calls meet a job before its terminal event, or not at all.
LEMMA BystandersLeave ==
  ASSUME EndsInv, NEW k \in Jobs,
         \/ \E j \in Jobs : Reader(j) \/ Cancel(j) \/ CancelFails(j) \/ ReadFails(j)
         \/ Creation \/ CreationFails
         \/ \E call \in Calls : Start(call)
  PROVE  LeavesNothing(k)'
<1>1. TypeOK /\ OutcomeInv /\ LeavesNothing(k)
  BY DEF EndsInv, CallInv, OutcomeInv, CancelInv, TypeInv
<1>2. ASSUME NEW j \in Jobs, Reader(j) \/ Cancel(j) \/ CancelFails(j) \/ ReadFails(j)
      PROVE  LeavesNothing(k)'
  <2>1. /\ pc[j] \in {"init", "spawn", "stop_spawn", "run", "stopping", "settling", "archiving"}
        /\ \A m \in Jobs \ {j} : mem'[m].status = mem[m].status
        /\ pc' = pc /\ goal' = goal
    <3>1. CASE Cancel(j) \/ CancelFails(j)
      BY <1>1, <3>1, CancelStep DEF StepOf, Still, Cancel, CancelFails, taskVars
    <3>2. CASE Reader(j)
      <4>1. /\ \A m \in Jobs \ {j} : mem'[m].status = mem[m].status
            /\ pc[j] \in {"run", "stopping", "settling"}
        <5>1. reader[j].state = "reading"
          BY <3>2 DEF Reader, ReadPhase, ReadCandidate, ReadComplete, ReadFailure, ReadInvalid,
             ReadEOF, Takes, Reads
        <5> QED
          BY <1>1, <3>2, <5>1, ReaderStep DEF StepOf, Still, OutcomeInv, EndInv, ReaderRuns
      <4>2. pc' = pc /\ goal' = goal
        BY <3>2 DEF Reader, ReadPhase, ReadCandidate, ReadComplete, ReadFailure, ReadInvalid,
           ReadEOF, readerFrame
      <4> QED
        BY <4>1, <4>2
    <3>3. CASE ReadFails(j)
      <4>1. pc' = pc /\ goal' = goal /\ reader[j].state = "reading"
        BY <3>3 DEF ReadFails, Reports, Reads
      <4> QED
        BY <1>1, <3>3, <4>1, ReadFailsStill DEF Still, OutcomeInv, EndInv, ReaderRuns
    <3> QED
      BY <1>2, <3>1, <3>2, <3>3
  <2>2. UNCHANGED <<worker, thread, abandoned>>
    BY <1>2 DEF Reader, ReadPhase, ReadCandidate, ReadComplete, ReadFailure, ReadInvalid,
       ReadEOF, readerFrame, Cancel, CancelFails, ReadFails, taskVars, osVars
  <2>3. disk' = disk \/ \E l : disk' = [disk EXCEPT ![j].log = l]
    BY <1>2 DEF Reader, ReadPhase, ReadCandidate, ReadComplete, ReadFailure, ReadInvalid,
       ReadEOF, Flush, AppendEvent, Cancel, CancelFails, ReadFails
  <2>4. \A m \in Jobs : disk'[m].staging = disk[m].staging
    <3>1. CASE disk' = disk
      BY <3>1
    <3>2. ASSUME NEW l, disk' = [disk EXCEPT ![j].log = l]
          PROVE  \A m \in Jobs : disk'[m].staging = disk[m].staging
      BY <1>1, <3>2 DEF TypeOK, DiskOK
    <3> QED
      BY <2>3, <3>1, <3>2
  <2>5. CASE k = j
    BY <1>1, <2>1, <2>5, ApartOrEarly DEF Early, OpenPC
  <2>6. CASE k # j
    BY <1>1, <2>1, <2>2, <2>4, <2>6, ApartOrEarly DEF Apart
  <2> QED
    BY <2>5, <2>6
<1>3. ASSUME NEW i \in {1, 2}, MakeDirectory(i) \/ QueueJob(i) PROVE LeavesNothing(k)'
  <2>1. PICK j \in Jobs : j = booking[i] /\ j \in InCall(booking) /\ disk[j].dir # "made"
    BY <1>1, <1>3, BookedIsJob DEF TypeOK, MakeDirectory, QueueJob, IsNext, InCall
  <2>2. /\ UNCHANGED <<goal, worker, thread, abandoned>>
        /\ disk'[k].staging = disk[k].staging
        /\ k # j => mem'[k].status = mem[k].status
        /\ pc'[k] = pc[k] \/ pc'[k] = "init"
    <3> USE <1>1, <2>1 DEF TypeOK, MemOK, DiskOK, taskVars, osVars
    <3>1. CASE MakeDirectory(i)
      BY <3>1 DEF MakeDirectory
    <3>2. CASE QueueJob(i)
      <4>1. /\ UNCHANGED <<goal, worker, thread, abandoned>>
            /\ pc'[k] = pc[k] \/ pc'[k] = "init"
        BY <3>2 DEF QueueJob
      <4>2. /\ \E l : disk' = [disk EXCEPT ![j].dir = "made", ![j].log = l]
            /\ mem' = [mem EXCEPT ![j].status = "queued"]
        BY <3>2 DEF QueueJob
      <4> QED
        BY <4>1, <4>2
    <3> QED
      BY <1>3, <3>1, <3>2
  <2>3. pc[j] = "none"
    BY <1>1, <2>1 DEF OutcomeInv, CancelInv, JobInv, NewIsIdle, Idle
  <2> QED
    BY <1>1, <2>2, <2>3, ApartOrEarly DEF Apart, Early, OpenPC
<1>4. CASE CreationFails \/ \E call \in Calls : Start(call)
  BY <1>1, <1>4, ApartOrEarly DEF CreationFails, Start, Apart, taskVars, osVars
<1> QED
  BY <1>2, <1>3, <1>4 DEF Creation

\* The worker dies and the thread ends in their own time.
LEMMA EnvironmentLeaves ==
  ASSUME EndsInv, NEW j \in Jobs, Environment(j) \/ Thread(j), NEW k \in Jobs
  PROVE  LeavesNothing(k)'
<1>1. TypeOK /\ LeavesNothing(k)
  BY DEF EndsInv, CallInv, OutcomeInv, CancelInv, TypeInv
<1>2. CASE Environment(j)
  <2>1. /\ UNCHANGED <<pc, goal, mem, thread, abandoned, disk>>
        /\ worker'[k] \in Alive => worker[k] \in Alive
    BY <1>1, <1>2 DEF TypeOK, Environment, Expire, SpawnEnds, SpawnDropped, WorkerExits,
       KinExits, Alive, taskVars, osVars
  <2> QED
    BY <1>1, <2>1 DEF LeavesNothing, DoneIsDead, Handed, PublishedIsClean, Publishes
<1>3. CASE Thread(j)
  <2>1. /\ UNCHANGED <<pc, goal, mem, worker, abandoned>>
        /\ \/ thread'[k] = thread[k] /\ disk'[k].staging = disk[k].staging
           \/ thread[k] = "writing" /\ thread'[k] = "staged"
           \/ /\ thread[k] = "writing" /\ thread'[k] = "error"
              /\ disk'[k].staging = disk[k].staging
           \/ thread[k] = "staged" /\ thread'[k] = (IF abandoned[k] THEN "discarding" ELSE "ok")
           \/ thread[k] = "discarding" /\ thread'[k] = "ok" /\ disk'[k].staging = FALSE
    <3> USE <1>1 DEF TypeOK, DiskOK, threadFrame, taskVars
    <3>1. CASE ThreadStages(j) BY <3>1 DEF ThreadStages
    <3>2. CASE ThreadFails(j) BY <3>2 DEF ThreadFails
    <3>3. CASE ThreadChecks(j) BY <3>3 DEF ThreadChecks
    <3>4. CASE ThreadDiscards(j) BY <3>4 DEF ThreadDiscards
    <3> QED
      BY <1>3, <3>1, <3>2, <3>3, <3>4 DEF Thread
  <2> QED
    BY <1>1, <2>1 DEF LeavesNothing, DoneIsDead, Handed, PublishedIsClean, Publishes, Staging
<1> QED
  BY <1>2, <1>3

LEMMA RestartLeaves ==
  ASSUME EndsInv, Crash \/ CutShort \/ Shutdown \/ Recovery, NEW k \in Jobs
  PROVE  LeavesNothing(k)'
<1>1. TypeOK /\ LeavesNothing(k)
  BY DEF EndsInv, CallInv, OutcomeInv, CancelInv, TypeInv
<1>2. CASE Crash \/ CutShort \/ Shutdown \/ Restart
  BY <1>1, <1>2, ApartOrEarly DEF Crash, CutShort, CutWrite, Shutdown, MemoryLost, Restart, Early
<1>3. CASE Recovered
  BY <1>1, <1>3, ApartOrEarly DEF Recovered, Apart, taskVars, osVars
<1>4. ASSUME NEW j \in Jobs, RecoverRefuses(j) \/ RecoverClosed(j) \/ RecoverOpen(j)
      PROVE  LeavesNothing(k)'
  <2>1. CASE RecoverRefuses(j)
    BY <1>1, <2>1, ApartOrEarly DEF RecoverRefuses, Early
  <2>2. CASE RecoverClosed(j) \/ RecoverOpen(j)
    <3>1. /\ \/ pc' = [pc EXCEPT ![j] = "none"] /\ goal' = goal
             \/ pc' = [pc EXCEPT ![j] = "fin_event"] /\ goal' = [goal EXCEPT ![j] = "failed"]
          /\ mem' = [mem EXCEPT ![j] = Recalled(j)]
          /\ \E f : disk' = [disk EXCEPT ![j] = f]
          /\ UNCHANGED <<worker, thread, abandoned>>
      BY <2>2 DEF RecoverClosed, RecoverOpen, Finish, Goto, osVars
    <3>2. Early(j) /\ \A m \in Jobs \ {j} : Apart(m)
      BY <1>1, <3>1 DEF TypeOK, MemOK, DiskOK, Early, Apart
    <3> QED
      BY <1>1, <3>2, ApartOrEarly
  <2> QED
    BY <1>4, <2>1, <2>2
<1> QED
  BY <1>2, <1>3, <1>4 DEF Recovery

\* Nothing of what SpawnAwaited says of job k moves, or the spawn is over.
LEMMA AwaitedFrame ==
  ASSUME EndsInv, NEW k \in Jobs, UNCHANGED <<svc, booking>>,
         worker'[k] = "spawning" => worker[k] = "spawning",
         worker'[k] = "spawning" => pc'[k] = pc[k] \/ svc # "up",
         disk'[k].dir = disk[k].dir
  PROVE  SpawnAwaited(k)'
BY DEF EndsInv, SpawnAwaited

LEMMA RunnerAwaits ==
  ASSUME EndsInv, NEW j \in Jobs, Runner(j) \/ SpawnedFails(j) \/ FinishFails(j), NEW k \in Jobs
  PROVE  SpawnAwaited(k)'
<1>1. TypeOK /\ SpawnAwaited(j) /\ EndInv(j) /\ Advances(j)
  BY RunnerAdvances DEF EndsInv, CallInv, OutcomeInv, CancelInv, TypeInv
<1>2. /\ \A m \in Jobs : disk'[m].dir = disk[m].dir
      /\ \A m \in Jobs : m # j => pc'[m] = pc[m]
      /\ UNCHANGED <<svc, booking>>
  BY <1>1 DEF Advances, StepOf, Still
<1>3. CASE Begin(j)
  <2>1. /\ pc[j] = "init" /\ booking = <<>> /\ svc = "up"
        /\ \A m \in Jobs : m # j => worker'[m] = worker[m]
        /\ worker'[j] = "spawning" => pc'[j] = "spawn" \/ worker[j] = "spawning"
    BY <1>1, <1>3 DEF TypeOK, Begin, Turn, Quiet, Goto
  <2>2. disk[j].dir = "made" /\ j \notin InCall(<<>>) /\ worker[j] # "spawning"
    BY <1>1, <2>1 DEF EndInv, Uncreated, TypeOK, DiskOK, InCall, SpawnAwaited
  <2>3. CASE k = j
    BY <1>2, <2>1, <2>2, <2>3 DEF SpawnAwaited
  <2>4. CASE k # j
    BY <1>2, <2>1, <2>4, AwaitedFrame
  <2> QED
    BY <2>3, <2>4
<1>4. CASE ~Begin(j)
  <2>1. \/ UNCHANGED worker
        \/ \E w \in {"dead", "dropped"} : worker' = [worker EXCEPT ![j] = w]
        \/ worker' = [worker EXCEPT ![j] = @]
    BY <1>4 DEF Runner, SpawnInterrupted, StopSpawned, SpawnFailed, Spawned, RunCancelled,
       RunTimedOut, RunProtocolError, RunDrained, StopDone, SettleDone, ArchiveGivenUp, Discard,
       ArchiveFailed, ArchiveRename, Commit, FinishEvent, FinishMeta, Cleanup, Reap,
       SpawnedFails, FinishFails, Kill, osVars
  <2>2. worker'[j] = "spawning" => worker[j] = "spawning" /\ svc # "up"
    <3>1. CASE SpawnInterrupted(j)
      BY <1>1, <3>1 DEF TypeOK, SpawnInterrupted
    <3>2. CASE Spawned(j) \/ SpawnedFails(j) \/ SpawnFailed(j)
      BY <1>1, <2>1, <3>2 DEF TypeOK, Spawned, SpawnedFails, SpawnFailed
    <3>3. CASE ~(SpawnInterrupted(j) \/ Spawned(j) \/ SpawnedFails(j) \/ SpawnFailed(j))
      <4>1. svc = "up" => pc[j] \notin {"spawn", "none"}
        BY <1>4, <3>3 DEF Runner, Turn, StopSpawned, RunCancelled, RunTimedOut,
           RunProtocolError, RunDrained, StopDone, SettleDone, ArchiveGivenUp, Discard,
           ArchiveFailed, ArchiveRename, Commit, FinishEvent, FinishMeta, Cleanup, Reap,
           FinishFails
      <4>2. worker'[j] = "spawning" => worker[j] = "spawning"
        BY <1>1, <2>1 DEF TypeOK
      <4> QED
        BY <1>1, <4>1, <4>2 DEF SpawnAwaited
    <3> QED
      BY <3>1, <3>2, <3>3
  <2>3. k # j => worker'[k] = worker[k]
    BY <1>1, <2>1 DEF TypeOK
  <2> QED
    BY <1>2, <2>2, <2>3, AwaitedFrame
<1> QED
  BY <1>3, <1>4

LEMMA OthersAwait ==
  ASSUME EndsInv, NEW k \in Jobs,
         \/ \E j \in Jobs : Reader(j) \/ Cancel(j) \/ CancelFails(j) \/ ReadFails(j)
         \/ \E j \in Jobs : Environment(j) \/ Thread(j)
         \/ CreationFails
         \/ \E call \in Calls : Start(call)
         \/ Creation
  PROVE  SpawnAwaited(k)'
<1>1. TypeOK /\ SpawnAwaited(k) /\ InCall(<<>>) = {}
  BY DEF EndsInv, CallInv, OutcomeInv, CancelInv, TypeInv, InCall
<1>2. ASSUME NEW j \in Jobs, Reader(j) \/ Cancel(j) \/ CancelFails(j) \/ ReadFails(j)
      PROVE  SpawnAwaited(k)'
  <2>1. Advances(j)
    BY <1>2, ReaderAndCancelAdvance DEF EndsInv
  <2>2. UNCHANGED <<pc, worker>>
    BY <1>2 DEF Reader, ReadPhase, ReadCandidate, ReadComplete, ReadFailure, ReadInvalid,
       ReadEOF, readerFrame, Cancel, CancelFails, ReadFails, taskVars, osVars
  <2> QED
    BY <2>1, <2>2, AwaitedFrame DEF Advances, StepOf, Still
<1>3. ASSUME NEW j \in Jobs, Environment(j) \/ Thread(j) PROVE SpawnAwaited(k)'
  <2>1. Still(k) /\ UNCHANGED <<svc, booking>>
    BY <1>3, EnvironmentStill DEF EndsInv, CallInv
  <2>2. worker'[k] = "spawning" => worker[k] = "spawning"
    BY <1>1, <1>3 DEF TypeOK, Environment, Expire, SpawnEnds, SpawnDropped, WorkerExits, KinExits,
       Thread, ThreadStages, ThreadFails, ThreadChecks, ThreadDiscards, threadFrame, osVars
  <2> QED
    BY <2>1, <2>2, AwaitedFrame DEF Still
<1>4. CASE CreationFails \/ \E call \in Calls : Start(call)
  <2>1. /\ UNCHANGED <<svc, pc, worker, disk>>
        /\ k \in InCall(booking') => disk[k].dir = "none"
    BY <1>1, <1>4 DEF CreationFails, Start, taskVars, osVars
  <2> QED
    BY <1>1, <2>1 DEF SpawnAwaited
<1>5. ASSUME NEW i \in {1, 2}, MakeDirectory(i) \/ QueueJob(i) PROVE SpawnAwaited(k)'
  <2>1. booking[i] \in Jobs /\ booking[i] \in InCall(booking)
    BY <1>1, <1>5, BookedIsJob DEF TypeOK, MakeDirectory, QueueJob, IsNext, InCall
  <2>2. /\ UNCHANGED <<svc, worker>>
        /\ InCall(booking') \subseteq InCall(booking)
        /\ k \notin InCall(booking) => pc'[k] = pc[k]
    BY <1>1, <1>5 DEF MakeDirectory, QueueJob, taskVars, osVars
  <2>3. k \notin InCall(booking) => disk'[k].dir = disk[k].dir
    BY <1>1, <1>5, <2>1 DEF TypeOK, DiskOK, MakeDirectory, QueueJob
  <2> QED
    BY <1>1, <2>2, <2>3 DEF SpawnAwaited
<1> QED
  BY <1>2, <1>3, <1>4, <1>5 DEF Creation

LEMMA RestartAwaits ==
  ASSUME EndsInv, Crash \/ CutShort \/ Shutdown \/ Recovery, NEW k \in Jobs
  PROVE  SpawnAwaited(k)'
<1>1. /\ TypeOK /\ SpawnAwaited(k) /\ InCall(<<>>) = {}
      /\ svc # "up" => booking = <<>>
  BY DEF EndsInv, CallInv, OutcomeInv, CancelInv, TypeInv, InCall
<1>2. ASSUME worker'[k] = "spawning" => worker[k] = "spawning",
             booking' = <<>>, svc' # "up", disk'[k].dir = disk[k].dir
      PROVE  SpawnAwaited(k)'
  BY <1>1, <1>2 DEF SpawnAwaited
<1>3. CASE Crash \/ CutShort \/ Shutdown
  <2>1. disk'[k].dir = disk[k].dir
    BY <1>1, <1>3 DEF TypeOK, DiskOK, Crash, CutShort, CutWrite, Shutdown
  <2>2. worker'[k] = "spawning" => worker[k] = "spawning"
    BY <1>1, <1>3 DEF TypeOK, Crash, CutShort, CutWrite, Shutdown
  <2> QED
    BY <1>2, <1>3, <2>1, <2>2 DEF Crash, CutShort, CutWrite, Shutdown, MemoryLost
<1>4. CASE Restart
  BY <1>1, <1>2, <1>4 DEF Restart, osVars
<1>5. CASE Recovered
  BY <1>1, <1>5 DEF SpawnAwaited, Recovered, AllRecovered, taskVars, osVars
<1>6. ASSUME NEW j \in Jobs, RecoverRefuses(j) \/ RecoverClosed(j) \/ RecoverOpen(j)
      PROVE  SpawnAwaited(k)'
  <2>1. /\ svc = "recovering" /\ svc' \in {"recovering", "refused"}
        /\ UNCHANGED <<booking, worker>>
    BY <1>6 DEF RecoverRefuses, RecoverClosed, RecoverOpen, Recovers, osVars
  <2>2. \/ disk' = disk
        \/ \E f \in {[disk[j] EXCEPT !.staging = FALSE], Tidied(j), Emptied(j)} :
             disk' = [disk EXCEPT ![j] = f]
    BY <1>6 DEF RecoverRefuses, RecoverClosed, RecoverOpen
  <2>3. disk'[k].dir = disk[k].dir
    <3>1. CASE disk' = disk
      BY <3>1
    <3>2. ASSUME NEW f \in {[disk[j] EXCEPT !.staging = FALSE], Tidied(j), Emptied(j)},
                 disk' = [disk EXCEPT ![j] = f]
          PROVE  disk'[k].dir = disk[k].dir
      <4>1. f.dir = disk[j].dir
        BY <1>1 DEF TypeOK, DiskOK, Tidied, Emptied
      <4> QED
        BY <1>1, <3>2, <4>1 DEF TypeOK, DiskOK
    <3> QED
      BY <2>2, <3>1, <3>2
  <2> QED
    BY <1>1, <1>2, <2>1, <2>3
<1> QED
  BY <1>3, <1>4, <1>5, <1>6 DEF Recovery

LEMMA EndsInvStep == EndsInv /\ [Next]_vars => EndsInv'
<1> SUFFICES ASSUME EndsInv, [Next]_vars, NEW k \in Jobs
             PROVE  SpawnAwaited(k)' /\ LeavesNothing(k)'
  BY CallInvStep DEF EndsInv
<1>1. LeavesNothing(k)
  BY DEF EndsInv
<1>2. CASE UNCHANGED vars
  BY <1>1, <1>2, ApartOrEarly, AwaitedFrame DEF vars, taskVars, osVars, Apart
<1>3. ASSUME NEW j \in Jobs, Runner(j) \/ SpawnedFails(j) \/ FinishFails(j)
      PROVE  SpawnAwaited(k)' /\ LeavesNothing(k)'
  BY <1>1, <1>3, RunnerAwaits, EarlyRunner, LateRunner, ApartOrEarly DEF Runner
<1>4. SpawnAwaited(k)'
  BY <1>2, <1>3, OthersAwait, RestartAwaits DEF Next, Client, DiskFault
<1>5. LeavesNothing(k)'
  BY <1>2, <1>3, BystandersLeave, EnvironmentLeaves, RestartLeaves DEF Next, Client, DiskFault
<1> QED
  BY <1>4, <1>5

LEMMA EndsInvAlways == Spec => []EndsInv
<1>1. Init => EndsInv
  BY CallInvInit DEF Init, EndsInv, SpawnAwaited, LeavesNothing, DoneIsDead, Handed,
     PublishedIsClean, Publishes, EndPC
<1> QED
  BY <1>1, EndsInvStep, PTL DEF Spec

\* When the runner of a job is done its worker has ended, whichever way the runner took,
\* and with it every process of the group the runner was given; after a cancelled spawn,
\* whose process it never was given, processes the worker has started itself may be left
\* (the finally block of _run_job, asyncio's cleanup of a cancelled spawn).
THEOREM NoProcessStays == Spec => []NoProcessLeftBehind
<1>1. EndsInv => NoProcessLeftBehind
  BY DEF EndsInv, LeavesNothing, DoneIsDead, NoProcessLeftBehind
<1> QED
  BY <1>1, EndsInvAlways, PTL

\* When runner and archive thread have both ended no staged archive is left, in whatever
\* order they ended (archive_abandoned in _run_job).
THEOREM NoStagingStays == Spec => []NoStagingLeftBehind
<1>1. EndsInv => NoStagingLeftBehind
  BY DEF EndsInv, LeavesNothing, Handed, NoStagingLeftBehind, Staging
<1> QED
  BY <1>1, EndsInvAlways, PTL

-----------------------------------------------------------------------------
(***************************************************************************)
(* What a restart will read.                                               *)
(***************************************************************************)
\* The event a history ends with.
LastOf(h) == h[Len(h)]

HasPhase(h) == \E k \in 2..Len(h) : h[k].kind = "phase"

\* No candidate beyond the n-th is named.
NamesUpTo(h, n) == \A k \in 2..Len(h) : h[k].kind = "candidate" => h[k].count <= n

\* Runner and reader of a job that is served stand before its terminal event.
Served(j) == svc = "up" /\ pc[j] \in OpenPC

\* The last status on disk follows the request, not the status in memory, which a
\* cancel that could not be written has changed as well.
StatusTold(j) ==
  LET told == LastOf(disk[j].log).status IN
  /\ mem[j].cancelReq => told = "cancelling" /\ mem[j].status \notin {"queued", "running"}
  /\ ~mem[j].cancelReq =>
       told = IF reader[j].state = "off" THEN "queued" ELSE "running"

\* The count on disk is behind the one in memory by the candidate that is pending.
CountTold(j) ==
  /\ LastOf(disk[j].log).count <= mem[j].count
  /\ NamesUpTo(disk[j].log, mem[j].count)
  /\ reader[j].pending =>
       mem[j].count > 0 /\ NamesUpTo(disk[j].log, mem[j].count - 1)

PhaseTold(j) ==
  /\ reader[j].phase <=> HasPhase(disk[j].log)
  /\ ~reader[j].phase => mem[j].count = 0
  /\ reader[j].phase => reader[j].state # "off"

\* The batch the reader accepted is what it has counted, and it takes no line more.
ResultTold(j) ==
  reader[j].outcome = "result" =>
    reader[j].batch = mem[j].count /\ reader[j].phase /\ ~reader[j].pending

Told(j) == StatusTold(j) /\ CountTold(j) /\ PhaseTold(j) /\ ResultTold(j)

\* Where the runner stands says whether there was a reader, and what it goes for is
\* founded: a cancellation on a request, a completion on a result.
Placed(j) ==
  /\ pc[j] \in {"init", "spawn", "stop_spawn"} => reader[j].state = "off"
  /\ pc[j] \in {"run", "settling", "archiving", "discard", "renamed"} => reader[j].state # "off"
  /\ pc[j] \in {"archiving", "renamed"} \/ goal[j] = "completed" =>
       reader[j].outcome = "result" /\ reader[j].state # "off"
  /\ pc[j] \in {"stopping", "settling", "discard", "fin_event"} /\ goal[j] = "cancelled" =>
       mem[j].cancelReq

\* A job that is being created, or not even that, has no past.
NewIsEmpty(j) ==
  disk[j].dir # "made" \/ j \in InCall(booking) =>
    /\ mem[j].count = 0 /\ reader[j] = NoReader
    /\ goal[j] # "completed"
    /\ disk[j].log \in {<<>>, <<StatusEvent("queued", 0)>>}

\* Recovery closes a history with a failure and the count it has read.
RecoveryTold(j) ==
  svc = "recovering" /\ pc[j] = "fin_event" =>
    goal[j] = "failed" /\ mem[j].count = LastOf(disk[j].log).count

Replays(j) ==
  disk[j].log # <<>> => ValidHistory(disk[j].log) \/ CancelledTooLate(disk[j].log)

RecoversFiles(j) == pc[j] = "recover" => disk[j].dir # "none"

HistoryJob(j) ==
  /\ Replays(j) /\ NewIsEmpty(j) /\ RecoveryTold(j) /\ RecoversFiles(j)
  /\ Served(j) => Told(j) /\ Placed(j)

RefusalFounded ==
  svc = "refused" =>
    \E j \in Jobs : disk[j].dir = "partial" \/ torn[j] # {} \/ CancelledTooLate(disk[j].log)

HistoryInv == CallInv /\ RefusalFounded /\ \A j \in Jobs : HistoryJob(j)

-----------------------------------------------------------------------------
\* What one more event says of a history that has begun.
LEMMA OneMoreEvent ==
  ASSUME NEW h \in Seq(JobEvent), h # <<>>, NEW e \in JobEvent
  PROVE  /\ LastOf(Append(h, e)) = e
         /\ HasPhase(Append(h, e)) <=> HasPhase(h) \/ e.kind = "phase"
         /\ \A n \in Nat : NamesUpTo(Append(h, e), n) <=>
              NamesUpTo(h, n) /\ (e.kind = "candidate" => e.count <= n)
<1> DEFINE g == Append(h, e)
<1>1. /\ Len(h) \in Nat \ {0} /\ Len(g) = Len(h) + 1
      /\ g[Len(h) + 1] = e
      /\ \A i \in 1..Len(h) : g[i] = h[i]
  OBVIOUS
<1>2. /\ \A k \in 2..Len(g) : k = Len(g) \/ (k \in 2..Len(h) /\ g[k] = h[k])
      /\ \A k \in 2..Len(h) : k \in 2..Len(g) /\ g[k] = h[k]
      /\ Len(g) \in 2..Len(g) /\ g[Len(g)] = e
  BY <1>1
<1> HIDE DEF g
<1>3. HasPhase(g) <=> HasPhase(h) \/ e.kind = "phase"
  BY <1>2 DEF HasPhase
<1>4. \A n \in Nat : NamesUpTo(g, n) <=>
        NamesUpTo(h, n) /\ (e.kind = "candidate" => e.count <= n)
  BY <1>2 DEF NamesUpTo
<1> QED
  BY <1>2, <1>3, <1>4 DEF LastOf, g

\* An event that may follow: what _validate_event_history asks of it and of the past.
MayFollow(h, e) ==
  /\ LegalStep(LastOf(h).status, e)
  /\ LastOf(h).count <= e.count
  /\ e.kind = "phase" => e.count = LastOf(h).count /\ ~HasPhase(h)
  /\ e.kind = "candidate" =>
       e.count > 0 /\ HasPhase(h) /\ NamesUpTo(h, e.count - 1)
  /\ e.status = "completed" =>
       e.count = e.batch /\ HasPhase(h) /\ NamesUpTo(h, e.batch)

LEMMA ValidGrows ==
  ASSUME NEW h \in Seq(JobEvent), ValidHistory(h), ~IsClosed(h), NEW e \in JobEvent,
         MayFollow(h, e)
  PROVE  ValidHistory(Append(h, e))
<1> DEFINE g == Append(h, e)
<1>1. /\ Len(h) \in Nat \ {0} /\ Len(g) = Len(h) + 1
      /\ g[Len(h) + 1] = e /\ g \in Seq(JobEvent)
      /\ \A i \in 1..Len(h) : g[i] = h[i]
  BY DEF ValidHistory
<1>2. /\ g # <<>> /\ TerminalIsLast(g)
      /\ Outcome(g) = e.status /\ (IsClosed(g) <=> e.kind = "terminal")
  BY LogGrows DEF ValidHistory
<1>3. h \in Seq(JobEvent) /\ \A i \in 1..Len(h) : h[i].count \in Nat
  BY DEF JobEvent
<1>4. e.count \in Nat /\ e.batch \in Nat
  BY DEF JobEvent
<1>5. /\ g[1] = h[1] /\ g[Len(g)] = e /\ g[Len(g) - 1] = LastOf(h)
      /\ \A i \in 2..Len(g) :
           \/ i = Len(g)
           \/ i \in 2..Len(h) /\ g[i] = h[i] /\ g[i-1] = h[i-1]
      /\ \A i \in 2..Len(h) : i \in 2..Len(g) /\ g[i] = h[i]
      /\ Len(g) \in 2..Len(g) /\ Len(g) - 1 = Len(h)
  BY <1>1 DEF LastOf
<1>6. \A i \in 2..Len(h) : \A k \in 2..i-1 : g[k] = h[k]
  BY <1>1
<1> HIDE DEF g
<1>7. StartsQueued(g)
  BY <1>5 DEF ValidHistory, StartsQueued
<1>8. CountsNeverDrop(g)
  BY <1>5 DEF ValidHistory, CountsNeverDrop, MayFollow
<1>9. StepsAreLegal(g)
  BY <1>5 DEF ValidHistory, StepsAreLegal, MayFollow
<1>10. OnePhase(g)
  <2> SUFFICES ASSUME NEW i \in 2..Len(g), g[i].kind = "phase"
               PROVE  g[i].count = g[i-1].count /\ \A k \in 2..i-1 : g[k].kind # "phase"
    BY DEF OnePhase
  <2>1. CASE i = Len(g)
    BY <1>5, <2>1 DEF MayFollow, HasPhase
  <2>2. CASE i \in 2..Len(h) /\ g[i] = h[i] /\ g[i-1] = h[i-1]
    BY <1>6, <2>2 DEF ValidHistory, OnePhase
  <2> QED
    BY <1>5, <2>1, <2>2
<1>11. CandidatesInOrder(g)
  <2> SUFFICES ASSUME NEW i \in 2..Len(g), g[i].kind = "candidate"
               PROVE  /\ g[i].count > 0
                      /\ \E k \in 2..i-1 : g[k].kind = "phase"
                      /\ \A k \in 2..i-1 : g[k].kind = "candidate" => g[k].count < g[i].count
    BY DEF CandidatesInOrder
  <2>1. CASE i = Len(g)
    <3>1. \A k \in 2..Len(h) : h[k].kind = "candidate" => h[k].count < e.count
      BY <1>3, <1>4, <1>5, <2>1 DEF MayFollow, NamesUpTo
    <3> QED
      BY <1>5, <2>1, <3>1 DEF MayFollow, HasPhase
  <2>2. CASE i \in 2..Len(h) /\ g[i] = h[i] /\ g[i-1] = h[i-1]
    BY <1>6, <2>2 DEF ValidHistory, CandidatesInOrder
  <2> QED
    BY <1>5, <2>1, <2>2
<1>12. CompletedAgreesWithBatch(g)
  <2> SUFFICES ASSUME e.status = "completed"
               PROVE  /\ g[Len(g)].count = g[Len(g)].batch
                      /\ \E k \in 2..Len(g) : g[k].kind = "phase"
                      /\ \A i \in 2..Len(g) : g[i].kind = "candidate" =>
                           g[i].count <= g[Len(g)].batch
    BY <1>2 DEF CompletedAgreesWithBatch
  <2>1. e.kind = "terminal"
    BY DEF JobEvent, Terminal
  <2> QED
    BY <1>5, <2>1 DEF MayFollow, HasPhase, NamesUpTo
<1> QED
  BY <1>2, <1>7, <1>8, <1>9, <1>10, <1>11, <1>12 DEF ValidHistory, g
-----------------------------------------------------------------------------
\* Nothing of what the history of job k depends on moves.
Rests(k) ==
  /\ pc'[k] = pc[k] /\ goal'[k] = goal[k] /\ mem'[k] = mem[k] /\ reader'[k] = reader[k]
  /\ disk'[k].dir = disk[k].dir /\ disk'[k].log = disk[k].log

Alone(j) == (\A k \in Jobs \ {j} : Rests(k)) /\ UNCHANGED <<svc, booking>>

LEMMA RestKeeps ==
  ASSUME NEW k \in Jobs, HistoryJob(k), Rests(k), UNCHANGED <<svc, booking>>
  PROVE  HistoryJob(k)'
BY DEF HistoryJob, Rests, Replays, NewIsEmpty, RecoveryTold, RecoversFiles, Served, Told, Placed,
   StatusTold, CountTold, PhaseTold, ResultTold

\* What the earlier invariants say of a job whose runner is before the terminal event.
LEMMA ServedIsOpen ==
  ASSUME HistoryInv, NEW j \in Jobs, Served(j)
  PROVE  /\ TypeOK /\ HistoryJob(j) /\ Told(j) /\ Placed(j)
         /\ disk[j].dir = "made" /\ disk[j].log # <<>> /\ disk[j].log \in Seq(JobEvent)
         /\ ~IsClosed(disk[j].log) /\ ValidHistory(disk[j].log)
         /\ j \notin InCall(booking)
         /\ goal[j] = "completed" => pc[j] = "fin_event"
         /\ mem[j].cancelReq => goal[j] # "completed"
<1>1. TypeOK /\ OutcomeInv /\ HistoryJob(j) /\ EndInv(j) /\ JobInv(j)
  BY DEF HistoryInv, CallInv, OutcomeInv, CancelInv, TypeInv
<1>2. pc[j] \in OpenPC /\ pc[j] # "none" /\ pc[j] # "recover"
  BY DEF Served, OpenPC
<1>3. disk[j].dir = "made" /\ disk[j].log # <<>> /\ disk[j].log \in Seq(JobEvent)
  BY <1>1, <1>2, FieldTypes DEF EndInv, Uncreated, Created
<1>4. ~IsClosed(disk[j].log)
  BY <1>1, <1>2 DEF EndInv, ClosedIsOver, OpenPC
<1>5. ValidHistory(disk[j].log)
  BY <1>1, <1>3, <1>4 DEF HistoryJob, Replays, CancelledTooLate
<1>6. /\ j \notin InCall(booking)
      /\ goal[j] = "completed" => pc[j] = "fin_event"
      /\ mem[j].cancelReq => goal[j] # "completed"
  BY <1>1, <1>2 DEF JobInv, NewIsIdle, Idle, CompletionCommitted, CancelWins, OpenPC
<1> QED
  BY <1>1, <1>3, <1>4, <1>5, <1>6 DEF HistoryJob

\* The runner goes on without writing to the history.
Passes(j) ==
  /\ Served(j) /\ pc'[j] \in OpenPC /\ Placed(j)'
  /\ mem'[j].count = mem[j].count /\ mem'[j].cancelReq = mem[j].cancelReq
  /\ mem[j].cancelReq => mem'[j].status = mem[j].status
  /\ disk'[j].dir = disk[j].dir /\ disk'[j].log = disk[j].log
  /\ reader'[j].state = "off" <=> reader[j].state = "off"
  /\ reader'[j].phase = reader[j].phase /\ reader'[j].pending = reader[j].pending
  /\ reader'[j].outcome = reader[j].outcome /\ reader'[j].batch = reader[j].batch

LEMMA PassesKeeps ==
  ASSUME HistoryInv, NEW j \in Jobs, Passes(j), Alone(j) PROVE HistoryJob(j)'
<1>1. svc' = "up" /\ svc = "up" /\ pc'[j] # "recover" /\ booking' = booking
  BY DEF Passes, Served, Alone, OpenPC
<1>2. Told(j)'
  BY ServedIsOpen DEF Passes, Told, StatusTold, CountTold, PhaseTold, ResultTold
<1> QED
  BY <1>1, <1>2, ServedIsOpen DEF Passes, HistoryJob, Replays, NewIsEmpty, RecoveryTold,
     RecoversFiles

\* Runner or reader append an event that may follow.
Tells(j) ==
  /\ Served(j) /\ pc'[j] \in OpenPC /\ Placed(j)' /\ Told(j)'
  /\ disk'[j].dir = disk[j].dir
  /\ \/ disk'[j].log = disk[j].log
     \/ \E e \in JobEvent : /\ MayFollow(disk[j].log, e)
                            /\ disk'[j].log = Append(disk[j].log, e)

LEMMA TellsKeeps ==
  ASSUME HistoryInv, NEW j \in Jobs, Tells(j), Alone(j) PROVE HistoryJob(j)'
<1>1. svc' = "up" /\ svc = "up" /\ pc'[j] # "recover" /\ booking' = booking
  BY DEF Tells, Served, Alone, OpenPC
<1>2. ValidHistory(disk'[j].log)
  BY ServedIsOpen, ValidGrows DEF Tells
<1> QED
  BY <1>1, <1>2, ServedIsOpen DEF Tells, HistoryJob, Replays, NewIsEmpty, RecoveryTold,
     RecoversFiles

LEMMA RunnerPasses ==
  ASSUME HistoryInv, NEW j \in Jobs,
         \/ Begin(j) \/ SpawnInterrupted(j) \/ StopSpawned(j) \/ SpawnFailed(j)
         \/ RunCancelled(j) \/ RunTimedOut(j) \/ RunProtocolError(j) \/ RunDrained(j)
         \/ StopDone(j) \/ SettleDone(j) \/ ArchiveGivenUp(j) \/ Discard(j)
         \/ ArchiveFailed(j) \/ ArchiveRename(j) \/ Commit(j) \/ SpawnedFails(j)
         \/ Spawned(j) /\ late[j]
  PROVE  Alone(j) /\ Passes(j)
<1>1. TypeOK /\ Served(j)
  BY DEF HistoryInv, CallInv, OutcomeInv, CancelInv, TypeInv, Served, OpenPC, Turn, Quiet, Begin,
     SpawnInterrupted, StopSpawned, SpawnFailed, RunCancelled, RunTimedOut, RunProtocolError,
     RunDrained, StopDone, SettleDone, ArchiveGivenUp, Discard, ArchiveFailed, ArchiveRename,
     Commit, SpawnedFails, Spawned
<1>2. /\ Placed(j)
      /\ goal[j] = "completed" => pc[j] = "fin_event"
      /\ mem[j].cancelReq => goal[j] # "completed"
  BY <1>1, ServedIsOpen
<1> USE <1>1 DEF TypeOK, MemOK, ReaderOK, DiskOK, Turn, Goto, Finish, StopThen, EarlyStatus,
                 taskVars, osVars, damage
<1>3. Alone(j)
  <2> USE DEF Alone, Rests
  <2>1. CASE Begin(j) \/ SpawnInterrupted(j) \/ StopSpawned(j) \/ SpawnFailed(j)
    BY <2>1 DEF Begin, SpawnInterrupted, StopSpawned, SpawnFailed
  <2>2. CASE RunCancelled(j) \/ RunTimedOut(j) \/ RunProtocolError(j) \/ RunDrained(j)
    BY <2>2 DEF RunCancelled, RunTimedOut, RunProtocolError, RunDrained
  <2>3. CASE StopDone(j) \/ SettleDone(j) \/ ArchiveGivenUp(j)
    BY <2>3 DEF StopDone, SettleDone, ArchiveGivenUp
  <2>4. CASE Discard(j) \/ ArchiveFailed(j)
    BY <2>4 DEF Discard, ArchiveFailed
  <2>5. CASE ArchiveRename(j) \/ Commit(j)
    BY <2>5 DEF ArchiveRename, Commit
  <2>6. CASE SpawnedFails(j)
    BY <2>6 DEF SpawnedFails
  <2>7. CASE Spawned(j) /\ late[j]
    BY <2>7 DEF Spawned
  <2> QED
    BY <2>1, <2>2, <2>3, <2>4, <2>5, <2>6, <2>7
<1>4. Passes(j)
  <2> USE <1>2 DEF Passes, Placed, OpenPC
  <2>1. CASE Begin(j) BY <2>1 DEF Begin
  <2>2. CASE SpawnInterrupted(j) BY <2>2 DEF SpawnInterrupted
  <2>3. CASE StopSpawned(j) \/ SpawnFailed(j) BY <2>3 DEF StopSpawned, SpawnFailed
  <2>4. CASE RunCancelled(j) \/ RunTimedOut(j) BY <2>4 DEF RunCancelled, RunTimedOut
  <2>5. CASE RunProtocolError(j) BY <2>5 DEF RunProtocolError
  <2>6. CASE RunDrained(j) BY <2>6 DEF RunDrained, Solved
  <2>7. CASE StopDone(j) BY <2>7 DEF StopDone
  <2>8. CASE SettleDone(j) BY <2>8 DEF SettleDone
  <2>9. CASE ArchiveGivenUp(j) BY <2>9 DEF ArchiveGivenUp
  <2>10. CASE Discard(j) BY <2>10 DEF Discard
  <2>11. CASE ArchiveFailed(j) BY <2>11 DEF ArchiveFailed
  <2>12. CASE ArchiveRename(j) BY <2>12 DEF ArchiveRename
  <2>13. CASE Commit(j) BY <2>13 DEF Commit
  <2>14. CASE SpawnedFails(j) BY <2>14 DEF SpawnedFails
  <2>15. CASE Spawned(j) /\ late[j] BY <2>15 DEF Spawned
  <2> QED
    BY <2>1, <2>2, <2>3, <2>4, <2>5, <2>6, <2>7, <2>8, <2>9, <2>10, <2>11, <2>12, <2>13, <2>14,
       <2>15
<1> QED
  BY <1>3, <1>4


\* The running event is the first after the queued one.
LEMMA SpawnedTells ==
  ASSUME HistoryInv, NEW j \in Jobs, Spawned(j), ~late[j]
  PROVE  Alone(j) /\ Tells(j)
<1> DEFINE e == StatusEvent("running", 0)
<1>1. TypeOK /\ Served(j) /\ pc[j] = "spawn" /\ ~mem[j].cancelReq
  BY DEF HistoryInv, CallInv, OutcomeInv, CancelInv, TypeInv, Served, OpenPC, Turn, Quiet, Spawned
<1>2. /\ Told(j) /\ Placed(j) /\ reader[j].state = "off"
      /\ disk[j].log # <<>> /\ disk[j].log \in Seq(JobEvent)
      /\ goal[j] # "completed"
  BY <1>1, ServedIsOpen DEF Placed
<1>3. /\ e \in JobEvent /\ e.kind = "status" /\ e.status = "running" /\ e.count = 0
  BY EventTypes DEF StatusEvent
<1>4. /\ pc' = [pc EXCEPT ![j] = "run"]
      /\ mem' = [mem EXCEPT ![j].status = e.status]
      /\ disk' = [disk EXCEPT ![j].log = Append(@, e)]
      /\ reader' = [reader EXCEPT ![j].state = "reading"]
      /\ UNCHANGED <<svc, booking, goal>>
  BY DEF Spawned, AppendEvent, Goto
<1> HIDE DEF e
<1>5. Alone(j)
  BY <1>1, <1>4 DEF TypeOK, MemOK, ReaderOK, DiskOK, Alone, Rests
<1>6. /\ pc'[j] = "run" /\ goal'[j] = goal[j]
      /\ mem'[j].status = "running" /\ mem'[j].count = mem[j].count
      /\ mem'[j].cancelReq = mem[j].cancelReq
      /\ disk'[j].dir = disk[j].dir /\ disk'[j].log = Append(disk[j].log, e)
      /\ reader'[j].state = "reading" /\ reader'[j].phase = reader[j].phase
      /\ reader'[j].pending = reader[j].pending
      /\ reader'[j].outcome = reader[j].outcome /\ reader'[j].batch = reader[j].batch
  BY <1>1, <1>3, <1>4 DEF TypeOK, MemOK, ReaderOK, DiskOK
<1>7. mem[j].count \in Nat /\ LastOf(disk[j].log) \in JobEvent
  BY <1>1, <1>2, FieldTypes DEF LastOf
<1>8. LastOf(disk[j].log).count \in Nat
  BY <1>7 DEF JobEvent
<1>9. /\ ~reader[j].phase /\ mem[j].count = 0 /\ ~reader[j].pending
      /\ reader[j].outcome # "result"
      /\ LastOf(disk[j].log).status = "queued" /\ LastOf(disk[j].log).count = 0
  BY <1>1, <1>2, <1>7, <1>8 DEF Told, StatusTold, CountTold, PhaseTold, ResultTold
<1>10. MayFollow(disk[j].log, e)
  BY <1>3, <1>9 DEF MayFollow, LegalStep, FollowsQueued
<1>11. Told(j)'
  BY <1>1, <1>2, <1>3, <1>6, <1>7, <1>9, OneMoreEvent DEF Told, StatusTold, CountTold, PhaseTold,
     ResultTold
<1>12. Placed(j)'
  BY <1>2, <1>6 DEF Placed
<1> QED
  BY <1>1, <1>3, <1>5, <1>6, <1>10, <1>11, <1>12 DEF Tells, OpenPC

\* A cancel is accepted once, and leaves the job to its runner.
LEMMA CancelTells ==
  ASSUME HistoryInv, NEW j \in Jobs, Cancel(j) \/ CancelFails(j)
  PROVE  Alone(j) /\ Tells(j)
<1>1. TypeOK /\ Served(j) /\ mem[j].status \in {"queued", "running"}
  BY CancelStep DEF HistoryInv, CallInv, Served, OpenPC, Cancel, CancelFails, Cancellable, Quiet
<1>2. /\ Told(j) /\ Placed(j) /\ disk[j].log # <<>> /\ disk[j].log \in Seq(JobEvent)
  BY <1>1, ServedIsOpen
<1>3. /\ mem[j].count \in Nat /\ mem[j].cancelReq \in BOOLEAN
      /\ LastOf(disk[j].log) \in JobEvent
  BY <1>1, <1>2, FieldTypes DEF LastOf
<1>4. /\ ~mem[j].cancelReq
      /\ LastOf(disk[j].log).status \in {"queued", "running"}
      /\ LastOf(disk[j].log).count <= mem[j].count
  BY <1>1, <1>2 DEF Told, StatusTold, CountTold
<1>5. CASE Cancel(j)
  <2> DEFINE e == StatusEvent("cancelling", mem[j].count)
  <2>1. /\ e \in JobEvent /\ e.kind = "status" /\ e.status = "cancelling"
        /\ e.count = mem[j].count
    BY <1>3, EventTypes DEF StatusEvent
  <2>2. /\ disk' = [disk EXCEPT ![j].log = Append(@, e)]
        /\ mem' = [mem EXCEPT ![j].status = "cancelling", ![j].cancelReq = TRUE]
        /\ UNCHANGED <<svc, booking, pc, goal, reader>>
    BY <1>5 DEF Cancel, taskVars
  <2> HIDE DEF e
  <2>3. Alone(j)
    BY <1>1, <2>2 DEF TypeOK, MemOK, DiskOK, Alone, Rests
  <2>4. /\ mem'[j].status = "cancelling" /\ mem'[j].count = mem[j].count
        /\ mem'[j].cancelReq = TRUE
        /\ disk'[j].dir = disk[j].dir /\ disk'[j].log = Append(disk[j].log, e)
    BY <1>1, <2>2 DEF TypeOK, MemOK, DiskOK
  <2>5. MayFollow(disk[j].log, e)
    BY <1>4, <2>1 DEF MayFollow, LegalStep, FollowsQueued, FollowsRunning
  <2>6. Told(j)'
    BY <1>2, <1>3, <2>1, <2>2, <2>4, OneMoreEvent DEF Told, StatusTold, CountTold, PhaseTold,
       ResultTold
  <2>7. Placed(j)'
    BY <1>2, <2>2, <2>4 DEF Placed
  <2> QED
    BY <1>1, <2>1, <2>2, <2>3, <2>4, <2>5, <2>6, <2>7 DEF Tells, Served
<1>6. CASE CancelFails(j)
  <2>1. /\ mem' = [mem EXCEPT ![j].status = "cancelling"]
        /\ UNCHANGED <<svc, booking, pc, goal, reader, disk>>
    BY <1>6 DEF CancelFails, taskVars
  <2>2. Alone(j)
    BY <1>1, <2>1 DEF TypeOK, MemOK, Alone, Rests
  <2>3. /\ mem'[j].count = mem[j].count /\ mem'[j].cancelReq = mem[j].cancelReq
    BY <1>1, <2>1 DEF TypeOK, MemOK
  <2>4. Told(j)' /\ Placed(j)'
    BY <1>2, <1>4, <2>1, <2>3 DEF Told, StatusTold, CountTold, PhaseTold, ResultTold, Placed
  <2> QED
    BY <1>1, <2>1, <2>2, <2>4 DEF Tells, Served
<1> QED
  BY <1>5, <1>6


\* Where a line of the worker finds the job.
LEMMA ReaderFinds ==
  ASSUME HistoryInv, NEW j \in Jobs, Reads(j)
  PROVE  /\ TypeOK /\ Served(j) /\ Told(j) /\ Placed(j)
         /\ reader[j].state = "reading" /\ goal[j] # "completed"
         /\ pc[j] \in {"run", "stopping", "settling"}
         /\ disk[j].log # <<>> /\ disk[j].log \in Seq(JobEvent)
         /\ LastOf(disk[j].log) \in JobEvent /\ mem[j].count \in Nat
         /\ ~mem[j].cancelReq => LastOf(disk[j].log).status = "running"
<1>1. /\ TypeOK /\ EndInv(j) /\ JobInv(j) /\ reader[j].state = "reading" /\ svc = "up"
  BY DEF HistoryInv, CallInv, OutcomeInv, CancelInv, TypeInv, Reads, Quiet
<1>2. pc[j] \in {"run", "stopping", "settling"} /\ goal[j] # "completed"
  BY <1>1 DEF EndInv, ReaderRuns, JobInv, ReaderAttached
<1>3. Served(j)
  BY <1>1, <1>2 DEF Served, OpenPC
<1>4. /\ Told(j) /\ Placed(j) /\ disk[j].log # <<>> /\ disk[j].log \in Seq(JobEvent)
  BY <1>3, ServedIsOpen
<1>5. LastOf(disk[j].log) \in JobEvent /\ mem[j].count \in Nat
  BY <1>1, <1>4, FieldTypes DEF LastOf
<1> QED
  BY <1>1, <1>2, <1>3, <1>4, <1>5 DEF Told, StatusTold

\* A reader that appends event e, or none, and goes on as r.
ReaderWrites(j, e) ==
  /\ mem'[j].status = e.status /\ mem'[j].count = e.count
  /\ disk'[j].log = Append(disk[j].log, e)

ReaderSilent(j) == mem'[j].status = mem[j].status /\ disk'[j].log = disk[j].log

ReaderMoves(j) ==
  /\ Alone(j) /\ UNCHANGED <<pc, goal>>
  /\ disk'[j].dir = disk[j].dir /\ mem'[j].cancelReq = mem[j].cancelReq
  /\ reader'[j].state # "off"

LEMMA ReaderTells ==
  ASSUME HistoryInv, NEW j \in Jobs, Reads(j), ReaderMoves(j), Told(j)',
         ReaderSilent(j) \/ \E e \in JobEvent : /\ MayFollow(disk[j].log, e)
                                                /\ ReaderWrites(j, e)
  PROVE  Alone(j) /\ Tells(j)
<1>1. Placed(j)'
  BY ReaderFinds DEF ReaderMoves, Placed
<1> QED
  BY <1>1, ReaderFinds DEF Tells, ReaderMoves, ReaderSilent, ReaderWrites, Served

LEMMA PhaseTells ==
  ASSUME HistoryInv, NEW j \in Jobs, ReadPhase(j) PROVE Alone(j) /\ Tells(j)
<1> DEFINE e == PhaseEvent
<1>1. Reads(j) /\ ~mem[j].cancelReq /\ ~reader[j].phase
  BY DEF ReadPhase, Takes
<1>2. e \in JobEvent /\ e.kind = "phase" /\ e.status = "running" /\ e.count = 0
  BY EventTypes DEF PhaseEvent
<1>3. /\ reader' = [reader EXCEPT ![j].phase = TRUE]
      /\ disk' = [disk EXCEPT ![j].log = Append(@, e)]
      /\ mem' = [mem EXCEPT ![j].status = e.status]
      /\ UNCHANGED <<svc, booking, pc, goal>>
  BY DEF ReadPhase, AppendEvent, readerFrame
<1> HIDE DEF e
<1>4. TypeOK /\ mem[j].count = 0 /\ LastOf(disk[j].log).count = 0 /\ ~HasPhase(disk[j].log)
  <2>1. LastOf(disk[j].log).count \in Nat
    BY <1>1, ReaderFinds DEF JobEvent
  <2> QED
    BY <1>1, <2>1, ReaderFinds DEF Told, PhaseTold, CountTold
<1>5. /\ ReaderMoves(j) /\ ReaderWrites(j, e)
      /\ reader'[j].phase = TRUE /\ reader'[j].pending = reader[j].pending
      /\ reader'[j].outcome = reader[j].outcome /\ reader'[j].batch = reader[j].batch
  BY <1>1, <1>2, <1>3, <1>4, ReaderFinds DEF TypeOK, MemOK, ReaderOK, DiskOK, ReaderMoves,
     ReaderWrites, Alone, Rests
<1>6. MayFollow(disk[j].log, e)
  BY <1>1, <1>2, <1>4, ReaderFinds DEF MayFollow, LegalStep, FollowsRunning
<1>7. Told(j)'
  BY <1>1, <1>2, <1>4, <1>5, ReaderFinds, OneMoreEvent DEF ReaderMoves, ReaderWrites, Told,
     StatusTold, CountTold, PhaseTold, ResultTold
<1> QED
  BY <1>1, <1>2, <1>5, <1>6, <1>7, ReaderTells

\* A candidate that is reported, and one that is counted only.
LEMMA CandidateTells ==
  ASSUME HistoryInv, NEW j \in Jobs, ReadCandidate(j) PROVE Alone(j) /\ Tells(j)
<1> DEFINE n == mem[j].count + 1
           e == CandidateEvent(n)
<1>1. /\ Reads(j) /\ ~mem[j].cancelReq /\ reader[j].phase /\ reader[j].outcome = "none"
  BY DEF ReadCandidate, Takes
<1>2. /\ TypeOK /\ mem[j].count \in Nat /\ n \in Nat /\ n > 0 /\ n - 1 = mem[j].count
      /\ LastOf(disk[j].log).count \in Nat /\ LastOf(disk[j].log).count <= mem[j].count
      /\ NamesUpTo(disk[j].log, mem[j].count) /\ HasPhase(disk[j].log)
  <2>1. /\ TypeOK /\ mem[j].count \in Nat /\ LastOf(disk[j].log) \in JobEvent /\ Told(j)
    BY <1>1, ReaderFinds
  <2>2. n \in Nat /\ n > 0 /\ n - 1 = mem[j].count
    BY <2>1
  <2>3. LastOf(disk[j].log).count \in Nat
    BY <2>1 DEF JobEvent
  <2> QED
    BY <1>1, <2>1, <2>2, <2>3 DEF Told, CountTold, PhaseTold
<1>3. /\ e \in JobEvent /\ e.kind = "candidate" /\ e.status = "running" /\ e.count = n
  BY <1>2, EventTypes DEF CandidateEvent
<1>4. \A i \in 2..Len(disk[j].log) : disk[j].log[i].count \in Nat
  <2>1. disk[j].log \in Seq(JobEvent)
    BY <1>1, ReaderFinds
  <2>2. \A i \in 2..Len(disk[j].log) : disk[j].log[i] \in JobEvent
    BY <2>1
  <2> QED
    BY <2>2 DEF JobEvent
<1>5. NamesUpTo(disk[j].log, n)
  BY <1>2, <1>4 DEF NamesUpTo
<1>6. UNCHANGED <<svc, booking, pc, goal>>
  BY DEF ReadCandidate, readerFrame
<1>7. CASE /\ mem' = [mem EXCEPT ![j].count = n, ![j].status = "running"]
           /\ disk' = [disk EXCEPT ![j].log = Append(@, e)]
           /\ reader' = [reader EXCEPT ![j].pending = FALSE]
  <2> HIDE DEF e, n
  <2>1. /\ ReaderMoves(j) /\ ReaderWrites(j, e)
        /\ reader'[j].phase = reader[j].phase /\ reader'[j].pending = FALSE
        /\ reader'[j].outcome = reader[j].outcome /\ reader'[j].batch = reader[j].batch
    <3>1. /\ \A k \in Jobs \ {j} : mem'[k] = mem[k] /\ reader'[k] = reader[k]
          /\ mem'[j].count = n /\ mem'[j].status = "running"
          /\ mem'[j].cancelReq = mem[j].cancelReq
          /\ reader'[j].phase = reader[j].phase /\ reader'[j].pending = FALSE
          /\ reader'[j].outcome = reader[j].outcome /\ reader'[j].batch = reader[j].batch
          /\ reader'[j].state = reader[j].state
      BY <1>2, <1>7 DEF TypeOK, MemOK, ReaderOK
    <3>2. /\ \A k \in Jobs : disk'[k].dir = disk[k].dir
          /\ \A k \in Jobs \ {j} : disk'[k].log = disk[k].log
          /\ disk'[j].log = Append(disk[j].log, e)
      BY <1>2, <1>7 DEF TypeOK, DiskOK
    <3> QED
      BY <1>1, <1>3, <1>6, <3>1, <3>2, ReaderFinds DEF ReaderMoves, ReaderWrites, Alone, Rests
  <2>2. MayFollow(disk[j].log, e)
    <3>1. LastOf(disk[j].log).count <= n
      BY <1>2
    <3> QED
      BY <1>1, <1>2, <1>3, <3>1, ReaderFinds DEF MayFollow, LegalStep, FollowsRunning
  <2>3. Told(j)'
    BY <1>1, <1>2, <1>3, <1>5, <2>1, ReaderFinds, OneMoreEvent DEF ReaderMoves, ReaderWrites,
       Told, StatusTold, CountTold, PhaseTold, ResultTold
  <2> QED
    BY <1>1, <1>3, <2>1, <2>2, <2>3, ReaderTells
<1>8. CASE /\ mem' = [mem EXCEPT ![j].count = n]
           /\ reader' = [reader EXCEPT ![j].pending = TRUE]
           /\ UNCHANGED disk
  <2> HIDE DEF e, n
  <2>1. /\ ReaderMoves(j) /\ ReaderSilent(j) /\ mem'[j].count = n
        /\ reader'[j].phase = reader[j].phase /\ reader'[j].pending = TRUE
        /\ reader'[j].outcome = reader[j].outcome /\ reader'[j].batch = reader[j].batch
    <3>1. /\ \A k \in Jobs \ {j} : mem'[k] = mem[k] /\ reader'[k] = reader[k]
          /\ mem'[j].count = n /\ mem'[j].status = mem[j].status
          /\ mem'[j].cancelReq = mem[j].cancelReq
          /\ reader'[j].phase = reader[j].phase /\ reader'[j].pending = TRUE
          /\ reader'[j].outcome = reader[j].outcome /\ reader'[j].batch = reader[j].batch
          /\ reader'[j].state = reader[j].state
      BY <1>2, <1>8 DEF TypeOK, MemOK, ReaderOK
    <3> QED
      BY <1>1, <1>6, <1>8, <3>1, ReaderFinds DEF ReaderMoves, ReaderSilent, Alone, Rests
  <2>2. Told(j)'
    BY <1>1, <1>2, <1>5, <2>1, ReaderFinds DEF ReaderMoves, ReaderSilent, Told, StatusTold,
       CountTold, PhaseTold, ResultTold
  <2> QED
    BY <1>1, <2>1, <2>2, ReaderTells
<1> QED
  BY <1>7, <1>8 DEF ReadCandidate

\* What is pending is reported before the reader ends.
LEMMA FlushTells ==
  ASSUME HistoryInv, NEW j \in Jobs, Reads(j), ~mem[j].cancelReq, Flush(j),
         UNCHANGED <<svc, booking, pc, goal>>,
         \A k \in Jobs \ {j} : reader'[k] = reader[k],
         reader'[j].state # "off", reader'[j].phase = reader[j].phase, ~reader'[j].pending,
         \/ reader'[j].outcome = reader[j].outcome /\ reader'[j].batch = reader[j].batch
         \/ reader'[j].batch = mem[j].count /\ reader[j].phase
  PROVE  Alone(j) /\ Tells(j)
<1> DEFINE e == CandidateEvent(mem[j].count)
<1>1. /\ TypeOK /\ mem[j].count \in Nat
      /\ LastOf(disk[j].log).count \in Nat /\ LastOf(disk[j].log).count <= mem[j].count
      /\ NamesUpTo(disk[j].log, mem[j].count)
      /\ LastOf(disk[j].log).status = "running"
      /\ reader[j].phase <=> HasPhase(disk[j].log)
  BY ReaderFinds DEF JobEvent, Told, CountTold, PhaseTold
<1>2. CASE reader[j].pending
  <2>1. /\ mem[j].count > 0 /\ NamesUpTo(disk[j].log, mem[j].count - 1)
        /\ HasPhase(disk[j].log)
    BY <1>1, <1>2, ReaderFinds DEF Told, CountTold, PhaseTold
  <2>2. /\ e \in JobEvent /\ e.kind = "candidate" /\ e.status = "running"
        /\ e.count = mem[j].count
    BY <1>1, EventTypes DEF CandidateEvent
  <2>3. /\ disk' = [disk EXCEPT ![j].log = Append(@, e)]
        /\ mem' = [mem EXCEPT ![j].status = e.status]
    BY <1>2 DEF Flush, AppendEvent
  <2> HIDE DEF e
  <2>4. ReaderMoves(j) /\ ReaderWrites(j, e)
    BY <1>1, <2>2, <2>3 DEF TypeOK, MemOK, DiskOK, ReaderMoves, ReaderWrites, Alone, Rests
  <2>5. MayFollow(disk[j].log, e)
    BY <1>1, <2>1, <2>2 DEF MayFollow, LegalStep, FollowsRunning
  <2>6. Told(j)'
    BY <1>1, <2>2, <2>4, ReaderFinds, OneMoreEvent DEF ReaderMoves, ReaderWrites, Told,
       StatusTold, CountTold, PhaseTold, ResultTold
  <2> QED
    BY <2>2, <2>4, <2>5, <2>6, ReaderTells
<1>3. CASE ~reader[j].pending
  <2>1. mem' = mem /\ disk' = disk
    BY <1>3 DEF Flush
  <2>2. ReaderMoves(j) /\ ReaderSilent(j)
    BY <2>1 DEF ReaderMoves, ReaderSilent, Alone, Rests
  <2>3. Told(j)'
    BY <1>1, <2>1, ReaderFinds DEF Told, StatusTold, CountTold, PhaseTold, ResultTold
  <2> QED
    BY <2>2, <2>3, ReaderTells
<1> QED
  BY <1>2, <1>3

LEMMA ReaderLines ==
  ASSUME HistoryInv, NEW j \in Jobs, Reader(j) PROVE Alone(j) /\ Tells(j)
<1> USE DEF readerFrame, taskVars
<1>1. ASSUME NEW n \in 0..MaxCandidates, ReadComplete(j, n) PROVE Alone(j) /\ Tells(j)
  <2>1. Reads(j) /\ ~mem[j].cancelReq /\ Flush(j) /\ UNCHANGED <<svc, booking, pc, goal>>
    BY <1>1 DEF ReadComplete, Takes
  <2>2. /\ \A k \in Jobs \ {j} : reader'[k] = reader[k]
        /\ reader'[j].state # "off" /\ reader'[j].phase = reader[j].phase
        /\ reader'[j].pending = FALSE
        /\ reader'[j].batch = mem[j].count /\ reader[j].phase
    <3>1. /\ n = mem[j].count /\ reader[j].phase
          /\ reader' = [reader EXCEPT ![j].outcome = "result", ![j].batch = n,
                                      ![j].pending = FALSE]
      BY <1>1 DEF ReadComplete
    <3>2. reader \in ReaderOK /\ reader[j].state = "reading"
      BY <2>1, ReaderFinds DEF TypeOK
    <3> QED
      BY <3>1, <3>2 DEF ReaderOK
  <2> QED
    BY <2>1, <2>2, FlushTells
<1>2. CASE ReadFailure(j) \/ ReadInvalid(j)
  <2>1. Reads(j) /\ UNCHANGED <<svc, booking, pc, goal, mem, disk>>
    BY <1>2 DEF ReadFailure, ReadInvalid, Takes
  <2>2. /\ \A k \in Jobs \ {j} : reader'[k] = reader[k]
        /\ reader'[j].state # "off" /\ reader'[j].phase = reader[j].phase
        /\ reader'[j].pending = reader[j].pending /\ reader'[j].batch = reader[j].batch
        /\ reader'[j].outcome = reader[j].outcome \/ reader'[j].outcome = "failure"
    <3>1. TypeOK /\ reader[j].state = "reading"
      BY <2>1, ReaderFinds
    <3>2. CASE ReadFailure(j)
      BY <3>1, <3>2 DEF ReadFailure, TypeOK, ReaderOK
    <3>3. CASE ReadInvalid(j)
      BY <3>1, <3>3 DEF ReadInvalid, TypeOK, ReaderOK
    <3> QED
      BY <1>2, <3>2, <3>3
  <2>3. ReaderMoves(j) /\ ReaderSilent(j)
    BY <2>1, <2>2 DEF ReaderMoves, ReaderSilent, Alone, Rests
  <2>4. Told(j)'
    BY <2>1, <2>2, ReaderFinds DEF Told, StatusTold, CountTold, PhaseTold, ResultTold
  <2> QED
    BY <2>1, <2>3, <2>4, ReaderTells
<1>3. CASE ReadEOF(j)
  <2>1. Reads(j) /\ UNCHANGED <<svc, booking, pc, goal>>
    BY <1>3 DEF ReadEOF
  <2>2. /\ \A k \in Jobs \ {j} : reader'[k] = reader[k]
        /\ reader'[j].state # "off" /\ reader'[j].phase = reader[j].phase
        /\ reader'[j].pending = FALSE /\ reader'[j].batch = reader[j].batch
        /\ reader'[j].outcome = reader[j].outcome
    BY <1>3, <2>1, ReaderFinds DEF ReadEOF, TypeOK, ReaderOK
  <2>3. CASE mem[j].cancelReq
    <3>1. mem' = mem /\ disk' = disk
      BY <1>3, <2>3 DEF ReadEOF
    <3>2. ReaderMoves(j) /\ ReaderSilent(j)
      BY <2>1, <2>2, <3>1 DEF ReaderMoves, ReaderSilent, Alone, Rests
    <3>3. Told(j)'
      BY <2>1, <2>2, <2>3, <3>1, ReaderFinds DEF Told, StatusTold, CountTold, PhaseTold,
         ResultTold
    <3> QED
      BY <2>1, <3>2, <3>3, ReaderTells
  <2>4. CASE ~mem[j].cancelReq
    BY <1>3, <2>1, <2>2, <2>4, FlushTells DEF ReadEOF
  <2> QED
    BY <2>3, <2>4
<1> QED
  BY <1>1, <1>2, <1>3, PhaseTells, CandidateTells DEF Reader


\* Behind the terminal event the history only has to stay what it is.
LEMMA OverKeeps ==
  ASSUME HistoryInv, NEW j \in Jobs, pc[j] \notin {"none", "recover"},
         pc'[j] \notin OpenPC \cup {"recover"},
         disk'[j].dir = disk[j].dir, UNCHANGED booking,
         \/ disk'[j].log = disk[j].log
         \/ ValidHistory(disk'[j].log) \/ CancelledTooLate(disk'[j].log)
  PROVE  HistoryJob(j)'
<1>1. HistoryJob(j) /\ EndInv(j) /\ JobInv(j) /\ TypeOK
  BY DEF HistoryInv, CallInv, OutcomeInv, CancelInv, TypeInv
<1>2. disk[j].dir = "made" /\ j \notin InCall(booking)
  BY <1>1 DEF EndInv, Uncreated, JobInv, NewIsIdle, Idle
<1> QED
  BY <1>1, <1>2 DEF HistoryJob, Replays, NewIsEmpty, RecoveryTold, RecoversFiles, Served, OpenPC

\* The terminal event follows, or it is the timeout of a job cancelled too late.
LEMMA TerminalMayFollow ==
  ASSUME HistoryInv, NEW j \in Jobs, pc[j] = "fin_event", svc \in {"up", "recovering"},
         NEW e \in JobEvent, e.kind = "terminal", e.status = goal[j], e.count = mem[j].count,
         goal[j] = "completed" => e.batch = reader[j].batch
  PROVE  \/ MayFollow(disk[j].log, e)
         \/ LastOf(disk[j].log).status = "cancelling" /\ e.status = "timed_out"
<1>1. /\ TypeOK /\ HistoryJob(j) /\ EndInv(j) /\ goal[j] \in Terminal
      /\ e.status \in Terminal
  BY DEF HistoryInv, CallInv, OutcomeInv, CancelInv, TypeInv, TypeOK, GoalChosen, JobEvent
<1>2. disk[j].log # <<>> /\ ~IsClosed(disk[j].log) /\ disk[j].log \in Seq(JobEvent)
  BY <1>1, FieldTypes DEF EndInv, Uncreated, Created, ClosedIsOver, TypeOK, DiskOK
<1>3. LastOf(disk[j].log) \in JobEvent /\ LastOf(disk[j].log).status \notin Terminal
  BY <1>2, LastEvent DEF LastOf
<1>4. /\ LastOf(disk[j].log).count \in Nat
      /\ LastOf(disk[j].log).status \in {"queued", "running", "cancelling"}
  BY <1>3 DEF JobEvent, JobStatus
<1>5. CASE svc = "recovering"
  <2>1. goal[j] = "failed" /\ mem[j].count = LastOf(disk[j].log).count
    BY <1>1, <1>5 DEF HistoryJob, RecoveryTold
  <2> QED
    BY <1>4, <2>1 DEF MayFollow, LegalStep, FollowsQueued, FollowsRunning, FollowsCancelling
<1>6. CASE svc = "up"
  <2>1. Served(j)
    BY <1>6 DEF Served, OpenPC
  <2>2. Told(j) /\ Placed(j) /\ (mem[j].cancelReq => goal[j] # "completed")
    BY <2>1, ServedIsOpen
  <2>3. LastOf(disk[j].log).count <= e.count
    BY <2>2 DEF Told, CountTold
  <2>4. CASE goal[j] = "completed"
    <3>1. ~mem[j].cancelReq /\ reader[j].outcome = "result" /\ reader[j].state # "off"
      BY <2>2, <2>4 DEF Placed
    <3>2. /\ reader[j].batch = mem[j].count /\ HasPhase(disk[j].log)
          /\ NamesUpTo(disk[j].log, mem[j].count)
          /\ LastOf(disk[j].log).status = "running"
      BY <2>2, <3>1 DEF Told, ResultTold, PhaseTold, CountTold, StatusTold
    <3> QED
      BY <2>3, <2>4, <3>2 DEF MayFollow, LegalStep, FollowsRunning
  <2>5. CASE goal[j] # "completed"
    <3>1. /\ goal[j] = "cancelled" => mem[j].cancelReq
          /\ mem[j].cancelReq <=> LastOf(disk[j].log).status = "cancelling"
      BY <1>1, <2>2, FieldTypes DEF Placed, Told, StatusTold
    <3>2. LegalStep(LastOf(disk[j].log).status, e) \/
            (LastOf(disk[j].log).status = "cancelling" /\ e.status = "timed_out")
      BY <1>1, <1>4, <2>5, <3>1 DEF LegalStep, FollowsQueued, FollowsRunning, FollowsCancelling,
         Terminal
    <3> QED
      BY <2>3, <2>5, <3>2 DEF MayFollow
  <2> QED
    BY <2>4, <2>5
<1> QED
  BY <1>5, <1>6

LEMMA RunnerEnds ==
  ASSUME HistoryInv, NEW j \in Jobs,
         FinishEvent(j) \/ FinishMeta(j) \/ FinishFails(j) \/ Cleanup(j) \/ Reap(j)
  PROVE  Alone(j) /\ HistoryJob(j)'
<1>1. TypeOK /\ HistoryJob(j) /\ EndInv(j)
  BY DEF HistoryInv, CallInv, OutcomeInv, CancelInv, TypeInv
<1> USE DEF taskVars, osVars
<1>2. CASE FinishEvent(j)
  <2> DEFINE e == TerminalEvent(goal[j], mem[j].count,
                                IF goal[j] = "completed" THEN reader[j].batch ELSE 0)
             h == disk[j].log
  <2>1. /\ pc[j] = "fin_event" /\ goal[j] \in Terminal /\ svc \in {"up", "recovering"}
    BY <1>1, <1>2 DEF HistoryInv, CallInv, OutcomeInv, CancelInv, TypeInv, TypeOK, GoalChosen,
       FinishEvent
  <2>2. /\ e \in JobEvent /\ e.kind = "terminal" /\ e.status = goal[j]
        /\ e.count = mem[j].count
        /\ goal[j] = "completed" => e.batch = reader[j].batch
    BY <1>1, <2>1, FieldTypes, EventTypes DEF TerminalEvent
  <2>3. /\ pc' = [pc EXCEPT ![j] = "fin_meta"]
        /\ mem' = [mem EXCEPT ![j].status = e.status]
        /\ disk' = [disk EXCEPT ![j].log = Append(@, e)]
        /\ reader' = reader \/ reader' = [reader EXCEPT ![j] = NoReader]
        /\ UNCHANGED <<svc, booking, goal>>
    BY <1>2 DEF FinishEvent, AppendEvent, LocalsDropped, Goto
  <2> HIDE DEF e
  <2>4. /\ pc'[j] = "fin_meta" /\ disk'[j].dir = disk[j].dir
        /\ disk'[j].log = Append(h, e)
        /\ Alone(j)
    BY <1>1, <2>3 DEF TypeOK, MemOK, ReaderOK, DiskOK, Alone, Rests
  <2>5. /\ h # <<>> /\ ~IsClosed(h) /\ h \in Seq(JobEvent) /\ ValidHistory(h)
    BY <1>1, <2>1, FieldTypes DEF EndInv, Uncreated, Created, ClosedIsOver, TypeOK, DiskOK,
       HistoryJob, Replays, CancelledTooLate
  <2> HIDE DEF h
  <2>6. ValidHistory(Append(h, e)) \/ CancelledTooLate(Append(h, e))
    <3>1. CASE MayFollow(h, e)
      BY <2>2, <2>5, <3>1, ValidGrows
    <3>2. CASE LastOf(h).status = "cancelling" /\ e.status = "timed_out"
      <4>1. /\ IsClosed(Append(h, e)) /\ Outcome(Append(h, e)) = "timed_out"
        BY <2>2, <2>5, <3>2, LogGrows
      <4>2. Append(h, e)[Len(Append(h, e)) - 1] = LastOf(h)
        BY <2>2, <2>5 DEF LastOf
      <4> QED
        BY <3>2, <4>1, <4>2 DEF CancelledTooLate
    <3> QED
      BY <2>1, <2>2, <3>1, <3>2, TerminalMayFollow DEF h
  <2> QED
    BY <2>1, <2>3, <2>4, <2>6, OverKeeps DEF OpenPC
<1>3. CASE FinishMeta(j) \/ FinishFails(j) \/ Cleanup(j) \/ Reap(j)
  <2>1. /\ pc[j] \notin {"none", "recover"} /\ UNCHANGED <<svc, booking>>
        /\ \E to \in EndPC \cup {"none"} : pc' = [pc EXCEPT ![j] = to]
        /\ goal' = goal \/ goal' = [goal EXCEPT ![j] = "none"]
        /\ mem' = mem \/ mem' = [mem EXCEPT ![j].status = goal[j]]
        /\ reader' = reader \/ reader' = [reader EXCEPT ![j] = NoReader]
        /\ \/ disk' = disk \/ disk' = [disk EXCEPT ![j].staging = FALSE]
           \/ disk' = [disk EXCEPT ![j].terminal = goal[j]]
    BY <1>3 DEF FinishMeta, FinishFails, Cleanup, Reap, Turn, Goto, LocalsDropped, EndPC
  <2>2. \A k \in Jobs : disk'[k].dir = disk[k].dir /\ disk'[k].log = disk[k].log
    <3>1. CASE disk' = disk
      BY <3>1
    <3>2. CASE disk' = [disk EXCEPT ![j].staging = FALSE]
      BY <1>1, <3>2 DEF TypeOK, DiskOK
    <3>3. CASE disk' = [disk EXCEPT ![j].terminal = goal[j]]
      BY <1>1, <3>3 DEF TypeOK, DiskOK
    <3> QED
      BY <2>1, <3>1, <3>2, <3>3
  <2>3. Alone(j)
    BY <1>1, <2>1, <2>2 DEF TypeOK, MemOK, ReaderOK, Alone, Rests
  <2>4. pc'[j] \in EndPC \cup {"none"}
    BY <1>1, <2>1 DEF TypeOK
  <2> QED
    BY <2>1, <2>2, <2>3, <2>4, OverKeeps DEF OpenPC, EndPC
<1> QED
  BY <1>2, <1>3


\* A history that has only begun.
LEMMA QueuedIsValid ==
  LET h == <<StatusEvent("queued", 0)>> IN
  /\ h # <<>> /\ ValidHistory(h) /\ ~HasPhase(h) /\ \A n \in Nat : NamesUpTo(h, n)
  /\ LastOf(h).status = "queued" /\ LastOf(h).count = 0
<1> DEFINE e == StatusEvent("queued", 0)
           h == <<e>>
<1>1. e.kind = "status" /\ e.status = "queued" /\ e.count = 0
  BY DEF StatusEvent
<1>2. h # <<>> /\ Len(h) = 1 /\ h[1] = e /\ 2..Len(h) = {} /\ 1..Len(h)-1 = {}
  OBVIOUS
<1> HIDE DEF h
<1>3. ~HasPhase(h) /\ \A n \in Nat : NamesUpTo(h, n)
  BY <1>2 DEF HasPhase, NamesUpTo
<1>4. ~IsClosed(h)
  BY <1>1, <1>2 DEF IsClosed
<1>5. ValidHistory(h)
  BY <1>2, <1>4 DEF ValidHistory, StartsQueued, CountsNeverDrop, TerminalIsLast, StepsAreLegal,
     OnePhase, CandidatesInOrder, CompletedAgreesWithBatch
<1> QED
  BY <1>1, <1>2, <1>3, <1>5 DEF LastOf, h

LEMMA CreationTells ==
  ASSUME HistoryInv, NEW i \in {1, 2}, MakeDirectory(i) \/ QueueJob(i), NEW k \in Jobs
  PROVE  HistoryJob(k)'
<1> DEFINE q == StatusEvent("queued", 0)
<1>1. /\ TypeOK /\ OutcomeInv /\ svc = "up" /\ \A m \in Jobs : HistoryJob(m) /\ JobInv(m)
      /\ EndInv(k)'
  BY CreationKeeps DEF HistoryInv, CallInv, OutcomeInv, CancelInv, TypeInv, MakeDirectory,
     QueueJob, IsNext
<1>2. PICK j \in Jobs : j = booking[i] /\ j \in InCall(booking) /\ disk[j].dir # "made"
  BY <1>1, BookedIsJob DEF TypeOK, MakeDirectory, QueueJob, IsNext, InCall
<1>3. pc[j] = "none" /\ NewIsEmpty(j)
  BY <1>1, <1>2 DEF JobInv, NewIsIdle, Idle, HistoryJob
<1>4. CASE MakeDirectory(i)
  <2>1. /\ disk' = [disk EXCEPT ![j].dir = "partial"]
        /\ UNCHANGED <<svc, booking, pc, goal, mem, reader>>
    BY <1>2, <1>4 DEF MakeDirectory, taskVars
  <2>2. CASE k # j
    BY <1>1, <2>1, <2>2, RestKeeps DEF TypeOK, DiskOK, Rests
  <2>3. CASE k = j
    <3>1. disk'[j].dir = "partial" /\ disk'[j].log = disk[j].log
      BY <1>1, <2>1 DEF TypeOK, DiskOK
    <3> QED
      BY <1>1, <1>2, <1>3, <2>1, <2>3, <3>1 DEF HistoryJob, Replays, NewIsEmpty, RecoveryTold,
         RecoversFiles, Served, OpenPC
  <2> QED
    BY <2>2, <2>3
<1>5. CASE QueueJob(i)
  <2>1. /\ disk[j].dir = "partial"
        /\ disk' = [disk EXCEPT ![j].dir = "made", ![j].log = <<q>>]
        /\ mem' = [mem EXCEPT ![j].status = "queued"]
        /\ UNCHANGED <<svc, goal, reader>>
        /\ \/ UNCHANGED <<pc, booking>>
           \/ /\ pc' = [m \in Jobs |-> IF m \in InCall(booking) THEN "init" ELSE pc[m]]
              /\ booking' = <<>>
    BY <1>2, <1>5 DEF QueueJob
  <2> HIDE DEF q
  <2>2. /\ disk'[k].dir = (IF k = j THEN "made" ELSE disk[k].dir)
        /\ disk'[k].log = (IF k = j THEN <<q>> ELSE disk[k].log)
        /\ mem'[k].count = mem[k].count /\ mem'[k].cancelReq = mem[k].cancelReq
        /\ k # j => mem'[k] = mem[k]
    BY <1>1, <2>1 DEF TypeOK, DiskOK, MemOK
  <2>3. Replays(k)'
    BY <1>1, <2>2, QueuedIsValid DEF HistoryJob, Replays, CancelledTooLate, q
  <2>4. NewIsEmpty(k)'
    <3>1. booking' = booking \/ InCall(booking') = {}
      BY <2>1 DEF InCall
    <3> QED
      BY <1>1, <1>2, <1>3, <2>1, <2>2, <3>1 DEF HistoryJob, NewIsEmpty, q
  <2>5. RecoveryTold(k)'
    BY <1>1, <2>1 DEF RecoveryTold
  <2>6. CASE pc'[k] = pc[k]
    <3>1. RecoversFiles(k)'
      BY <1>1, <1>3, <2>2, <2>6 DEF HistoryJob, RecoversFiles
    <3>2. CASE k = j
      BY <1>3, <2>3, <2>4, <2>5, <2>6, <3>1, <3>2 DEF HistoryJob, Served, OpenPC
    <3>3. CASE k # j
      BY <1>1, <2>1, <2>2, <2>3, <2>4, <2>5, <2>6, <3>1, <3>3 DEF HistoryJob, Served, Told,
         Placed, StatusTold, CountTold, PhaseTold, ResultTold
    <3> QED
      BY <3>2, <3>3
  <2>7. CASE k \in InCall(booking) /\ pc'[k] = "init"
    <3>1. disk'[k].dir = "made" /\ disk'[k].log # <<>>
      BY <1>1, <2>7 DEF EndInv, Uncreated, Created
    <3>2. disk'[k].log = <<q>>
      BY <1>1, <2>2, <2>7, <3>1 DEF HistoryJob, NewIsEmpty, q
    <3>3. /\ mem[k].count = 0 /\ reader[k] = NoReader /\ goal[k] # "completed"
          /\ ~mem[k].cancelReq
      BY <1>1, <2>7 DEF HistoryJob, NewIsEmpty, JobInv, NewIsIdle, Idle
    <3>4. Told(k)'
      <4>1. /\ reader'[k].state = "off" /\ ~reader'[k].phase /\ ~reader'[k].pending
            /\ reader'[k].outcome = "none"
            /\ mem'[k].count = 0 /\ ~mem'[k].cancelReq
        BY <2>1, <2>2, <3>3 DEF NoReader
      <4>2. LET h == disk'[k].log IN
            /\ ~HasPhase(h) /\ NamesUpTo(h, 0)
            /\ LastOf(h).status = "queued" /\ LastOf(h).count = 0
        BY <3>2, QueuedIsValid DEF q
      <4> QED
        BY <4>1, <4>2 DEF Told, StatusTold, CountTold, PhaseTold, ResultTold
    <3>5. Placed(k)'
      BY <2>1, <2>7, <3>3 DEF Placed, NoReader
    <3> QED
      BY <2>3, <2>4, <2>5, <2>7, <3>4, <3>5 DEF HistoryJob, RecoversFiles
  <2> QED
    BY <1>1, <2>1, <2>6, <2>7
<1> QED
  BY <1>4, <1>5

LEMMA CallTells ==
  ASSUME HistoryInv, CreationFails \/ \E call \in Calls : Start(call), NEW k \in Jobs
  PROVE  HistoryJob(k)'
<1>1. HistoryJob(k) /\ InCall(<<>>) = {}
  BY DEF HistoryInv, InCall
<1>2. /\ UNCHANGED <<svc, pc, goal, mem, reader, disk>>
      /\ k \in InCall(booking') => disk[k].dir = "none"
  BY <1>1 DEF CreationFails, Start, taskVars
<1> QED
  BY <1>1, <1>2 DEF HistoryJob, Replays, NewIsEmpty, RecoveryTold, RecoversFiles, Served, Told,
     Placed, StatusTold, CountTold, PhaseTold, ResultTold

\* The service ends and starts again, and reads what it wrote.
LEMMA ServiceTells ==
  ASSUME HistoryInv, Crash \/ CutShort \/ Shutdown \/ Restart \/ Recovered, NEW k \in Jobs
  PROVE  HistoryJob(k)'
<1>1. TypeOK /\ HistoryJob(k) /\ InCall(<<>>) = {}
  BY DEF HistoryInv, CallInv, OutcomeInv, CancelInv, TypeInv, InCall
<1> USE DEF HistoryJob, Replays, NewIsEmpty, RecoveryTold, RecoversFiles, Served, OpenPC
<1>2. CASE Crash \/ CutShort \/ Shutdown
  <2>1. disk'[k].dir = disk[k].dir /\ disk'[k].log = disk[k].log
    <3>1. CASE Crash \/ Shutdown
      BY <1>1, <3>1 DEF TypeOK, DiskOK, Crash, Shutdown
    <3>2. CASE CutShort
      <4>1. PICK j \in Jobs, f \in TornFile : CutWrite(j, f)
        BY <3>2 DEF CutShort
      <4> QED
        BY <1>1, <4>1 DEF TypeOK, DiskOK, CutWrite
    <3> QED
      BY <1>2, <3>1, <3>2
  <2> QED
    BY <1>1, <1>2, <2>1 DEF Crash, CutShort, CutWrite, Shutdown, MemoryLost, Unknown
<1>3. CASE Restart
  <2>1. /\ UNCHANGED <<booking, goal, mem, reader, disk>> /\ svc' = "recovering"
        /\ pc'[k] = IF disk[k].dir = "none" THEN "none" ELSE "recover"
    BY <1>3 DEF Restart
  <2> QED
    BY <1>1, <2>1
<1>4. CASE Recovered
  BY <1>1, <1>4 DEF Recovered, AllRecovered, taskVars
<1> QED
  BY <1>2, <1>3, <1>4

LEMMA RecoveryTells ==
  ASSUME HistoryInv, NEW j \in Jobs, RecoverRefuses(j) \/ RecoverClosed(j) \/ RecoverOpen(j),
         NEW k \in Jobs
  PROVE  HistoryJob(k)'
<1>1. /\ TypeOK /\ HistoryJob(k) /\ svc = "recovering" /\ booking = <<>> /\ InCall(<<>>) = {}
  BY DEF HistoryInv, CallInv, OutcomeInv, CancelInv, TypeInv, InCall, RecoverRefuses,
     RecoverClosed, RecoverOpen, Recovers
<1> USE DEF HistoryJob, Replays, NewIsEmpty, RecoveryTold, RecoversFiles, Served, OpenPC
<1>2. CASE RecoverRefuses(j)
  <2>1. /\ svc' = "refused" /\ pc'[k] = "none"
        /\ disk' = disk \/ disk' = [disk EXCEPT ![j].staging = FALSE]
        /\ UNCHANGED <<booking, mem, goal, reader>>
    BY <1>2 DEF RecoverRefuses
  <2>2. disk'[k].dir = disk[k].dir /\ disk'[k].log = disk[k].log
    <3>1. CASE disk' = disk
      BY <3>1
    <3>2. CASE disk' = [disk EXCEPT ![j].staging = FALSE]
      BY <1>1, <3>2 DEF TypeOK, DiskOK
    <3> QED
      BY <2>1, <3>1, <3>2
  <2> QED
    BY <1>1, <2>1, <2>2
<1>3. CASE RecoverClosed(j) \/ RecoverOpen(j)
  <2>1. /\ disk[j].dir = "made" /\ UNCHANGED <<svc, booking, reader>>
        /\ mem' = [mem EXCEPT ![j] = Recalled(j)]
        /\ \/ /\ pc' = [pc EXCEPT ![j] = "none"] /\ goal' = goal
              /\ disk' = [disk EXCEPT ![j] = Tidied(j)]
           \/ /\ pc' = [pc EXCEPT ![j] = "fin_event"]
              /\ goal' = [goal EXCEPT ![j] = "failed"]
              /\ disk' = [disk EXCEPT ![j] = Emptied(j)]
    BY <1>3 DEF RecoverClosed, RecoverOpen, Acceptable, Legible, Finish, Goto
  <2>2. /\ Tidied(j).dir = disk[j].dir /\ Tidied(j).log = disk[j].log
        /\ Emptied(j).dir = disk[j].dir /\ Emptied(j).log = disk[j].log
    BY <1>1 DEF TypeOK, DiskOK, Tidied, Emptied
  <2>3. \A m \in Jobs : disk'[m].dir = disk[m].dir /\ disk'[m].log = disk[m].log
    BY <1>1, <2>1, <2>2 DEF TypeOK, DiskOK
  <2>4. CASE k # j
    BY <1>1, <2>1, <2>3, <2>4, RestKeeps DEF TypeOK, MemOK, Rests
  <2>5. CASE k = j
    <3>1. /\ mem'[j].count = LastOf(disk[j].log).count
          /\ pc'[j] = "none" \/ (pc'[j] = "fin_event" /\ goal'[j] = "failed")
      BY <1>1, <2>1 DEF TypeOK, MemOK, Recalled, LastOf
    <3> QED
      BY <1>1, <2>1, <2>3, <2>5, <3>1
  <2> QED
    BY <2>4, <2>5
<1> QED
  BY <1>2, <1>3

\* A directory is refused only for what is wrong with its history.
LEMMA RefusalIsFounded ==
  ASSUME HistoryInv, NEW j \in Jobs, RecoverRefuses(j) PROVE RefusalFounded'
<1>1. /\ TypeOK /\ HistoryJob(j) /\ EndInv(j) /\ pc[j] = "recover" /\ ~Acceptable(j)
      /\ disk' = disk \/ disk' = [disk EXCEPT ![j].staging = FALSE]
      /\ torn' = torn
  BY DEF HistoryInv, CallInv, OutcomeInv, CancelInv, TypeInv, RecoverRefuses, Recovers, damage
<1>2. disk'[j].dir = disk[j].dir /\ disk'[j].log = disk[j].log
  <2>1. CASE disk' = disk
    BY <2>1
  <2>2. CASE disk' = [disk EXCEPT ![j].staging = FALSE]
    BY <1>1, <2>2 DEF TypeOK, DiskOK
  <2> QED
    BY <1>1, <2>1, <2>2
<1>3. disk[j].dir \in {"partial", "made"}
  BY <1>1 DEF TypeOK, DiskOK, HistoryJob, RecoversFiles
<1>4. CASE disk[j].dir = "made" /\ torn[j] = {} /\ ~CancelledTooLate(disk[j].log)
  <2>1. Legible(j) /\ "terminal.json" \notin torn[j]
    BY <1>1, <1>4 DEF EndInv, Created, HistoryJob, Replays, Legible
  <2>2. IF IsClosed(disk[j].log) THEN Consistent(j) ELSE disk[j].terminal = "none"
    BY <1>1 DEF EndInv, ArchiveFits, TerminalFile, Consistent
  <2> QED
    BY <1>1, <2>1, <2>2 DEF Acceptable
<1> QED
  BY <1>1, <1>2, <1>3, <1>4 DEF RefusalFounded

\* An event that cannot be written leaves the history, and memory at most ahead of it by
\* the candidate just counted.
LEMMA ReadFailsTells ==
  ASSUME HistoryInv, NEW j \in Jobs, ReadFails(j)
  PROVE  Alone(j) /\ Tells(j)
<1>1. /\ TypeOK /\ svc = "up" /\ reader[j].state = "reading" /\ ~mem[j].cancelReq
      /\ pc[j] \in {"run", "stopping", "settling"}
  BY DEF HistoryInv, CallInv, OutcomeInv, CancelInv, TypeInv, EndInv, ReaderRuns, ReadFails,
     Reports, Reads, Quiet
<1>2. Served(j) /\ Told(j) /\ Placed(j)
  BY <1>1, ServedIsOpen DEF Served, OpenPC
<1>3. /\ reader' = [reader EXCEPT ![j].state = "error"]
      /\ \/ mem' = mem
         \/ /\ mem' = [mem EXCEPT ![j].count = @ + 1]
            /\ reader[j].phase /\ reader[j].outcome = "none"
      /\ UNCHANGED <<svc, booking, pc, goal, disk>>
  BY DEF ReadFails, Takes
<1>4. /\ Alone(j)
      /\ mem'[j].cancelReq = mem[j].cancelReq /\ mem'[j].status = mem[j].status
      /\ \/ mem'[j].count = mem[j].count
         \/ /\ mem'[j].count = mem[j].count + 1
            /\ reader[j].phase /\ reader[j].outcome = "none"
  <2>1. CASE mem' = mem
    BY <1>1, <1>3, <2>1 DEF TypeOK, ReaderOK, Alone, Rests
  <2>2. CASE /\ mem' = [mem EXCEPT ![j].count = @ + 1]
             /\ reader[j].phase /\ reader[j].outcome = "none"
    BY <1>1, <1>3, <2>2 DEF TypeOK, MemOK, ReaderOK, Alone, Rests
  <2> QED
    BY <1>3, <2>1, <2>2
<1>5. /\ reader'[j].state = "error" /\ reader'[j].phase = reader[j].phase
      /\ reader'[j].pending = reader[j].pending /\ reader'[j].outcome = reader[j].outcome
      /\ reader'[j].batch = reader[j].batch
  BY <1>1, <1>3 DEF TypeOK, ReaderOK
<1>6. Placed(j)'
  BY <1>1, <1>2, <1>3, <1>4, <1>5 DEF Placed
<1>7. Told(j)'
  <2>1. mem[j].count \in Nat /\ LastOf(disk[j].log).count \in Nat
    <3>1. disk[j].log # <<>> /\ disk[j].log \in Seq(JobEvent)
      BY <1>2, ServedIsOpen
    <3>2. LastOf(disk[j].log) \in JobEvent
      BY <3>1 DEF LastOf
    <3> QED
      BY <1>1, <3>2, FieldTypes DEF JobEvent
  <2>2. NamesUpTo(disk[j].log, mem[j].count) => NamesUpTo(disk[j].log, mem[j].count + 1)
    <3>1. \A i \in 2..Len(disk[j].log) : disk[j].log[i].count \in Nat
      <4>1. disk[j].log \in Seq(JobEvent)
        BY <1>2, ServedIsOpen
      <4>2. \A i \in 2..Len(disk[j].log) : disk[j].log[i] \in JobEvent
        BY <4>1
      <4> QED
        BY <4>2 DEF JobEvent
    <3> QED
      BY <2>1, <3>1 DEF NamesUpTo
  <2>3. StatusTold(j)' /\ PhaseTold(j)'
    BY <1>1, <1>2, <1>3, <1>4, <1>5 DEF Told, StatusTold, PhaseTold
  <2>4. CountTold(j)'
    <3>1. CASE mem'[j].count = mem[j].count
      BY <1>2, <1>3, <1>5, <3>1 DEF Told, CountTold
    <3>2. CASE mem'[j].count = mem[j].count + 1
      <4>1. mem'[j].count - 1 = mem[j].count
        BY <2>1, <3>2
      <4> QED
        BY <1>2, <1>3, <1>5, <2>1, <2>2, <3>2, <4>1 DEF Told, CountTold
    <3> QED
      BY <1>4, <3>1, <3>2
  <2>5. ResultTold(j)'
    BY <1>2, <1>4, <1>5 DEF Told, ResultTold
  <2> QED
    BY <2>3, <2>4, <2>5 DEF Told
<1> QED
  BY <1>1, <1>2, <1>3, <1>4, <1>6, <1>7 DEF Tells, OpenPC

LEMMA HistoryInvInit == Init => HistoryInv
<1> SUFFICES ASSUME Init, NEW j \in Jobs PROVE HistoryJob(j)
  BY CallInvInit DEF Init, HistoryInv, RefusalFounded
<1>1. /\ disk[j] = NoFiles /\ mem[j] = Unknown /\ reader[j] = NoReader
      /\ pc[j] = "none" /\ goal[j] = "none" /\ svc = "up"
  BY DEF Init
<1>2. disk[j].log = <<>> /\ mem[j].count = 0
  BY <1>1 DEF NoFiles, Unknown
<1>3. NewIsEmpty(j)
  BY <1>1, <1>2 DEF NewIsEmpty
<1>4. Replays(j) /\ RecoveryTold(j) /\ RecoversFiles(j) /\ ~Served(j)
  BY <1>1, <1>2 DEF Replays, RecoveryTold, RecoversFiles, Served, OpenPC
<1> QED
  BY <1>3, <1>4 DEF HistoryJob

LEMMA HistoryInvStep == HistoryInv /\ [Next]_vars => HistoryInv'
<1> SUFFICES ASSUME HistoryInv, [Next]_vars
             PROVE  RefusalFounded' /\ \A k \in Jobs : HistoryJob(k)'
  BY CallInvStep DEF HistoryInv
<1> DEFINE Kept == RefusalFounded' /\ \A k \in Jobs : HistoryJob(k)'
<1>1. CallInv /\ OutcomeInv /\ TypeOK /\ RefusalFounded /\ \A k \in Jobs : HistoryJob(k)
  BY DEF HistoryInv, CallInv, OutcomeInv, CancelInv, TypeInv
<1>2. ASSUME UNCHANGED <<svc, torn>>,
             \A k \in Jobs : disk'[k].dir = disk[k].dir /\ disk'[k].log = disk[k].log
      PROVE  RefusalFounded'
  BY <1>1, <1>2 DEF RefusalFounded
<1>3. ASSUME svc' # "refused" PROVE RefusalFounded'
  BY <1>3 DEF RefusalFounded
<1>4. CASE UNCHANGED vars
  <2>1. \A k \in Jobs : HistoryJob(k)'
    BY <1>1, <1>4, RestKeeps DEF vars, taskVars, Rests
  <2> QED
    BY <1>2, <1>4, <2>1 DEF vars, damage
<1>5. ASSUME NEW j \in Jobs, \/ Runner(j) \/ Reader(j) \/ Cancel(j) \/ CancelFails(j)
                             \/ SpawnedFails(j) \/ FinishFails(j) \/ ReadFails(j)
      PROVE  Kept
  <2>1. svc' # "refused"
    BY <1>1, <1>5, RunnerAdvances, ReaderAndCancelAdvance DEF Advances, StepOf
  <2>2. Alone(j) /\ HistoryJob(j)'
    BY <1>5, RunnerPasses, PassesKeeps, SpawnedTells, CancelTells, ReaderLines, ReadFailsTells,
       TellsKeeps, RunnerEnds DEF Runner
  <2> QED
    BY <1>1, <1>3, <2>1, <2>2, RestKeeps DEF Alone
<1>6. ASSUME NEW j \in Jobs, Environment(j) \/ Thread(j) PROVE Kept
  <2>1. /\ UNCHANGED <<svc, booking, pc, goal, mem, reader, torn>>
        /\ \A k \in Jobs : disk'[k].dir = disk[k].dir /\ disk'[k].log = disk[k].log
    <3>1. UNCHANGED <<svc, booking, pc, goal, mem, reader, torn>>
      BY <1>6 DEF Environment, Expire, SpawnEnds, SpawnDropped, WorkerExits, KinExits, Thread,
         ThreadStages, ThreadFails, ThreadChecks, ThreadDiscards, threadFrame, taskVars, damage
    <3> QED
      BY <1>1, <1>6, <3>1, EnvironmentStill DEF Still
  <2>2. \A k \in Jobs : HistoryJob(k)'
    BY <1>1, <2>1, RestKeeps DEF Rests
  <2> QED
    BY <1>2, <2>1, <2>2
<1>7. CASE Creation \/ CreationFails \/ \E call \in Calls : Start(call)
  <2>1. svc' # "refused"
    BY <1>7 DEF Creation, MakeDirectory, QueueJob, IsNext, CreationFails, Start, Quiet
  <2> QED
    BY <1>3, <1>7, <2>1, CreationTells, CallTells DEF Creation
<1>8. CASE Crash \/ CutShort \/ Shutdown \/ Restart \/ Recovered
  <2>1. svc' # "refused"
    BY <1>8 DEF Crash, CutShort, CutWrite, Shutdown, MemoryLost, Restart, Recovered
  <2> QED
    BY <1>3, <1>8, <2>1, ServiceTells
<1>9. ASSUME NEW j \in Jobs, RecoverRefuses(j) \/ RecoverClosed(j) \/ RecoverOpen(j)
      PROVE  Kept
  <2>1. RecoverRefuses(j) \/ svc' # "refused"
    BY <1>9 DEF RecoverClosed, RecoverOpen, Recovers
  <2> QED
    BY <1>3, <1>9, <2>1, RefusalIsFounded, RecoveryTells
<1> QED
  BY <1>4, <1>5, <1>6, <1>7, <1>8, <1>9 DEF Next, Client, DiskFault, Recovery

LEMMA HistoryInvAlways == Spec => []HistoryInv
BY HistoryInvInit, HistoryInvStep, PTL DEF Spec

\* The events of every history pass the test of the next startup, but for the timeout of
\* a job that was cancelled during its grace period; and a service serves no job with a
\* file that ends in part of a write, unless a write has failed while it served
\* (_validate_event_history, cancel, _run_job, _append_event, _write_new).
THEOREM HistoriesReplay == Spec => []HistoriesReplayOrKnownDamage
<1>1. HistoryInv /\ TornInv => HistoriesReplayOrKnownDamage
  <2> SUFFICES ASSUME HistoryInv, TornInv, NEW j \in Jobs
               PROVE  /\ Log(j) # <<>> => ValidHistory(Log(j)) \/ CancelledTooLate(Log(j))
                      /\ svc = "up" /\ torn[j] # {} => faults > 0
    BY DEF HistoriesReplayOrKnownDamage
  <2> QED
    BY DEF HistoryInv, HistoryJob, Replays, TornInv, Tearing, Log
<1> QED
  BY <1>1, HistoryInvAlways, TornInvAlways, PTL

\* Startup refuses the files of this service for three reasons only: a creation cut short,
\* a file that ends in part of a write, and a cancel that came too late
\* (_recover_existing_jobs, _load_worker_pid, _load_terminal_metadata,
\* _parse_event_history).
THEOREM RefusalIsExplained == Spec => []RefusesOnlyKnownDamage
<1>1. HistoryInv => RefusesOnlyKnownDamage
  BY DEF HistoryInv, RefusalFounded, RefusesOnlyKnownDamage, Log
<1> QED
  BY <1>1, HistoryInvAlways, PTL

-----------------------------------------------------------------------------
(***************************************************************************)
(* A pair is reserved whole.                                               *)
(***************************************************************************)
\* Two calls have the same jobs or none in common: every identifier is a fresh uuid4
\* (start and start_pair in workbench/jobs.py).
FreshIds == \A c, d \in Calls : InCall(c) \cap InCall(d) # {} => InCall(c) = InCall(d)

\* Job j goes on, or would after a restart, and its companion k was not created.
Half(j, k) == disk[j].dir = "made" /\ ~IsClosed(disk[j].log) /\ disk[k].dir # "made"

\* That passes: the call is still creating, or recovery will close the job or refuse.
Passing(j) ==
  \/ svc = "up" /\ j \in InCall(booking)
  \/ svc \in {"down", "refused"}
  \/ svc = "recovering" /\ pc[j] \in {"recover", "fin_event"}

PairsTogether ==
  faults = 0 => \A call \in Calls : \A j, k \in InCall(call) : Half(j, k) => Passing(j)

PairInv == CallInv /\ PairsTogether

\* A closed history stays closed.
LEMMA ShownStaysClosed ==
  ASSUME TypeOK, NEW j \in Jobs, Shown(j), IsClosed(disk[j].log)
  PROVE  IsClosed(disk'[j].log)
<1>1. disk[j].log \in Seq(JobEvent) /\ disk[j].log # <<>>
  BY FieldTypes DEF IsClosed
<1>2. RecordedOutcome(j) \in Terminal
  BY <1>1, LastEvent DEF RecordedOutcome, Log, Outcome
<1> QED
  BY <1>2 DEF Shown, Unseen, Terminal

\* Runner, reader and canceller leave no job half reserved that was not, and end one only
\* by closing its history.
LEMMA NoneMadeHalf ==
  ASSUME CallInv, CallInv', NEW i \in Jobs, Runner(i) \/ Reader(i) \/ Cancel(i),
         NEW j \in Jobs, NEW k \in Jobs, Half(j, k)'
  PROVE  /\ Half(j, k) /\ UNCHANGED <<svc, booking>>
         /\ svc = "up" \/ pc'[j] = pc[j]
<1>1. TypeOK /\ OutcomeInv /\ EndInv(i) /\ EndInv(i)' /\ Advances(i)
  BY RunnerAdvances, ReaderAndCancelAdvance DEF CallInv, OutcomeInv, CancelInv, TypeInv
<1>2. IsClosed(disk[i].log) => IsClosed(disk'[i].log)
  <2>1. CASE Runner(i)
    BY <1>1, <2>1, RunnerIsShown, ShownStaysClosed
  <2>2. CASE Reader(i) \/ Cancel(i)
    <3>1. Still(i) \/ Logs(i)
      BY <1>1, <2>2, ReaderStep, CancelStep DEF Cancel
    <3> QED
      BY <3>1 DEF Still, Logs
  <2> QED
    BY <2>1, <2>2
<1>3. /\ \A m \in Jobs : disk'[m].dir = disk[m].dir
      /\ \A m \in Jobs : m # i => disk'[m].log = disk[m].log /\ pc'[m] = pc[m]
      /\ UNCHANGED <<svc, booking>>
  BY <1>1 DEF Advances, StepOf, Still
<1>4. Half(j, k)
  BY <1>2, <1>3 DEF Half
<1>5. ASSUME j = i, svc # "up" PROVE FALSE
  <2>1. IsClosed(disk'[i].log)
    BY <1>1, <1>2, <1>5 DEF Advances, EndInv, EndRecorded
  <2> QED
    BY <1>5, <2>1 DEF Half
<1> QED
  BY <1>3, <1>4, <1>5

\* While a call creates its jobs they may be half there; it ends with all of them.
LEMMA CreationReserves ==
  ASSUME FreshIds, PairInv, NEW i \in {1, 2}, MakeDirectory(i) \/ QueueJob(i), faults = 0,
         NEW call \in Calls, NEW j \in InCall(call), NEW k \in InCall(call), Half(j, k)'
  PROVE  Passing(j)'
<1>1. /\ TypeOK /\ InCall(booking) \subseteq Jobs /\ j \in Jobs /\ k \in Jobs
      /\ i \in DOMAIN booking /\ svc = "up"
      /\ \A m \in 1..i-1 : disk[booking[m]].dir = "made"
      /\ Half(j, k) => Passing(j)
  BY CallsNameJobs DEF PairInv, PairsTogether, CallInv, OutcomeInv, CancelInv, TypeInv, TypeOK,
     MakeDirectory, QueueJob, IsNext
<1> DEFINE b == booking[i]
<1>2. b \in InCall(booking) /\ b \in Jobs /\ disk[b].dir # "made" /\ booking \in Calls
  BY <1>1 DEF InCall, TypeOK, MakeDirectory, QueueJob, IsNext
<1>3. CASE MakeDirectory(i)
  <2>1. disk' = [disk EXCEPT ![b].dir = "partial"] /\ UNCHANGED <<svc, booking>>
    BY <1>3 DEF MakeDirectory
  <2>2. Half(j, k)
    BY <1>1, <1>2, <2>1 DEF TypeOK, DiskOK, Half
  <2> QED
    BY <1>1, <2>1, <2>2 DEF Passing
<1>4. CASE QueueJob(i)
  <2>1. /\ \E l : disk' = [disk EXCEPT ![b].dir = "made", ![b].log = l]
        /\ svc' = svc
        /\ booking' = booking \/ CallComplete(i)
    BY <1>4 DEF QueueJob
  <2>2. /\ \A m \in Jobs : disk'[m].dir = (IF m = b THEN "made" ELSE disk[m].dir)
        /\ \A m \in Jobs : m # b => disk'[m].log = disk[m].log
    BY <1>1, <1>2, <2>1 DEF TypeOK, DiskOK
  <2>3. j \in InCall(booking)
    <3>1. CASE j = b
      BY <1>2, <3>1
    <3>2. CASE j # b
      BY <1>1, <2>2, <3>2 DEF Half, Passing
    <3> QED
      BY <3>1, <3>2
  <2>4. k \in InCall(booking)
    BY <1>2, <2>3 DEF FreshIds
  <2>5. ~CallComplete(i)
    <3> SUFFICES ASSUME CallComplete(i) PROVE FALSE
      OBVIOUS
    <3>1. DOMAIN booking = 1..i /\ i \in Nat
      BY <1>1, <1>2, CallsAssumption DEF CallComplete
    <3>2. \A m \in 1..i : m = i \/ m \in 1..i-1
      BY <3>1
    <3>3. disk'[k].dir = "made"
      BY <1>1, <2>2, <2>4, <3>1, <3>2 DEF InCall
    <3> QED
      BY <3>3 DEF Half
  <2> QED
    BY <1>1, <2>1, <2>3, <2>5 DEF Passing
<1> QED
  BY <1>3, <1>4

\* A crash leaves a half reserved pair to the recovery, which closes it or refuses.
LEMMA RecoveryReserves ==
  ASSUME PairInv, Crash \/ CutShort \/ Shutdown \/ Recovery, faults = 0,
         NEW call \in Calls, NEW j \in InCall(call), NEW k \in InCall(call), Half(j, k)'
  PROVE  Passing(j)'
<1>1. TypeOK /\ j \in Jobs /\ k \in Jobs /\ (Half(j, k) => Passing(j))
  BY CallsNameJobs DEF PairInv, PairsTogether, CallInv, OutcomeInv, CancelInv, TypeInv
<1>2. CASE Crash \/ CutShort \/ Shutdown
  BY <1>2 DEF Crash, CutShort, CutWrite, Shutdown, MemoryLost, Passing
<1>3. CASE Restart
  BY <1>1, <1>3 DEF Restart, Half, Passing
<1>4. CASE Recovered
  BY <1>1, <1>4 DEF Recovered, AllRecovered, Half, Passing
<1>5. ASSUME NEW i \in Jobs, RecoverRefuses(i) \/ RecoverClosed(i) \/ RecoverOpen(i)
      PROVE  Passing(j)'
  <2>1. CASE RecoverRefuses(i)
    BY <2>1 DEF RecoverRefuses, Passing
  <2>2. CASE RecoverClosed(i) \/ RecoverOpen(i)
    <3>1. /\ svc = "recovering" /\ svc' = svc
          /\ \/ /\ pc' = [pc EXCEPT ![i] = "none"] /\ disk' = [disk EXCEPT ![i] = Tidied(i)]
                /\ IsClosed(disk[i].log)
             \/ /\ pc' = [pc EXCEPT ![i] = "fin_event"]
                /\ disk' = [disk EXCEPT ![i] = Emptied(i)]
      BY <2>2 DEF RecoverClosed, RecoverOpen, Recovers, Finish, Goto
    <3>2. \A f \in {Tidied(i), Emptied(i)} : f.dir = disk[i].dir /\ f.log = disk[i].log
      BY <1>1 DEF TypeOK, DiskOK, Tidied, Emptied
    <3>3. \A m \in Jobs : disk'[m].dir = disk[m].dir /\ disk'[m].log = disk[m].log
      BY <1>1, <3>1, <3>2 DEF TypeOK, DiskOK
    <3>4. Half(j, k) /\ pc[j] \in {"recover", "fin_event"}
      BY <1>1, <3>1, <3>3 DEF Half, Passing
    <3>5. pc'[j] \in {"recover", "fin_event"}
      BY <1>1, <3>1, <3>4 DEF TypeOK, Half
    <3> QED
      BY <3>1, <3>5 DEF Passing
  <2> QED
    BY <1>5, <2>1, <2>2
<1> QED
  BY <1>2, <1>3, <1>4, <1>5 DEF Recovery

LEMMA PairInvStep == FreshIds /\ PairInv /\ [Next]_vars => PairInv'
<1> SUFFICES ASSUME FreshIds, PairInv, [Next]_vars, faults' = 0,
                    NEW call \in Calls, NEW j \in InCall(call), NEW k \in InCall(call),
                    Half(j, k)'
             PROVE  Passing(j)'
  BY CallInvStep DEF PairInv, PairsTogether
<1>1. /\ TypeOK /\ CallInv /\ CallInv' /\ OutcomeInv /\ j \in Jobs /\ k \in Jobs
      /\ faults = 0 /\ Half(j, k) => Passing(j)
  BY CallInvStep, CallsNameJobs DEF PairInv, PairsTogether, CallInv, OutcomeInv, CancelInv, TypeInv
<1>2. ASSUME Half(j, k), faults = 0, UNCHANGED <<svc, booking>>, svc = "up" \/ pc'[j] = pc[j]
      PROVE  Passing(j)'
  BY <1>1, <1>2 DEF Passing
<1>3. CASE UNCHANGED vars
  BY <1>2, <1>3 DEF vars, taskVars, damage, Half
<1>4. CASE DiskFault
  BY <1>1, <1>4, BoundsAssumption DEF TypeOK, DiskFault, CreationFails, CancelFails, SpawnedFails,
     FinishFails, ReadFails, Fails, Fault
<1>5. ASSUME NEW i \in Jobs, Runner(i) \/ Reader(i) \/ Cancel(i) PROVE Passing(j)'
  <2>1. faults = 0
    BY <1>1, <1>5, RunnerAdvances, ReaderAndCancelAdvance DEF TypeOK, Advances, StepOf, NoFaultLost
  <2> QED
    BY <1>1, <1>2, <1>5, <2>1, NoneMadeHalf
<1>6. ASSUME NEW i \in Jobs, Environment(i) \/ Thread(i) PROVE Passing(j)'
  <2>1. Half(j, k) /\ UNCHANGED <<svc, booking>> /\ pc'[j] = pc[j] /\ NoFaultLost
    BY <1>1, <1>6, EnvironmentStill DEF Half, Still
  <2> QED
    BY <1>1, <1>2, <2>1 DEF TypeOK, NoFaultLost
<1>7. ASSUME NEW c \in Calls, Start(c) PROVE Passing(j)'
  <2>1. Half(j, k) /\ svc = "up" /\ booking = <<>> /\ faults = 0
    BY <1>7 DEF Start, Quiet, Half, damage
  <2> QED
    BY <1>1, <2>1 DEF Passing, InCall
<1>8. CASE Creation
  BY <1>8, CreationReserves DEF Creation, MakeDirectory, QueueJob, damage
<1>9. CASE Crash \/ CutShort \/ Shutdown \/ Recovery
  <2>1. faults = 0
    BY <1>9 DEF Crash, CutShort, CutWrite, Shutdown, MemoryLost, Recovery, Restart, Recovered,
       RecoverRefuses, RecoverClosed, RecoverOpen, damage
  <2> QED
    BY <1>9, <2>1, RecoveryReserves
<1> QED
  BY <1>3, <1>4, <1>5, <1>6, <1>7, <1>8, <1>9 DEF Next, Client

\* start_pair reserves both jobs or none, as long as every write succeeds: a crash between
\* the two creations leaves nothing that a later service would go on with (start_pair,
\* _create_validated_state_locked, _recover_existing_jobs).
THEOREM PairsAreReservedWhole == ASSUME FreshIds PROVE Spec => []PairReservedWhole
<1>1. Init => PairInv
  BY CallInvInit, CallsNameJobs DEF Init, PairInv, PairsTogether, Half, NoFiles
<1>2. PairInv => PairReservedWhole
  BY DEF PairInv, PairsTogether, PairReservedWhole, Half, Passing, Log, InCall
<1>3. PairInv /\ [Next]_vars => PairInv'
  BY PairInvStep
<1> QED
  BY <1>1, <1>2, <1>3, PTL DEF Spec
=============================================================================
