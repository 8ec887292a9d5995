----------------------------- MODULE SolverJobs -----------------------------
(***************************************************************************)
(* The solver-job supervisor of the workbench: SolverJobService in         *)
(* workbench/jobs.py, the worker processes it runs, the daemon threads     *)
(* that stage archives, the files it keeps, and its restart.               *)
(*                                                                         *)
(* One asyncio loop runs the service, so code between two awaits is not    *)
(* interleaved with other tasks.  It can still be cut by a crash between   *)
(* two writes to disk, and the clock, the worker and the archive thread    *)
(* move meanwhile.  A step therefore makes at most one modelled write; the *)
(* control points in NoAwait are inside such a stretch of code, and no     *)
(* other task of the loop moves while one is occupied (Quiet).             *)
(*                                                                         *)
(* Every job identifier is used once: it is a fresh uuid4.                 *)
(***************************************************************************)
EXTENDS JobHistory, Integers, FiniteSets

CONSTANTS
  Jobs,           \* the job identifiers the service will hand out
  Calls,          \* the calls clients may make: <<j>> is start, <<j, k>> start_pair
  MaxCandidates,  \* bound: candidates one worker emits
  MaxRestarts,    \* bound: how often the service process ends
  MaxFaults       \* bound: disk writes that fail with OSError while the service is up

ASSUME CallsAssumption ==
  \A call \in Calls :
    \/ \E j \in Jobs : call = <<j>>
    \/ \E j, k \in Jobs : j # k /\ call = <<j, k>>
ASSUME BoundsAssumption ==
  MaxCandidates \in Nat /\ MaxRestarts \in Nat /\ MaxFaults \in Nat

VARIABLES
  svc,        \* the service process
  booking,    \* the call whose jobs are being created, <<>> outside start
  active,     \* _active_job_ids
  mem,        \* what _jobs holds in memory
  pc, goal,   \* the runner of each job: where it is, the status it will finish with
  late,       \* the job's deadline has passed
  reader,     \* the _consume_stdout task
  worker,     \* the worker's process group
  exitOk,     \* the worker's return code is zero
  thread,     \* the archive staging thread
  abandoned,  \* the threading.Event the runner and the thread share
  disk,       \* what was written whole of the job's files
  torn,       \* those of its files that hold part of a write
  restarts, faults

taskVars == <<pc, goal, late, reader, abandoned>>
osVars == <<worker, exitOk, thread>>
damage == <<torn, restarts, faults>>
vars == <<svc, booking, active, mem, taskVars, osVars, disk, damage>>

NoAwait == {"discard", "renamed", "fin_event", "fin_meta", "cleanup"}
Await == {"init", "spawn", "stop_spawn", "run", "stopping", "settling", "archiving", "reap"}
Deadlined == {"spawn", "run", "archiving", "renamed"}
PC == {"none", "done", "broken", "recover"} \cup Await \cup NoAwait

\* The direct worker or, as "kin", only descendants of it.  A worker is "dropped" while
\* its spawn is being cancelled; what is left of its group after that is an "orphan".
Alive == {"spawning", "dropped", "alive", "kin"}
WorkerState == {"none", "nospawn", "dead", "orphan"} \cup Alive
Staging == {"writing", "staged", "discarding"}
ThreadState == {"none", "ok", "error"} \cup Staging

TornFile == {"events.jsonl", "runtime.json", "terminal.json"}

Unknown == [status |-> "unknown", count |-> 0, cancelReq |-> FALSE]
NoReader == [state |-> "off", phase |-> FALSE, pending |-> FALSE,
             outcome |-> "none", batch |-> 0]
NoFiles == [dir |-> "none", log |-> <<>>, terminal |-> "none",
            staging |-> FALSE, archive |-> FALSE]

MemOK == [Jobs -> [status: JobStatus \cup {"unknown"}, count: Nat, cancelReq: BOOLEAN]]
ReaderOK == [Jobs -> [state: {"off", "reading", "done", "error", "cancelled"},
                      phase: BOOLEAN, pending: BOOLEAN,
                      outcome: {"none", "result", "failure"}, batch: Nat]]
DiskOK == [Jobs -> [dir: {"none", "partial", "made"}, log: Seq(JobEvent),
                    terminal: Terminal \cup {"none"},
                    staging: BOOLEAN, archive: BOOLEAN]]

\* The ranges of all variables.
TypeOK ==
  /\ svc \in {"up", "down", "recovering", "refused"}
  /\ booking \in Calls \cup {<<>>}
  /\ active \in SUBSET Jobs
  /\ mem \in MemOK
  /\ pc \in [Jobs -> PC]
  /\ goal \in [Jobs -> Terminal \cup {"none"}]
  /\ late \in [Jobs -> BOOLEAN]
  /\ reader \in ReaderOK
  /\ worker \in [Jobs -> WorkerState]
  /\ exitOk \in [Jobs -> BOOLEAN]
  /\ thread \in [Jobs -> ThreadState]
  /\ abandoned \in [Jobs -> BOOLEAN]
  /\ disk \in DiskOK
  /\ torn \in [Jobs -> SUBSET TornFile]
  /\ restarts \in 0..MaxRestarts
  /\ faults \in 0..MaxFaults

Init ==
  /\ svc = "up"
  /\ booking = <<>>
  /\ active = {}
  /\ mem = [j \in Jobs |-> Unknown]
  /\ pc = [j \in Jobs |-> "none"]
  /\ goal = [j \in Jobs |-> "none"]
  /\ late = [j \in Jobs |-> FALSE]
  /\ reader = [j \in Jobs |-> NoReader]
  /\ worker = [j \in Jobs |-> "none"]
  /\ exitOk = [j \in Jobs |-> FALSE]
  /\ thread = [j \in Jobs |-> "none"]
  /\ abandoned = [j \in Jobs |-> FALSE]
  /\ disk = [j \in Jobs |-> NoFiles]
  /\ torn = [j \in Jobs |-> {}]
  /\ restarts = 0
  /\ faults = 0

-----------------------------------------------------------------------------
HasRunner(j) == pc[j] \in Await \cup NoAwait
Quiet == svc = "up" /\ booking = <<>> /\ \A j \in Jobs : pc[j] \notin NoAwait
Turn(j, at) == Quiet /\ pc[j] = at
Fault == faults < MaxFaults /\ faults' = faults + 1

\* A write that fails or is cut off leaves nothing of itself or the beginning.
Tears(j, file) == torn' = [torn EXCEPT ![j] = @ \cup {file}]
Fails(j, file) == Fault /\ (Tears(j, file) \/ UNCHANGED torn)

Goto(j, to) == pc' = [pc EXCEPT ![j] = to]
Finish(j, s) == Goto(j, "fin_event") /\ goal' = [goal EXCEPT ![j] = s]
StopThen(j, s) == Goto(j, "stopping") /\ goal' = [goal EXCEPT ![j] = s]

\* SIGKILL to the whole process group.
Kill(j) == worker' = [worker EXCEPT ![j] = "dead"]

\* _append_event: one line in events.jsonl, and the status the event carries.
AppendEvent(j, e) ==
  /\ disk' = [disk EXCEPT ![j].log = Append(@, e)]
  /\ mem' = [mem EXCEPT ![j].status = e.status]

-----------------------------------------------------------------------------
(***************************************************************************)
(* Clients: start, start_pair and cancel.                                  *)
(***************************************************************************)
InCall(call) == {call[i] : i \in DOMAIN call}

\* Mutant: only a running job keeps the next call out.
NoneActive_RunningOnly == \A j \in active : mem[j].status # "running"

\* _discard_terminal_active_ids_locked leaves nothing; else ActiveJobError.
NoneActive == \A j \in active : mem[j].status \in Terminal

Start(call) ==
  /\ Quiet /\ NoneActive
  /\ \A j \in InCall(call) : disk[j].dir = "none"
  /\ active' = {}
  /\ booking' = call
  /\ UNCHANGED <<svc, mem, taskVars, osVars, disk, damage>>

IsNext(i) ==
  /\ svc = "up" /\ i \in DOMAIN booking
  /\ disk[booking[i]].dir # "made"
  /\ \A k \in 1..i-1 : disk[booking[k]].dir = "made"

MakeDirectory(i) ==
  /\ IsNext(i) /\ disk[booking[i]].dir = "none"
  /\ disk' = [disk EXCEPT ![booking[i]].dir = "partial"]
  /\ UNCHANGED <<svc, booking, active, mem, taskVars, osVars, damage>>

\* Mutant: the runners are launched once the first job is created.
CallComplete_First(i) == i = 1

CallComplete(i) == i = Len(booking)

\* The first event makes the job; the last job of the call launches the runners.
QueueJob(i) ==
  LET j == booking[i] IN
  /\ IsNext(i) /\ disk[j].dir = "partial"
  /\ disk' = [disk EXCEPT ![j].dir = "made", ![j].log = <<StatusEvent("queued", 0)>>]
  /\ mem' = [mem EXCEPT ![j].status = "queued"]
  /\ IF CallComplete(i)
       THEN /\ active' = InCall(booking)
            /\ pc' = [k \in Jobs |-> IF k \in InCall(booking) THEN "init" ELSE pc[k]]
            /\ booking' = <<>>
       ELSE UNCHANGED <<active, pc, booking>>
  /\ UNCHANGED <<svc, goal, late, reader, abandoned, osVars, damage>>

\* An OSError leaves the call, with the jobs already created left as they are.
CreationFails ==
  /\ svc = "up" /\ booking # <<>>
  /\ Fault
  /\ booking' = <<>>
  /\ UNCHANGED <<svc, active, mem, taskVars, osVars, disk, torn, restarts>>

\* A client knows a job only if the call that made it returned: it has a runner.
Cancellable(j) ==
  /\ Quiet
  /\ pc[j] # "none"
  /\ mem[j].status \in {"queued", "running"}

Cancel(j) ==
  /\ Cancellable(j)
  /\ disk' = [disk EXCEPT ![j].log = Append(@, StatusEvent("cancelling", mem[j].count))]
  /\ mem' = [mem EXCEPT ![j].status = "cancelling", ![j].cancelReq = TRUE]
  /\ UNCHANGED <<svc, booking, active, taskVars, osVars, damage>>

\* The event cannot be written: the status has changed, the request is not set.
CancelFails(j) ==
  /\ Cancellable(j)
  /\ Fails(j, "events.jsonl")
  /\ mem' = [mem EXCEPT ![j].status = "cancelling"]
  /\ UNCHANGED <<svc, booking, active, taskVars, osVars, disk, restarts>>

-----------------------------------------------------------------------------
(***************************************************************************)
(* The runner, _run_job: spawning the worker.                              *)
(***************************************************************************)
Begin(j) ==
  /\ Turn(j, "init")
  /\ IF mem[j].cancelReq
       THEN Finish(j, "cancelled") /\ UNCHANGED worker
       ELSE /\ Goto(j, "spawn")
            /\ worker' = [worker EXCEPT ![j] = "spawning"]
            /\ UNCHANGED goal
  /\ UNCHANGED <<svc, booking, active, mem, late, reader, abandoned, exitOk, thread,
                 disk, damage>>

\* Mutant: the job finishes with the status it has.
EarlyStatus_Unchanged(j) == IF mem[j].cancelReq THEN mem[j].status ELSE "timed_out"

EarlyStatus(j) == IF mem[j].cancelReq THEN "cancelled" ELSE "timed_out"

\* Mutant: only a cancel is watched for, not the deadline.
Interrupted_CancelOnly(j) == mem[j].cancelReq

Interrupted(j) == mem[j].cancelReq \/ late[j]

\* Cancelled or late before the spawn was seen to succeed.  Only a worker that
\* is running makes the runner wait; a spawn under way is cancelled, and nobody
\* learns its process group (state.process stays None).
SpawnInterrupted(j) ==
  /\ Turn(j, "spawn")
  /\ Interrupted(j)
  /\ IF worker[j] = "alive"
       THEN Goto(j, "stop_spawn") /\ UNCHANGED <<goal, worker>>
       ELSE /\ Finish(j, EarlyStatus(j))
            /\ worker' = [worker EXCEPT ![j] = CASE @ = "kin" -> "dead"
                                                 [] @ = "spawning" -> "dropped"
                                                 [] OTHER -> @]
  /\ UNCHANGED <<svc, booking, active, mem, late, reader, abandoned, exitOk, thread,
                 disk, damage>>

StopSpawned(j) ==
  /\ Turn(j, "stop_spawn")
  /\ Kill(j)
  /\ Finish(j, EarlyStatus(j))
  /\ UNCHANGED <<svc, booking, active, mem, late, reader, abandoned, exitOk, thread,
                 disk, damage>>

SpawnFailed(j) ==
  /\ Turn(j, "spawn")
  /\ worker[j] = "nospawn" /\ ~mem[j].cancelReq
  /\ Finish(j, "failed")
  /\ UNCHANGED <<svc, booking, active, mem, late, reader, abandoned, osVars, disk, damage>>

\* runtime.json is written and, unless the deadline has passed, the job is running.
Spawned(j) ==
  /\ Turn(j, "spawn")
  /\ worker[j] \in {"alive", "kin", "dead"} /\ ~mem[j].cancelReq
  /\ IF late[j]
       THEN /\ IF worker[j] = "alive" THEN StopThen(j, "timed_out") /\ UNCHANGED worker
                                      ELSE Finish(j, "timed_out") /\ Kill(j)
            /\ UNCHANGED <<mem, disk, reader>>
       ELSE /\ Goto(j, "run")
            /\ AppendEvent(j, StatusEvent("running", 0))
            /\ reader' = [reader EXCEPT ![j].state = "reading"]
            /\ UNCHANGED <<goal, worker>>
  /\ UNCHANGED <<svc, booking, active, late, abandoned, exitOk, thread, damage>>

\* runtime.json or the running event cannot be written: the handler stops a worker
\* that is running, descendants are left to the finally block.
SpawnedFails(j) ==
  /\ Turn(j, "spawn")
  /\ worker[j] \in {"alive", "kin", "dead"} /\ ~mem[j].cancelReq
  /\ \/ Fails(j, "runtime.json") /\ UNCHANGED mem
     \/ /\ ~late[j] /\ Fails(j, "events.jsonl")
        /\ mem' = [mem EXCEPT ![j].status = "running"]
  /\ IF worker[j] = "alive" THEN StopThen(j, "failed") ELSE Finish(j, "failed")
  /\ UNCHANGED <<svc, booking, active, late, reader, abandoned, osVars, disk, restarts>>

-----------------------------------------------------------------------------
(***************************************************************************)
(* The two supervision loops.  A wake is answered by the first of cancel,  *)
(* deadline and protocol error that holds.                                 *)
(***************************************************************************)
RunCancelled(j) ==
  /\ Turn(j, "run") /\ mem[j].cancelReq
  /\ StopThen(j, "cancelled")
  /\ UNCHANGED <<svc, booking, active, mem, late, reader, abandoned, osVars, disk, damage>>

\* Mutant: the deadline is not watched while the pipes drain.
RunTimedOut_WorkerOnly(j) ==
  /\ Turn(j, "run") /\ late[j] /\ worker[j] = "alive" /\ ~mem[j].cancelReq
  /\ StopThen(j, "timed_out")
  /\ UNCHANGED <<svc, booking, active, mem, late, reader, abandoned, osVars, disk, damage>>

RunTimedOut(j) ==
  /\ Turn(j, "run") /\ late[j] /\ ~mem[j].cancelReq
  /\ StopThen(j, "timed_out")
  /\ UNCHANGED <<svc, booking, active, mem, late, reader, abandoned, osVars, disk, damage>>

RunProtocolError(j) ==
  /\ Turn(j, "run") /\ reader[j].state = "error" /\ ~mem[j].cancelReq
  /\ StopThen(j, "failed")
  /\ UNCHANGED <<svc, booking, active, mem, late, reader, abandoned, osVars, disk, damage>>

\* _stop_process: SIGTERM, a grace period, SIGKILL for the whole group.
StopDone(j) ==
  /\ Turn(j, "stopping")
  /\ Kill(j)
  /\ Goto(j, IF goal[j] = "failed" \/ reader[j].state = "off" THEN "fin_event" ELSE "settling")
  /\ UNCHANGED <<svc, booking, active, mem, goal, late, reader, abandoned, exitOk, thread,
                 disk, damage>>

\* Mutant: a reader that does not drain in time goes on.
SettleDone_LeavesReader(j) ==
  /\ Turn(j, "settling")
  /\ Goto(j, "fin_event")
  /\ UNCHANGED <<svc, booking, active, mem, goal, late, reader, abandoned, osVars, disk, damage>>

\* _settle_reader gives the reader half a second to drain, then cancels it.
SettleDone(j) ==
  /\ Turn(j, "settling")
  /\ reader' = [reader EXCEPT ![j].state = IF @ = "reading" THEN "cancelled" ELSE @]
  /\ Goto(j, "fin_event")
  /\ UNCHANGED <<svc, booking, active, mem, goal, late, abandoned, osVars, disk, damage>>

\* The direct worker has exited and both pipes are drained.
Solved(j) == reader[j].state = "done" /\ reader[j].outcome = "result" /\ exitOk[j]

RunDrained(j) ==
  /\ Turn(j, "run")
  /\ worker[j] \in {"kin", "dead"} /\ reader[j].state \in {"done", "error"}
  /\ ~mem[j].cancelReq
  /\ \/ ~Solved(j) /\ Finish(j, "failed") /\ UNCHANGED thread
     \/ Solved(j) /\ late[j] /\ Finish(j, "timed_out") /\ UNCHANGED thread
     \/ /\ Solved(j) /\ ~late[j]
        /\ Goto(j, "archiving")
        /\ thread' = [thread EXCEPT ![j] = "writing"]
        /\ UNCHANGED goal
  /\ UNCHANGED <<svc, booking, active, mem, late, reader, abandoned, worker, exitOk,
                 disk, damage>>

-----------------------------------------------------------------------------
(***************************************************************************)
(* Publishing the archive: staged by the thread, renamed by the runner.    *)
(* The archive of a fresh identifier cannot exist before the rename.       *)
(***************************************************************************)
ArchiveGivenUp(j) ==
  /\ Turn(j, "archiving")
  /\ Interrupted(j)
  /\ abandoned' = [abandoned EXCEPT ![j] = TRUE]
  /\ goal' = [goal EXCEPT ![j] = EarlyStatus(j)]
  /\ Goto(j, "discard")
  /\ UNCHANGED <<svc, booking, active, mem, late, reader, osVars, disk, damage>>

\* rmtree of a directory the thread is removing too may raise.
Discard(j) ==
  /\ svc = "up" /\ pc[j] = "discard"
  /\ \/ disk' = [disk EXCEPT ![j].staging = FALSE] /\ UNCHANGED goal
     \/ /\ thread[j] = "discarding" /\ disk[j].staging
        /\ goal' = [goal EXCEPT ![j] = "failed"]
        /\ UNCHANGED disk
  /\ Goto(j, "fin_event")
  /\ UNCHANGED <<svc, booking, active, mem, late, reader, abandoned, osVars, damage>>

ArchiveFailed(j) ==
  /\ Turn(j, "archiving")
  /\ thread[j] = "error" /\ ~mem[j].cancelReq /\ ~late[j]
  /\ disk' = [disk EXCEPT ![j].staging = FALSE]
  /\ Finish(j, "failed")
  /\ UNCHANGED <<svc, booking, active, mem, late, reader, abandoned, osVars, damage>>

\* Mutant: publishes without asking whether the job was cancelled.
Publishable_IgnoresCancel(j) == thread[j] = "ok" /\ ~late[j]

Publishable(j) == thread[j] = "ok" /\ ~mem[j].cancelReq /\ ~late[j]

ArchiveRename(j) ==
  /\ Turn(j, "archiving") /\ Publishable(j)
  /\ disk' = [disk EXCEPT ![j].staging = FALSE, ![j].archive = TRUE]
  /\ Goto(j, "renamed")
  /\ UNCHANGED <<svc, booking, active, mem, goal, late, reader, abandoned, osVars, damage>>

\* Mutant: a late job keeps the archive it has just renamed into place.
Commit_KeepsArchive(j) ==
  /\ svc = "up" /\ pc[j] = "renamed"
  /\ IF late[j]
       THEN Finish(j, "timed_out") /\ UNCHANGED disk
       ELSE Finish(j, "completed") /\ UNCHANGED disk
  /\ UNCHANGED <<svc, booking, active, mem, late, reader, abandoned, osVars, damage>>

\* The last look at the clock; after it the completion is committed.
Commit(j) ==
  /\ svc = "up" /\ pc[j] = "renamed"
  /\ IF late[j]
       THEN Finish(j, "timed_out") /\ disk' = [disk EXCEPT ![j].archive = FALSE]
       ELSE Finish(j, "completed") /\ UNCHANGED disk
  /\ UNCHANGED <<svc, booking, active, mem, late, reader, abandoned, osVars, damage>>

-----------------------------------------------------------------------------
(***************************************************************************)
(* _finish_terminal, then the finally block.  Recovery ends here too.      *)
(***************************************************************************)
\* The deadline, the outcome of an ended reader and the return code are not
\* looked at again.
LocalsDropped(j) ==
  /\ late' = [late EXCEPT ![j] = FALSE]
  /\ reader' = IF reader[j].state = "reading" THEN reader
                                              ELSE [reader EXCEPT ![j] = NoReader]
  /\ exitOk' = [exitOk EXCEPT ![j] = FALSE]

FinishEvent(j) ==
  /\ svc \in {"up", "recovering"} /\ pc[j] = "fin_event"
  /\ AppendEvent(j, TerminalEvent(goal[j], mem[j].count,
                      IF goal[j] = "completed" THEN reader[j].batch ELSE 0))
  /\ Goto(j, "fin_meta")
  /\ LocalsDropped(j)
  /\ UNCHANGED <<svc, booking, active, goal, abandoned, worker, thread, damage>>

FinishMeta(j) ==
  /\ svc \in {"up", "recovering"} /\ pc[j] = "fin_meta"
  /\ disk' = [disk EXCEPT ![j].terminal = goal[j]]
  /\ Goto(j, IF svc = "up" THEN "cleanup" ELSE "none")
  /\ UNCHANGED <<svc, booking, active, mem, goal, late, reader, abandoned, osVars, damage>>

\* The terminal event or terminal.json cannot be written; the status in memory
\* is terminal all the same, so the handler of the runner does not try again.
FinishFails(j) ==
  /\ svc = "up" /\ pc[j] \in {"fin_event", "fin_meta"}
  /\ Fails(j, IF pc[j] = "fin_event" THEN "events.jsonl" ELSE "terminal.json")
  /\ mem' = [mem EXCEPT ![j].status = goal[j]]
  /\ Goto(j, "cleanup")
  /\ LocalsDropped(j)
  /\ UNCHANGED <<svc, booking, active, goal, abandoned, worker, thread, disk, restarts>>

Cleanup(j) ==
  /\ svc = "up" /\ pc[j] = "cleanup"
  /\ abandoned' = [abandoned EXCEPT ![j] = @ \/ thread[j] \in Staging]
  /\ \/ /\ IF mem[j].status = "completed" THEN UNCHANGED disk
                                         ELSE disk' = [disk EXCEPT ![j].staging = FALSE]
        /\ Goto(j, "reap")
     \/ /\ thread[j] = "discarding" /\ disk[j].staging
        /\ Goto(j, "broken")
        /\ UNCHANGED disk
  /\ UNCHANGED <<svc, booking, active, mem, goal, late, reader, osVars, damage>>

\* Mutant: sees the direct worker but not its process group.
Lingers_DirectWorker(j) == worker[j] = "alive"

\* The runner was given the process, and its group is not empty.
Lingers(j) == worker[j] \in {"alive", "kin"}

\* The group is killed; a spawn that was cancelled is waited for.
Reap(j) ==
  /\ Turn(j, "reap") /\ worker[j] # "dropped"
  /\ IF Lingers(j) THEN Kill(j) ELSE UNCHANGED worker
  /\ active' = active \ {j}
  /\ reader' = [reader EXCEPT ![j] = NoReader]
  /\ goal' = [goal EXCEPT ![j] = "none"]
  /\ Goto(j, "done")
  /\ UNCHANGED <<svc, booking, mem, late, abandoned, exitOk, thread, disk, damage>>

-----------------------------------------------------------------------------
(***************************************************************************)
(* The reader, _consume_stdout: one action per kind of line.  Lines of a   *)
(* worker that has exited may still be in the pipe.                        *)
(***************************************************************************)
Reads(j) == Quiet /\ reader[j].state = "reading"
\* Mutant: buffered lines are still reported after a cancel was accepted.
Takes_AfterCancel(j) == Reads(j) /\ reader[j].outcome = "none"

Takes(j) == Reads(j) /\ reader[j].outcome = "none" /\ ~mem[j].cancelReq

readerFrame == <<svc, booking, active, pc, goal, late, abandoned, osVars, damage>>

ReadPhase(j) ==
  /\ Takes(j) /\ ~reader[j].phase
  /\ reader' = [reader EXCEPT ![j].phase = TRUE]
  /\ AppendEvent(j, PhaseEvent)
  /\ UNCHANGED readerFrame

\* The first candidate is reported at once, a later one when the interval is over.
ReadCandidate(j) ==
  LET n == mem[j].count + 1 IN
  /\ Takes(j) /\ reader[j].phase
  /\ n <= MaxCandidates
  /\ \/ /\ mem' = [mem EXCEPT ![j].count = n, ![j].status = "running"]
        /\ disk' = [disk EXCEPT ![j].log = Append(@, CandidateEvent(n))]
        /\ reader' = [reader EXCEPT ![j].pending = FALSE]
     \/ /\ n > 1
        /\ mem' = [mem EXCEPT ![j].count = n]
        /\ reader' = [reader EXCEPT ![j].pending = TRUE]
        /\ UNCHANGED disk
  /\ UNCHANGED readerFrame

Flush(j) ==
  IF reader[j].pending THEN AppendEvent(j, CandidateEvent(mem[j].count))
                       ELSE UNCHANGED <<mem, disk>>

\* The batch must be the candidates that were streamed.
ReadComplete(j, n) ==
  /\ Takes(j) /\ reader[j].phase
  /\ n = mem[j].count
  /\ reader' = [reader EXCEPT ![j].outcome = "result", ![j].batch = n, ![j].pending = FALSE]
  /\ Flush(j)
  /\ UNCHANGED readerFrame

ReadFailure(j) ==
  /\ Takes(j)
  /\ reader' = [reader EXCEPT ![j].outcome = "failure"]
  /\ UNCHANGED <<mem, disk, readerFrame>>

\* A line that breaks the protocol: malformed, too long, out of order, after the
\* terminal message, of another seed, or a batch other than the stream.
ReadInvalid(j) ==
  /\ Reads(j)
  /\ reader' = [reader EXCEPT ![j].state = "error"]
  /\ UNCHANGED <<mem, disk, readerFrame>>

ReadEOF(j) ==
  /\ Reads(j) /\ worker[j] \in {"kin", "dead"}
  /\ reader' = [reader EXCEPT ![j].state = IF reader[j].phase THEN "done" ELSE "error",
                              ![j].pending = FALSE]
  /\ IF mem[j].cancelReq THEN UNCHANGED <<mem, disk>> ELSE Flush(j)
  /\ UNCHANGED readerFrame

\* The reader has an event to write.
Reports(j) ==
  /\ Reads(j) /\ ~mem[j].cancelReq
  /\ \/ Takes(j) /\ (reader[j].phase => mem[j].count < MaxCandidates)
     \/ reader[j].pending /\ (Takes(j) \/ worker[j] \in {"kin", "dead"})

\* It cannot be written: the reader ends as after a line that breaks the protocol.
\* A candidate has been counted by then, a phase or one held back has not.
ReadFails(j) ==
  /\ Reports(j)
  /\ Fails(j, "events.jsonl")
  /\ reader' = [reader EXCEPT ![j].state = "error"]
  /\ \/ UNCHANGED mem
     \/ /\ Takes(j) /\ reader[j].phase /\ mem[j].count < MaxCandidates
        /\ mem' = [mem EXCEPT ![j].count = @ + 1]
  /\ UNCHANGED <<svc, booking, active, pc, goal, late, abandoned, osVars, disk, restarts>>

-----------------------------------------------------------------------------
(***************************************************************************)
(* The operating system: the clock, worker processes, the archive thread.  *)
(***************************************************************************)
Expire(j) ==
  /\ svc = "up" /\ pc[j] \in Deadlined /\ ~late[j]
  /\ late' = [late EXCEPT ![j] = TRUE]
  /\ UNCHANGED <<svc, booking, active, mem, pc, goal, reader, abandoned, osVars, disk, damage>>

SpawnEnds(j) ==
  /\ worker[j] = "spawning"
  /\ \E w \in {"alive", "nospawn"} : worker' = [worker EXCEPT ![j] = w]
  /\ UNCHANGED <<svc, booking, active, mem, taskVars, exitOk, thread, disk, damage>>

\* The worker exits; a descendant may stay in its process group ("kin").
WorkerExits(j) ==
  /\ worker[j] = "alive"
  /\ \E w \in {"kin", "dead"} : worker' = [worker EXCEPT ![j] = w]
  /\ \E ok \in BOOLEAN : exitOk' = [exitOk EXCEPT ![j] = ok /\ pc[j] \in Deadlined]
  /\ UNCHANGED <<svc, booking, active, mem, taskVars, thread, disk, damage>>

\* asyncio kills the direct worker of a cancelled spawn and waits for it.
SpawnDropped(j) ==
  /\ worker[j] = "dropped"
  /\ \E w \in {"dead", "orphan"} : worker' = [worker EXCEPT ![j] = w]
  /\ UNCHANGED <<svc, booking, active, mem, taskVars, exitOk, thread, disk, damage>>

KinExits(j) ==
  /\ worker[j] \in {"kin", "orphan"}
  /\ worker' = [worker EXCEPT ![j] = "dead"]
  /\ UNCHANGED <<svc, booking, active, mem, taskVars, exitOk, thread, disk, damage>>

threadFrame == <<svc, booking, active, mem, taskVars, worker, exitOk, damage>>

\* CandidateArchive.create: written aside, then renamed into place at once.
ThreadStages(j) ==
  /\ thread[j] = "writing"
  /\ thread' = [thread EXCEPT ![j] = "staged"]
  /\ disk' = [disk EXCEPT ![j].staging = TRUE]
  /\ UNCHANGED threadFrame

ThreadFails(j) ==
  /\ thread[j] = "writing"
  /\ thread' = [thread EXCEPT ![j] = "error"]
  /\ UNCHANGED <<disk, threadFrame>>

\* Mutant: the thread does not look whether it was abandoned.
ThreadChecks_Never(j) ==
  /\ thread[j] = "staged"
  /\ thread' = [thread EXCEPT ![j] = "ok"]
  /\ UNCHANGED <<disk, threadFrame>>

ThreadChecks(j) ==
  /\ thread[j] = "staged"
  /\ thread' = [thread EXCEPT ![j] = IF abandoned[j] THEN "discarding" ELSE "ok"]
  /\ UNCHANGED <<disk, threadFrame>>

ThreadDiscards(j) ==
  /\ thread[j] = "discarding"
  /\ thread' = [thread EXCEPT ![j] = "ok"]
  /\ disk' = [disk EXCEPT ![j].staging = FALSE]
  /\ UNCHANGED threadFrame

-----------------------------------------------------------------------------
(***************************************************************************)
(* The service process ends and starts again.                              *)
(***************************************************************************)
MemoryLost ==
  /\ restarts < MaxRestarts /\ restarts' = restarts + 1
  /\ svc' = "down"
  /\ booking' = <<>>
  /\ active' = {}
  /\ mem' = [j \in Jobs |-> Unknown]
  /\ pc' = [j \in Jobs |-> "none"]
  /\ goal' = [j \in Jobs |-> "none"]
  /\ late' = [j \in Jobs |-> FALSE]
  /\ reader' = [j \in Jobs |-> NoReader]
  /\ thread' = [j \in Jobs |-> "none"]
  /\ abandoned' = [j \in Jobs |-> FALSE]
  /\ exitOk' = [j \in Jobs |-> FALSE]
  /\ UNCHANGED faults

\* Workers are sessions of their own: they survive the service.
Crash ==
  /\ svc \in {"up", "recovering"}
  /\ MemoryLost
  /\ UNCHANGED <<worker, disk, torn>>

\* The loop is closed: each runner is cancelled at its await and its finally
\* block stops a worker it was given; one that is stopped there already may be
\* left.  The thread dies with the process.
Shutdown ==
  /\ Quiet
  /\ MemoryLost
  /\ \E left \in SUBSET {j \in Jobs : pc[j] = "reap"} :
       worker' = [j \in Jobs |->
         CASE pc[j] = "spawn" /\ worker[j] = "spawning" -> "dropped"
           [] pc[j] \in Await \ {"spawn"} /\ Lingers(j) /\ j \notin left -> "dead"
           [] OTHER -> worker[j]]
  /\ UNCHANGED torn
  /\ \E kept \in SUBSET {j \in Jobs : thread[j] \in {"staged", "discarding"}} :
       disk' = [j \in Jobs |-> [disk[j] EXCEPT !.staging =
                  @ /\ (pc[j] \in Await => j \in kept)]]

Restart ==
  /\ svc = "down"
  /\ svc' = "recovering"
  /\ pc' = [j \in Jobs |-> IF disk[j].dir = "none" THEN "none" ELSE "recover"]
  /\ UNCHANGED <<booking, active, mem, goal, late, reader, abandoned, osVars, disk, damage>>

\* _recover_existing_jobs takes the directories one at a time.
Recovers(j) ==
  /\ svc = "recovering" /\ pc[j] = "recover"
  /\ \A k \in Jobs : pc[k] \notin NoAwait

Legible(j) ==
  /\ disk[j].dir = "made" /\ torn[j] \subseteq {"terminal.json"}
  /\ ValidHistory(disk[j].log)

\* What a closed history must find beside it.
Consistent(j) ==
  LET s == Outcome(disk[j].log) IN
  /\ disk[j].archive <=> s = "completed"
  /\ disk[j].terminal \in {"none", s}

Acceptable(j) ==
  /\ Legible(j) /\ "terminal.json" \notin torn[j]
  /\ IF IsClosed(disk[j].log) THEN Consistent(j) ELSE disk[j].terminal = "none"

\* The staging of a closed job is removed before its files are compared.
RecoverRefuses(j) ==
  /\ Recovers(j) /\ ~Acceptable(j)
  /\ svc' = "refused"
  /\ pc' = [k \in Jobs |-> "none"]
  /\ IF Legible(j) /\ IsClosed(disk[j].log) THEN disk' = [disk EXCEPT ![j].staging = FALSE]
                                             ELSE UNCHANGED disk
  /\ UNCHANGED <<booking, active, mem, goal, late, reader, abandoned, osVars, damage>>

\* Mutant: every recovered job is shown as failed.
Recalled_Failed(j) ==
  [status |-> "failed", count |-> disk[j].log[Len(disk[j].log)].count, cancelReq |-> FALSE]

Recalled(j) ==
  LET e == disk[j].log[Len(disk[j].log)] IN
  [status |-> e.status, count |-> e.count, cancelReq |-> FALSE]

\* Mutant: terminal.json is written for a failed job, whatever the event says.
Tidied_Failed(j) == [disk[j] EXCEPT !.staging = FALSE, !.terminal = "failed"]

\* Mutant: the archive is discarded before the outcome is read.
Tidied_NoArchive(j) ==
  [disk[j] EXCEPT !.staging = FALSE, !.terminal = Outcome(disk[j].log), !.archive = FALSE]

\* What is left of a closed job: no staging, and terminal.json written if missing.
Tidied(j) == [disk[j] EXCEPT !.staging = FALSE, !.terminal = Outcome(disk[j].log)]

RecoverClosed(j) ==
  /\ Recovers(j) /\ Acceptable(j) /\ IsClosed(disk[j].log)
  /\ disk' = [disk EXCEPT ![j] = Tidied(j)]
  /\ mem' = [mem EXCEPT ![j] = Recalled(j)]
  /\ Goto(j, "none")
  /\ UNCHANGED <<svc, booking, active, goal, late, reader, abandoned, osVars, damage>>

\* Mutant: the archive of an unterminated job stays.
Emptied_KeepsArchive(j) == [disk[j] EXCEPT !.staging = FALSE]

\* Mutant: the staged archive of an unterminated job stays.
Emptied_KeepsStaging(j) == [disk[j] EXCEPT !.archive = FALSE]

Emptied(j) == [disk[j] EXCEPT !.archive = FALSE, !.staging = FALSE]

RecoverOpen(j) ==
  /\ Recovers(j) /\ Acceptable(j) /\ ~IsClosed(disk[j].log)
  /\ disk' = [disk EXCEPT ![j] = Emptied(j)]
  /\ mem' = [mem EXCEPT ![j] = Recalled(j)]
  /\ Finish(j, "failed")
  /\ UNCHANGED <<svc, booking, active, late, reader, abandoned, osVars, damage>>

(***************************************************************************)
(* The process can also end within a write.  At startup a write that fails *)
(* ends it as well: the error leaves the constructor.                      *)
(***************************************************************************)
AddsEvent(j) ==
  \/ Cancellable(j) \/ Reports(j)
  \/ Turn(j, "spawn") /\ worker[j] \in {"alive", "kin", "dead"} /\ ~Interrupted(j)
  \/ svc \in {"up", "recovering"} /\ pc[j] = "fin_event"

Writes(j, file) ==
  CASE file = "events.jsonl" -> AddsEvent(j)
    [] file = "runtime.json" ->
         Turn(j, "spawn") /\ worker[j] \in {"alive", "kin", "dead"} /\ ~mem[j].cancelReq
    [] file = "terminal.json" ->
         \/ svc \in {"up", "recovering"} /\ pc[j] = "fin_meta"
         \/ /\ Recovers(j) /\ Acceptable(j)
            /\ IsClosed(disk[j].log) /\ disk[j].terminal = "none"

CutWrite(j, file) ==
  /\ Writes(j, file)
  /\ MemoryLost
  /\ Tears(j, file)
  /\ disk' = [disk EXCEPT ![j].staging = @ /\ pc[j] # "recover"]
  /\ UNCHANGED worker

\* Mutant: the service serves before every directory was recovered.
AllRecovered_Never == TRUE

AllRecovered == \A j \in Jobs : pc[j] = "none"

Recovered ==
  /\ svc = "recovering" /\ AllRecovered
  /\ svc' = "up"
  /\ UNCHANGED <<booking, active, mem, taskVars, osVars, disk, damage>>

-----------------------------------------------------------------------------
Client ==
  \/ \E call \in Calls : Start(call)
  \/ \E j \in Jobs : Cancel(j)

Creation == \E i \in {1, 2} : MakeDirectory(i) \/ QueueJob(i)

Runner(j) ==
  \/ Begin(j) \/ SpawnInterrupted(j) \/ StopSpawned(j) \/ SpawnFailed(j) \/ Spawned(j)
  \/ RunCancelled(j) \/ RunTimedOut(j) \/ RunProtocolError(j) \/ RunDrained(j)
  \/ StopDone(j) \/ SettleDone(j)
  \/ ArchiveGivenUp(j) \/ Discard(j) \/ ArchiveFailed(j) \/ ArchiveRename(j) \/ Commit(j)
  \/ FinishEvent(j) \/ FinishMeta(j) \/ Cleanup(j) \/ Reap(j)

Reader(j) ==
  \/ ReadPhase(j) \/ ReadCandidate(j) \/ ReadFailure(j) \/ ReadInvalid(j) \/ ReadEOF(j)
  \/ \E n \in 0..MaxCandidates : ReadComplete(j, n)

Thread(j) == ThreadStages(j) \/ ThreadFails(j) \/ ThreadChecks(j) \/ ThreadDiscards(j)

Environment(j) ==
  Expire(j) \/ SpawnEnds(j) \/ SpawnDropped(j) \/ WorkerExits(j) \/ KinExits(j)

DiskFault ==
  \/ CreationFails
  \/ \E j \in Jobs : CancelFails(j) \/ SpawnedFails(j) \/ FinishFails(j) \/ ReadFails(j)

CutShort == \E j \in Jobs, file \in TornFile : CutWrite(j, file)

Recovery ==
  \/ Restart \/ Recovered
  \/ \E j \in Jobs : RecoverRefuses(j) \/ RecoverClosed(j) \/ RecoverOpen(j)

Next ==
  \/ Client \/ Creation
  \/ \E j \in Jobs : Runner(j) \/ Reader(j) \/ Thread(j) \/ Environment(j)
  \/ DiskFault \/ Crash \/ CutShort \/ Shutdown \/ Recovery

Spec == Init /\ [][Next]_vars

-----------------------------------------------------------------------------
(***************************************************************************)
(* Safety.                                                                 *)
(***************************************************************************)
Log(j) == disk[j].log
Completed(j) == IsClosed(Log(j)) /\ Outcome(Log(j)) = "completed"

\* Published archives and recorded outcomes agree: a closed history has an
\* archive exactly when it is completed, and an open one only while the runner
\* stands between the rename and the terminal event, or after the service lost
\* that runner or could not write the event (_run_job, _recover_existing_jobs).
ArchiveAgreesWithOutcome ==
  \A j \in Jobs :
    /\ IsClosed(Log(j)) => (disk[j].archive <=> Completed(j))
    /\ disk[j].archive /\ ~IsClosed(Log(j)) /\ svc = "up" =>
         \/ pc[j] = "renamed"
         \/ pc[j] = "fin_event" /\ goal[j] = "completed"
         \/ mem[j].status = "completed" /\ faults > 0

\* An accepted cancel wins every race with the worker, the deadline and the
\* archive thread: the job is not completed and publishes nothing ("never create
\* a complete candidate archive", plan of the workbench, Task 6, item 4).
AcceptedCancelWins ==
  \A j \in Jobs : mem[j].cancelReq =>
    /\ mem[j].status # "completed"
    /\ ~disk[j].archive

\* Nothing is written to a history after its terminal event: the reader, the
\* canceller and the runner never append behind it.
TerminalEventIsLast == \A j \in Jobs : Log(j) # <<>> => TerminalIsLast(Log(j))

\* The events of every history pass the test of the next startup, with one exception:
\* a cancel accepted while the runner was already stopping a late worker.  And a
\* service that serves has no file that holds part of a write, unless the write
\* failed with an error while it was up: what a crash cuts off is not served.
CancelledTooLate(h) ==
  /\ IsClosed(h) /\ Outcome(h) = "timed_out"
  /\ h[Len(h)-1].status = "cancelling"

HistoriesReplayOrKnownDamage ==
  \A j \in Jobs :
    /\ Log(j) # <<>> => ValidHistory(Log(j)) \/ CancelledTooLate(Log(j))
    /\ svc = "up" /\ torn[j] # {} => faults > 0

\* Two jobs with live runners come from one call: start refuses while a job of
\* an earlier call is not terminal (the ActiveJobError check and _active_job_ids).
Unfinished(j) == HasRunner(j) /\ mem[j].status \notin Terminal

OneCallAtATime ==
  \A j, k \in Jobs : Unfinished(j) /\ Unfinished(k) =>
    \E call \in Calls : {j, k} \subseteq InCall(call)

\* When a runner is done its worker has ended, whichever way the runner took, and
\* so has every other process of the worker's group, with one exception: what the
\* worker of a cancelled spawn has started itself is left (WorkerState "orphan").
NoProcessLeftBehind ==
  \A j \in Jobs : pc[j] = "done" => worker[j] \notin Alive

\* When runner and archive thread have both ended, no staged archive is left.
NoStagingLeftBehind ==
  \A j \in Jobs : pc[j] = "done" /\ thread[j] \notin Staging => ~disk[j].staging

\* terminal.json exists, be it in part, only for a closed history; written whole it
\* agrees with it.
TerminalFileAgrees ==
  \A j \in Jobs :
    /\ disk[j].terminal # "none" => IsClosed(Log(j)) /\ disk[j].terminal = Outcome(Log(j))
    /\ "terminal.json" \in torn[j] => IsClosed(Log(j)) /\ disk[j].terminal = "none"

\* A service that serves has forgotten no job: each recorded history without
\* a terminal event is supervised by a runner, or a disk write has failed.
NoJobForgotten ==
  \A j \in Jobs :
    svc = "up" /\ booking = <<>> /\ disk[j].dir # "none" /\ ~IsClosed(Log(j)) =>
      HasRunner(j) \/ faults > 0

\* Startup refuses its files only for a creation cut short, a file that holds part of
\* a write, or a late cancel.
RefusesOnlyKnownDamage ==
  svc = "refused" =>
    \E j \in Jobs :
      disk[j].dir = "partial" \/ torn[j] # {} \/ CancelledTooLate(Log(j))

\* Between two turns of the loop a terminal status shown to clients is the one
\* on disk, so a restart shows it again; a failed disk write is the exception.
SnapshotsTellTheTruth ==
  \A j \in Jobs :
    svc = "up" /\ pc[j] \notin NoAwait /\ mem[j].status \in Terminal =>
      \/ IsClosed(Log(j)) /\ Outcome(Log(j)) = mem[j].status
      \/ faults > 0

\* start_pair reserves both jobs or none: no job of a call goes on while another
\* of the same call was never created, as long as the disk accepts writes.
PairReservedWhole ==
  svc = "up" /\ booking = <<>> /\ faults = 0 =>
    \A call \in Calls : \A j, k \in InCall(call) :
      disk[j].dir = "made" /\ ~IsClosed(Log(j)) => disk[k].dir = "made"

\* The supervisor implements the promise of JobOutcome: the outcome is the one
\* of the persisted history, the publication is the archive directory.
RecordedOutcome(j) ==
  IF Log(j) = <<>> THEN "none" ELSE IF IsClosed(Log(j)) THEN Outcome(Log(j)) ELSE "open"

Promise == INSTANCE JobOutcome WITH
  outcome <- [j \in Jobs |-> RecordedOutcome(j)],
  published <- [j \in Jobs |-> disk[j].archive]

\* Every step of the supervisor, recovery included, is one of JobOutcome or none.
KeepsPromise == Promise!Spec

-----------------------------------------------------------------------------
(***************************************************************************)
(* What the documents say of the program, and the code does not keep.      *)
(***************************************************************************)
\* "persist replayable job truth" (class docstring of SolverJobService): every
\* history on disk passes the test that the next startup applies to it.
EveryHistoryReplays == \A j \in Jobs : Log(j) # <<>> => ValidHistory(Log(j))

\* "Durable terminal truth written once after a worker can no longer run."
\* (JobTerminalMetadata): terminal.json is not there while the worker runs.
TerminalMeansWorkerGone ==
  \A j \in Jobs : disk[j].terminal # "none" => worker[j] \notin {"dropped", "alive"}

\* "Failure to start either arm triggers best-effort cancellation of the other"
\* (Research Workbench): no arm is left queued while the other does not exist.
NoArmLeftQueued ==
  svc = "up" /\ booking = <<>> =>
    \A call \in Calls : \A j, k \in InCall(call) :
      mem[j].status = "queued" => disk[k].dir = "made"

-----------------------------------------------------------------------------
(***************************************************************************)
(* Liveness.  The loop runs a ready task in the end, the clock reaches the *)
(* deadline, a pipe whose writers are dead reaches its end, the archive    *)
(* thread returns, SIGKILL ends the child of a cancelled spawn, and        *)
(* somebody starts the service again.  Nothing else is assumed of the      *)
(* worker, of its descendants, of a spawn or of a client.                  *)
(***************************************************************************)
Fairness ==
  /\ WF_vars(Creation)
  /\ WF_vars(Recovery)
  /\ \A j \in Jobs :
       /\ WF_vars(Runner(j))
       /\ WF_vars(worker[j] = "dead" /\ ReadEOF(j))
       /\ WF_vars(Expire(j))
       /\ WF_vars(SpawnDropped(j))
       /\ WF_vars(Thread(j))

FairSpec == Spec /\ Fairness

\* A job with a runner is not supervised for ever: whatever the worker does, the
\* runner ends, or the service has ended.
EveryRunEnds ==
  \A j \in Jobs : HasRunner(j) ~> (pc[j] \in {"done", "broken"} \/ svc # "up")

\* An accepted job gets its terminal event in the end, through restarts, unless
\* the service refuses to start or a disk write has failed.
AcceptedJobsClose ==
  \A j \in Jobs :
    disk[j].dir = "made" ~> (IsClosed(Log(j)) \/ svc = "refused" \/ faults > 0)

\* A staged archive is in the end published or removed.
StagingGoes ==
  \A j \in Jobs : disk[j].staging ~> (~disk[j].staging \/ svc = "refused")
=============================================================================
