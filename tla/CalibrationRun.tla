--------------------------- MODULE CalibrationRun ---------------------------
(***************************************************************************)
(* The runner of the registered calibration and confirmation cells         *)
(* (experiments/calibration.py): for one cell after the other it submits a *)
(* solver job to the workbench, waits for it, reads the evidence, and      *)
(* keeps what it learned in files that are written once.  A cell gets a    *)
(* second attempt after a failure that may pass.  A run that ends early is *)
(* started again on the same files, and nothing prevents two at once.      *)
(*                                                                         *)
(* The workbench is the client's view of SolverJobs: one active job at a   *)
(* time, each ends, a restart closes the active one.  All cells are of one *)
(* task, the one whose list of completed runs they share.  The records     *)
(* that say only what a cell is (run, cell, attempt intent) are the same   *)
(* whoever writes them, and are left out.  Jobs of other users are left    *)
(* out too: a job whose answer was lost stands for them.                   *)
(***************************************************************************)
EXTENDS Integers, Sequences, FiniteSets

CONSTANTS
  Runners,     \* processes that may run the calibration
  Cells,       \* how many cells are registered
  Page,        \* completed runs a list shows: 50 in the code
  MaxOverlaps, \* runs started while another goes on
  MaxStops,    \* runs cut off and restarts of the workbench
  MaxFaults    \* failed writes of the workbench and failed requests for evidence

ASSUME Parameters ==
  /\ IsFiniteSet(Runners) /\ Cells \in Nat \ {0} /\ Page \in Nat \ {0}
  /\ MaxOverlaps \in Nat /\ MaxStops \in Nat /\ MaxFaults \in Nat

VARIABLES
  jobs,      \* the workbench's jobs in the order of their creation
  recorded,  \* recorded[c, a]: the job of attempt a of cell c, 0 if there is no record
  outcome,   \* outcome[c, a]: the outcome recorded of it
  result,    \* runtime-result.json exists
  run,       \* what each run knows and does
  lost,      \* jobs accepted of which no run could record the identifier
  overlaps, stops, faults

files == <<recorded, outcome, result>>
counts == <<overlaps, stops, faults>>
vars == <<jobs, files, run, lost, counts>>

Attempts == (1..Cells) \X {1, 2}

\* "retryable": timed out, or failed with one of _RETRYABLE_FAILURE_CODES;
\* "final": cancelled, or failed with any other code, supervisor_restart for one.
Terminal == {"completed", "retryable", "final"}
None == [status |-> "none", job |-> 0, valid |-> FALSE]
Off == [pc |-> "off", cell |-> 1, attempt |-> 1, job |-> 0, status |-> "none", valid |-> FALSE]

Stop == stops < MaxStops /\ stops' = stops + 1
Fault == faults < MaxFaults /\ faults' = faults + 1

-----------------------------------------------------------------------------
(***************************************************************************)
(* The workbench.  A terminal status is written, or only in memory, or was *)
(* in memory until a restart replaced it.                                  *)
(***************************************************************************)
NewJob(x) == [of |-> x, status |-> "active", kept |-> "written"]
SomeActive == \E j \in DOMAIN jobs : jobs[j].status = "active"

Finish ==
  /\ \E j \in DOMAIN jobs, s \in Terminal :
       /\ jobs[j].status = "active"
       /\ \/ jobs' = [jobs EXCEPT ![j].status = s] /\ UNCHANGED faults
          \/ /\ Fault
             /\ jobs' = [jobs EXCEPT ![j].status = s, ![j].kept = "memory"]
  /\ UNCHANGED <<files, run, lost, overlaps, stops>>

AfterRestart(x) ==
  CASE x.status = "active" -> [x EXCEPT !.status = "final"]
    [] x.kept = "memory" -> [x EXCEPT !.status = "final", !.kept = "replaced"]
    [] OTHER -> x

Restart ==
  /\ Stop
  /\ jobs' = [j \in DOMAIN jobs |-> AfterRestart(jobs[j])]
  /\ UNCHANGED <<files, run, lost, overlaps, faults>>

CompletedSince(j) ==
  {k \in DOMAIN jobs : k > j /\ jobs[k].status = "completed"}

\* Mutant: the first runs of the task instead of the last.
Listed_First ==
  {j \in DOMAIN jobs : /\ jobs[j].status = "completed"
                       /\ Cardinality({k \in 1..(j - 1) : jobs[k].status = "completed"}) < Page}

\* completed_runs_for_task
Listed == {j \in DOMAIN jobs : jobs[j].status = "completed" /\ Cardinality(CompletedSince(j)) < Page}

\* The whole list is refused when one of its jobs has no terminal event.
ListAnswers == \A j \in Listed : jobs[j].kept = "written"

-----------------------------------------------------------------------------
(***************************************************************************)
(* A run.                                                                  *)
(***************************************************************************)
Attempt(r) == <<run[r].cell, run[r].attempt>>
End(r) == run' = [run EXCEPT ![r] = Off]
Goto(r, step) == run' = [run EXCEPT ![r].pc = step]

Start(r) ==
  /\ run[r].pc = "off" /\ ~result
  /\ run' = [run EXCEPT ![r] = [Off EXCEPT !.pc = "look"]]
  /\ \/ (\A s \in Runners : run[s].pc = "off") /\ UNCHANGED overlaps
     \/ /\ \E s \in Runners : run[s].pc # "off"
        /\ overlaps < MaxOverlaps /\ overlaps' = overlaps + 1
  /\ UNCHANGED <<jobs, files, lost, stops, faults>>

\* Mutant: a second attempt after anything but a valid archive.
Retry_Always(o) == ~o.valid

\* _is_retryable
Retry(o) == o.status = "retryable"

\* Mutant: no end to the cells.
Advance_NoEnd(r, o) ==
  run' = [run EXCEPT ![r] =
    LET c == run[r].cell IN
    IF run[r].attempt = 1 /\ Retry(o) THEN [Off EXCEPT !.pc = "look", !.cell = c, !.attempt = 2]
    ELSE [Off EXCEPT !.pc = "look", !.cell = c + 1]]

\* The loops of orchestrate_calibration and orchestrate_confirmation.
Advance(r, o) ==
  run' = [run EXCEPT ![r] =
    LET c == run[r].cell IN
    IF run[r].attempt = 1 /\ Retry(o) THEN [Off EXCEPT !.pc = "look", !.cell = c, !.attempt = 2]
    ELSE IF c < Cells THEN [Off EXCEPT !.pc = "look", !.cell = c + 1]
    ELSE [Off EXCEPT !.pc = "result", !.cell = c]]

\* Mutant: the recorded job is not looked for.
Look_NoJob(r) ==
  /\ run[r].pc = "look"
  /\ IF outcome[Attempt(r)] # None
     THEN Advance(r, outcome[Attempt(r)])
     ELSE Goto(r, "submit")
  /\ UNCHANGED <<jobs, files, lost, counts>>

\* Both files are looked for at once: an outcome recorded in between has a job
\* recorded before it, and the run goes to wait for that job all the same.
Look(r) ==
  /\ run[r].pc = "look"
  /\ IF outcome[Attempt(r)] # None
     THEN Advance(r, outcome[Attempt(r)])
     ELSE IF recorded[Attempt(r)] # 0
     THEN run' = [run EXCEPT ![r].pc = "wait", ![r].job = recorded[Attempt(r)]]
     ELSE Goto(r, "submit")
  /\ UNCHANGED <<jobs, files, lost, counts>>

\* Refused while any job is active.  The answer may be lost after the job was accepted.
Submit(r) ==
  /\ run[r].pc = "submit"
  /\ IF SomeActive
     THEN End(r) /\ UNCHANGED <<jobs, lost, stops>>
     ELSE /\ jobs' = Append(jobs, NewJob(Attempt(r)))
          /\ \/ /\ run' = [run EXCEPT ![r].pc = "save", ![r].job = Len(jobs) + 1]
                /\ UNCHANGED <<lost, stops>>
             \/ Stop /\ End(r) /\ lost' = lost + 1
  /\ UNCHANGED <<files, overlaps, faults>>

\* Mutant: what another run recorded meanwhile is left, and the own job waited for.
Save_KeepsOwn(r) ==
  /\ run[r].pc = "save"
  /\ recorded' = [recorded EXCEPT ![Attempt(r)] = IF @ = 0 THEN run[r].job ELSE @]
  /\ Goto(r, "wait")
  /\ UNCHANGED <<jobs, outcome, result, lost, counts>>

\* _write_once: the run ends when the record exists.
Save(r) ==
  /\ run[r].pc = "save"
  /\ IF recorded[Attempt(r)] = 0
     THEN recorded' = [recorded EXCEPT ![Attempt(r)] = run[r].job] /\ Goto(r, "wait")
     ELSE End(r) /\ UNCHANGED recorded
  /\ UNCHANGED <<jobs, outcome, result, lost, counts>>

\* wait_for_terminal: the status counts that the workbench had in memory.
Wait(r) ==
  LET s == jobs[run[r].job].status IN
  /\ run[r].pc = "wait" /\ s \in Terminal
  /\ run' = [run EXCEPT ![r].status = s,
                        ![r].pc = IF s = "completed" THEN "evidence" ELSE "record"]
  /\ UNCHANGED <<jobs, files, lost, counts>>

\* completed_evidence: whatever the list lacks, and any HTTP error, makes it invalid.
ReadEvidence(r) ==
  /\ run[r].pc = "evidence"
  /\ \/ /\ run' = [run EXCEPT ![r].valid = ListAnswers /\ run[r].job \in Listed, ![r].pc = "record"]
        /\ UNCHANGED faults
     \/ Fault /\ Goto(r, "record")
  /\ UNCHANGED <<jobs, files, lost, overlaps, stops>>

\* Mutant: an outcome that does not count is not recorded.
Record_ValidOnly(r) ==
  LET o == [status |-> run[r].status, job |-> run[r].job, valid |-> run[r].valid] IN
  /\ run[r].pc = "record"
  /\ IF outcome[Attempt(r)] = None /\ run[r].valid
     THEN outcome' = [outcome EXCEPT ![Attempt(r)] = o] /\ Advance(r, o)
     ELSE End(r) /\ UNCHANGED outcome
  /\ UNCHANGED <<jobs, recorded, result, lost, counts>>

Record(r) ==
  LET o == [status |-> run[r].status, job |-> run[r].job, valid |-> run[r].valid] IN
  /\ run[r].pc = "record"
  /\ IF outcome[Attempt(r)] = None
     THEN outcome' = [outcome EXCEPT ![Attempt(r)] = o] /\ Advance(r, o)
     ELSE End(r) /\ UNCHANGED outcome
  /\ UNCHANGED <<jobs, recorded, result, lost, counts>>

PublishResult(r) ==
  /\ run[r].pc = "result"
  /\ result' = TRUE
  /\ End(r)
  /\ UNCHANGED <<jobs, recorded, outcome, lost, counts>>

\* A crash, a connection lost or timed out, a disk that is full.
Break(r) ==
  /\ run[r].pc # "off" /\ Stop
  /\ lost' = lost + IF run[r].pc = "save" THEN 1 ELSE 0
  /\ End(r)
  /\ UNCHANGED <<jobs, files, overlaps, faults>>

-----------------------------------------------------------------------------
Init ==
  /\ jobs = <<>>
  /\ recorded = [x \in Attempts |-> 0]
  /\ outcome = [x \in Attempts |-> None]
  /\ result = FALSE
  /\ run = [r \in Runners |-> Off]
  /\ lost = 0 /\ overlaps = 0 /\ stops = 0 /\ faults = 0

Step(r) ==
  \/ Look(r) \/ Submit(r) \/ Save(r)
  \/ Wait(r) \/ ReadEvidence(r) \/ Record(r) \/ PublishResult(r)

Next ==
  \/ Finish \/ Restart
  \/ \E r \in Runners : Start(r) \/ Step(r) \/ Break(r)

Spec == Init /\ [][Next]_vars

\* A run goes on, jobs end (EveryRunEnds of SolverJobs), and the operator starts
\* the calibration again as long as there is no result.
FairSpec ==
  /\ Spec
  /\ WF_vars(Finish)
  /\ \A r \in Runners : WF_vars(Step(r)) /\ WF_vars(Start(r))

-----------------------------------------------------------------------------
\* The states are records of the kinds the comments of the variables say, and no
\* more than one job is active.
TypeOK ==
  /\ jobs \in Seq([of : Attempts, status : Terminal \cup {"active"},
                   kept : {"written", "memory", "replaced"}])
  /\ Cardinality({j \in DOMAIN jobs : jobs[j].status = "active"}) <= 1
  /\ recorded \in [Attempts -> 0..Len(jobs)]
  /\ outcome \in [Attempts -> [status : Terminal \cup {"none"}, job : 0..Len(jobs), valid : BOOLEAN]]
  /\ result \in BOOLEAN
  /\ run \in [Runners -> [pc : {"off", "look", "submit", "save", "wait", "evidence",
                                "record", "result"},
                          cell : 1..Cells, attempt : {1, 2}, job : 0..Len(jobs),
                          status : Terminal \cup {"none"}, valid : BOOLEAN]]
  /\ lost \in 0..MaxStops /\ overlaps \in 0..MaxOverlaps
  /\ stops \in 0..MaxStops /\ faults \in 0..MaxFaults

\* What a run will select of a cell.
Selected(c) == IF Retry(outcome[<<c, 1>>]) THEN outcome[<<c, 2>>] ELSE outcome[<<c, 1>>]

\* Whatever runs overlap or are cut off, the recorded outcomes are those of the
\* recorded jobs, of that very attempt, with the status they ended with (unless the
\* workbench replaced what it had told); a second attempt follows a first that may
\* be retried, a cell follows one with an outcome, and the result follows them all.
OutcomesAreOfTheRecordedJobs ==
  /\ \A x \in Attempts :
       LET j == recorded[x] IN
       /\ j # 0 => jobs[j].of = x
       /\ outcome[x] # None =>
            /\ j # 0 /\ outcome[x].job = j
            /\ outcome[x].status = jobs[j].status \/ jobs[j].kept = "replaced"
            /\ outcome[x].valid => jobs[j].status = "completed" /\ jobs[j].kept = "written"
       /\ x[2] = 2 /\ j # 0 => outcome[<<x[1], 1>>].status = "retryable"
       /\ x[1] > 1 /\ j # 0 => Selected(x[1] - 1) # None
  /\ result => \A c \in 1..Cells : Selected(c) # None

\* The evidence of a completed job counts, however the runs overlap, stop and
\* resume, unless a write or a request failed or the list has room for no more.
CompletedWorkCounts ==
  \A x \in Attempts :
    outcome[x].status = "completed" /\ Cardinality(CompletedSince(outcome[x].job)) < Page
      => outcome[x].valid \/ faults > 0

\* However often the calibration is resumed, a job is submitted again only by a run
\* that could not know of the first: an attempt has no more jobs than there are
\* runs at once, and one for every cut between a submission and its record.
OnlyLostJobsRepeat ==
  \A x \in Attempts :
    Cardinality({j \in DOMAIN jobs : jobs[j].of = x}) <= Cardinality(Runners) + lost

\* Started again often enough, the calibration gets its result.
ResultInTheEnd == <>result
=============================================================================
