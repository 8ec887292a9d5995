---------------------------- MODULE CentralStage ----------------------------
(***************************************************************************)
(* The central economic screen (tools/run_m11_economic_central.py and      *)
(* realistic_falsification/economic_central.py): runs that compute one     *)
(* cell after the other, LOCo first and Lectra only if LOCo is red, keep   *)
(* the evidence of each in files, and can be stopped anywhere and started  *)
(* again.  Nothing prevents two of them from running at once.              *)
(*                                                                         *)
(* A cell's evidence is a function of its position, and so are the         *)
(* summaries; files are immutable and published as ArtifactPublisher says: *)
(* as a whole or not at all, but an error may be raised of a publication   *)
(* that was done.                                                          *)
(***************************************************************************)
EXTENDS Integers, Sequences, FiniteSets

CONSTANTS
  Runners,   \* processes that may run the stage
  Segment,   \* cells of a segment: 20 in the code
  MaxFaults  \* failed attempts, failed publications and crashes together

ASSUME Parameters == Segment \in Nat \ {0} /\ MaxFaults \in Nat

Total == 2 * Segment
Positions == 1..Total

VARIABLES
  red,          \* the classification the LOCo cells lead to is current_segment_red
  sidecars,     \* positions whose evidence file exists
  checkpoints,  \* the checkpoint files: <<position, failed attempts anchored>>
  failures,     \* failures[p]: failure receipts of position p
  summaries, manifests,
  run,          \* what each process knows and does
  finished,     \* a run has returned the terminal result
  together,     \* two runs have overlapped
  lateError,    \* an error was raised of a checkpoint that was published
  faults

files == <<sidecars, checkpoints, failures, summaries, manifests>>
history == <<finished, together, lateError>>
vars == <<red, files, run, history, faults>>

Fault == faults < MaxFaults /\ faults' = faults + 1

-----------------------------------------------------------------------------
(***************************************************************************)
(* What a run requires of the files.  A run's own checkpoints, cps, are    *)
(* the sequence of the counts they anchor.                                 *)
(***************************************************************************)
Checkpointed == {c[1] : c \in checkpoints}
NoCompetitors == Cardinality(checkpoints) = Cardinality(Checkpointed)

\* _require_checkpoint_prefix
IsPrefix == Checkpointed = 1..Cardinality(Checkpointed)

OnDisk == [p \in Checkpointed |-> (CHOOSE c \in checkpoints : c[1] = p)[2]]

\* Mutant: failures of the cell to come are not expected.
FailureHistory_NonePending(cps, f, pending) ==
  /\ \A p \in Positions : f[p] > 0 => p <= Len(cps)
  /\ \A p \in 1..Len(cps) : cps[p] = f[p]

\* _require_failure_history
FailureHistory(cps, f, pending) ==
  /\ \A p \in Positions : f[p] > 0 => p <= Len(cps) \/ (pending /\ p = Len(cps) + 1)
  /\ \A p \in 1..Len(cps) : cps[p] = f[p]

\* Mutant: evidence without a checkpoint is overlooked.
Unbound_None(cps) == {}

\* _sidecar_census
Unbound(cps) == sidecars \ (1..Len(cps))
Census(cps, allowed) == 1..Len(cps) \subseteq sidecars /\ Cardinality(Unbound(cps)) <= allowed

\* Mutant: Lectra is screened whatever LOCo says.
NeedsLectra_Always == TRUE

NeedsLectra == red

Needed == {"loco"} \cup IF NeedsLectra THEN {"lectra"} ELSE {}

\* What a run accepts of the files when it starts.
Accepts(cps) ==
  LET open == manifests = {} IN
  /\ Cardinality(manifests) <= 1
  /\ FailureHistory(cps, failures, open)
  /\ Census(cps, IF open THEN 1 ELSE 0)
  /\ Unbound(cps) # {} => Len(cps) < Total /\ Unbound(cps) = {Len(cps) + 1}
  /\ ~open => manifests = {cps} /\ summaries = Needed

-----------------------------------------------------------------------------
Off == [pc |-> "off", cps |-> <<>>, seen |-> [p \in Positions |-> 0], loco |-> FALSE]

Goto(r, step) == run' = [run EXCEPT ![r].pc = step]
Stop(r) == run' = [run EXCEPT ![r] = Off]
Here(r) == Len(run[r].cps) + 1
Extend(r, count) ==
  run' = [run EXCEPT ![r].cps = Append(@, count), ![r].pc = "next"]

\* Checkpoints that compete or have a gap stop the run at once.
Start(r) ==
  /\ run[r].pc = "off"
  /\ together' = (together \/ \E s \in Runners : run[s].pc # "off")
  /\ IF NoCompetitors /\ IsPrefix
     THEN run' = [run EXCEPT ![r].pc = "survey", ![r].cps = OnDisk]
     ELSE UNCHANGED run
  /\ UNCHANGED <<red, files, finished, lateError, faults>>

\* The orphan of an interrupted run is looked for here.
Survey(r) ==
  /\ run[r].pc = "survey"
  /\ IF Accepts(run[r].cps)
     THEN run' = [run EXCEPT ![r].seen = failures,
            ![r].pc = IF manifests # {} THEN "final"
                      ELSE IF Unbound(run[r].cps) # {} THEN "adopt" ELSE "next"]
     ELSE Stop(r)
  /\ UNCHANGED <<red, files, history, faults>>

\* Mutant: earlier failures are not anchored.
Checkpoint_NoHistory(r) == <<Here(r), 0>>

Checkpoint(r) == <<Here(r), run[r].seen[Here(r)]>>

\* _recover_orphan: no failure is recorded if it does not succeed.
Adopt(r) ==
  /\ run[r].pc = "adopt"
  /\ \/ /\ checkpoints' = checkpoints \cup {Checkpoint(r)}
        /\ Extend(r, run[r].seen[Here(r)])
        /\ UNCHANGED faults
     \/ /\ Fault
        /\ \/ UNCHANGED checkpoints
           \/ checkpoints' = checkpoints \cup {Checkpoint(r)}
        /\ Stop(r)
  /\ UNCHANGED <<red, sidecars, failures, summaries, manifests, history>>

-----------------------------------------------------------------------------
\* Mutant: no end to the second segment.
NextStep_NoEnd(r) ==
  /\ run[r].pc = "next"
  /\ LET n == Len(run[r].cps) IN
       Goto(r, IF n < Segment \/ run[r].loco THEN "execute" ELSE "validate")
  /\ UNCHANGED <<red, files, history, faults>>

\* run_economic_central_stage after the survey: LOCo, its summary, and after a red
\* one Lectra.  A run that starts later confirms the first summary all the same.
NextStep(r) ==
  /\ run[r].pc = "next"
  /\ LET n == Len(run[r].cps) IN
       Goto(r, IF n < Segment \/ (run[r].loco /\ n < Total) THEN "execute" ELSE "validate")
  /\ UNCHANGED <<red, files, history, faults>>

\* execute_central_stream.
Execute(r) ==
  /\ run[r].pc = "execute"
  /\ \/ Goto(r, "publish evidence") /\ UNCHANGED faults
     \/ Goto(r, "record") /\ Fault
  /\ UNCHANGED <<red, files, history>>

PublishEvidence(r) ==
  /\ run[r].pc = "publish evidence"
  /\ \/ /\ sidecars' = sidecars \cup {Here(r)}
        /\ Goto(r, "compare")
        /\ UNCHANGED faults
     \/ /\ Fault
        /\ sidecars' \in {sidecars, sidecars \cup {Here(r)}}
        /\ Goto(r, "record")
  /\ UNCHANGED <<red, checkpoints, failures, summaries, manifests, history>>

Unchanged(r, pending) ==
  failures = run[r].seen /\ FailureHistory(run[r].cps, failures, pending)

\* The failure receipts are read again before the checkpoint counts them.
CompareFailures(r) ==
  /\ run[r].pc = "compare"
  /\ Goto(r, IF Unchanged(r, TRUE) THEN "publish checkpoint" ELSE "record")
  /\ UNCHANGED <<red, files, history, faults>>

PublishCheckpoint(r) ==
  /\ run[r].pc = "publish checkpoint"
  /\ \/ /\ checkpoints' = checkpoints \cup {Checkpoint(r)}
        /\ Goto(r, "reread")
        /\ UNCHANGED <<faults, lateError>>
     \/ /\ Fault
        /\ UNCHANGED <<checkpoints, lateError>>
        /\ Goto(r, "record")
     \/ /\ Fault
        /\ checkpoints' = checkpoints \cup {Checkpoint(r)}
        /\ lateError' = TRUE
        /\ Goto(r, "record")
  /\ UNCHANGED <<red, sidecars, failures, summaries, manifests, finished, together>>

\* _record_failed_cell_attempt; the run ends with the error.  No receipt is published
\* when another run has published one meanwhile.
RecordFailure(r) ==
  /\ run[r].pc = "record"
  /\ \/ /\ Unchanged(r, TRUE)
        /\ failures' = [failures EXCEPT ![Here(r)] = @ + 1]
        /\ UNCHANGED faults
     \/ ~Unchanged(r, TRUE) /\ UNCHANGED <<failures, faults>>
     \/ Fault /\ UNCHANGED failures
  /\ Stop(r)
  /\ UNCHANGED <<red, sidecars, checkpoints, summaries, manifests, history>>

\* The checkpoint is read back and looked for among all of them.
Reread(r) ==
  /\ run[r].pc = "reread"
  /\ IF NoCompetitors THEN Extend(r, run[r].seen[Here(r)]) ELSE Stop(r)
  /\ UNCHANGED <<red, files, history, faults>>

-----------------------------------------------------------------------------
\* _fresh_validate_checkpoints.
Validate(r) ==
  /\ run[r].pc = "validate"
  /\ IF Census(run[r].cps, 0) THEN Goto(r, "summary") ELSE Stop(r)
  /\ UNCHANGED <<red, files, history, faults>>

\* _publish_or_confirm_summary, and what the classification of LOCo leads to.
Summarise(r) ==
  /\ run[r].pc = "summary"
  /\ LET segment == IF run[r].loco THEN "lectra" ELSE "loco" IN
     \/ /\ summaries' = summaries \cup {segment}
        /\ run' = [run EXCEPT ![r].loco = TRUE,
             ![r].pc = IF segment = "loco" /\ NeedsLectra THEN "next" ELSE "manifest"]
        /\ UNCHANGED faults
     \/ /\ Fault
        /\ summaries' \in {summaries, summaries \cup {segment}}
        /\ Stop(r)
  /\ UNCHANGED <<red, sidecars, checkpoints, failures, manifests, history>>

\* publish_gate3_economic_central_manifest looks for a manifest first.
FindManifest(r) ==
  /\ run[r].pc = "manifest"
  /\ \/ manifests = {} /\ Goto(r, "publish manifest")
     \/ manifests = {run[r].cps} /\ Goto(r, "final")
     \/ ~(manifests \subseteq {run[r].cps}) /\ Stop(r)
  /\ UNCHANGED <<red, files, history, faults>>

\* The name of the file is made from its content: one that another run has published
\* meanwhile is not in the way.
PublishManifest(r) ==
  /\ run[r].pc = "publish manifest"
  /\ \/ /\ manifests' = manifests \cup {run[r].cps}
        /\ Goto(r, "final")
        /\ UNCHANGED faults
     \/ /\ Fault
        /\ manifests' \in {manifests, manifests \cup {run[r].cps}}
        /\ Stop(r)
  /\ UNCHANGED <<red, sidecars, checkpoints, failures, summaries, history>>

\* Everything is read once more before the result is returned.
Final(r) ==
  /\ run[r].pc = "final"
  /\ finished' = (finished \/
       /\ Census(run[r].cps, 0)
       /\ NoCompetitors /\ OnDisk = run[r].cps
       /\ summaries = Needed /\ manifests = {run[r].cps}
       /\ Unchanged(r, FALSE))
  /\ Stop(r)
  /\ UNCHANGED <<red, files, together, lateError, faults>>

Crash(r) ==
  /\ run[r].pc # "off" /\ Fault
  /\ Stop(r)
  /\ UNCHANGED <<red, files, history>>

-----------------------------------------------------------------------------
Init ==
  /\ red \in BOOLEAN
  /\ sidecars = {} /\ checkpoints = {} /\ summaries = {} /\ manifests = {}
  /\ failures = [p \in Positions |-> 0]
  /\ run = [r \in Runners |-> Off]
  /\ finished = FALSE /\ together = FALSE /\ lateError = FALSE
  /\ faults = 0

Step(r) ==
  \/ Survey(r) \/ Adopt(r) \/ NextStep(r) \/ Execute(r) \/ PublishEvidence(r)
  \/ CompareFailures(r) \/ PublishCheckpoint(r) \/ RecordFailure(r) \/ Reread(r)
  \/ Validate(r) \/ Summarise(r) \/ FindManifest(r) \/ PublishManifest(r) \/ Final(r)

Next == \E r \in Runners : Start(r) \/ Step(r) \/ Crash(r)

Spec == Init /\ [][Next]_vars

\* A run goes on, and the stage is started again until it has a result.
FairSpec ==
  /\ Spec
  /\ \A r \in Runners : WF_vars(Step(r))
  /\ WF_vars(\E r \in Runners : Start(r))
-----------------------------------------------------------------------------
TypeOK ==
  /\ red \in BOOLEAN
  /\ sidecars \subseteq Positions
  /\ checkpoints \subseteq (Positions \X (0..MaxFaults))
  /\ failures \in [Positions -> 0..MaxFaults]
  /\ summaries \subseteq {"loco", "lectra"}
  /\ \A m \in manifests : m \in Seq(0..MaxFaults) /\ Len(m) <= Total
  /\ \A r \in Runners :
       /\ run[r].pc \in {"off", "survey", "adopt", "next", "execute", "publish evidence",
             "compare", "publish checkpoint", "record", "reread", "validate", "summary",
             "manifest", "publish manifest", "final"}
       /\ run[r].cps \in Seq(0..MaxFaults) /\ Len(run[r].cps) <= Total
       /\ run[r].seen \in [Positions -> 0..MaxFaults]
       /\ run[r].loco \in BOOLEAN
  /\ \A flag \in {finished, together, lateError} : flag \in BOOLEAN
  /\ faults \in 0..MaxFaults

\* Whatever a crash, a failed attempt or a failed publication leaves, the next run
\* takes it up, except when two runs overlapped, or an error was raised of a
\* checkpoint that exists: its failure receipt then contradicts the checkpoint.
Resumable ==
  (\A r \in Runners : run[r].pc = "off") =>
    \/ NoCompetitors /\ IsPrefix /\ Accepts(OnDisk)
    \/ together \/ lateError

\* A manifest, even of runs that overlap, is of all cells the branch needs and no
\* other, each with its evidence, and of their summaries.  There is one at most,
\* except when two runs overlapped: each may have looked for one before the other
\* published, and their checkpoints may anchor different counts.
ManifestIsFounded ==
  /\ Cardinality(manifests) <= 1 \/ together
  /\ \A m \in manifests :
       /\ Len(m) = IF red THEN Total ELSE Segment
       /\ \A p \in 1..Len(m) : <<p, m[p]>> \in checkpoints /\ p \in sidecars
       /\ summaries = Needed

\* A cell that has its evidence is not computed again, and none of Lectra is
\* before the summary of a red LOCo exists ("stops before lectra",
\* test_run_m11_economic_central.py).
WorkIsNeeded ==
  \A r \in Runners : run[r].pc = "execute" =>
    /\ Here(r) \in sidecars => together
    /\ Here(r) > Segment => red /\ "loco" \in summaries

\* In the end a run returns the terminal result.
StageCompletes == <>(finished \/ together \/ lateError)
=============================================================================
