----------------------------- MODULE JobHistory -----------------------------
(***************************************************************************)
(* The persisted event history of one solver job (events.jsonl) and the    *)
(* test the service applies to it when it starts:                          *)
(* SolverJobService._validate_event_history.  A history is a sequence of   *)
(* events; the sequence number of an event is its index.  The content of a *)
(* candidate is abstracted to its position in the candidate stream, so a   *)
(* batch is its length, and an event carries the number of candidates seen *)
(* when it was written.                                                    *)
(***************************************************************************)
EXTENDS Naturals, Sequences

Terminal == {"completed", "failed", "timed_out", "cancelled"}
JobStatus == {"queued", "running", "cancelling"} \cup Terminal
EventKind == {"status", "phase", "candidate", "terminal"}

\* "batch" is the length of the batch a completed event carries, 0 otherwise.
JobEvent ==
  {e \in [kind: EventKind, status: JobStatus, count: Nat, batch: Nat] :
     /\ e.kind = "terminal" <=> e.status \in Terminal
     /\ e.kind \in {"phase", "candidate"} => e.status = "running"
     /\ e.batch > 0 => e.status = "completed"}

StatusEvent(s, n) == [kind |-> "status", status |-> s, count |-> n, batch |-> 0]
PhaseEvent == [kind |-> "phase", status |-> "running", count |-> 0, batch |-> 0]
CandidateEvent(n) ==
  [kind |-> "candidate", status |-> "running", count |-> n, batch |-> 0]
TerminalEvent(s, n, b) ==
  [kind |-> "terminal", status |-> s, count |-> n, batch |-> b]

\* The last event decides whether a history still awaits its terminal event.
IsClosed(h) == h # <<>> /\ h[Len(h)].kind = "terminal"
Outcome(h) == h[Len(h)].status

(***************************************************************************)
(* One event may follow another only along these transitions of status.    *)
(***************************************************************************)
FollowsQueued(e) ==
  \/ e.kind = "status" /\ e.status \in {"running", "cancelling"}
  \/ e.kind = "terminal" /\ e.status \in {"failed", "timed_out"}

FollowsRunning(e) ==
  \/ e.kind \in {"phase", "candidate"} /\ e.status = "running"
  \/ e.kind = "status" /\ e.status = "cancelling"
  \/ e.kind = "terminal" /\ e.status \in {"completed", "failed", "timed_out"}

FollowsCancelling(e) ==
  e.kind = "terminal" /\ e.status \in {"cancelled", "failed"}

LegalStep(prior, e) ==
  \/ prior = "queued" /\ FollowsQueued(e)
  \/ prior = "running" /\ FollowsRunning(e)
  \/ prior = "cancelling" /\ FollowsCancelling(e)

(***************************************************************************)
(* The whole test.  A completed history must show the solving phase, agree *)
(* with the length of its batch, and name no candidate beyond the batch.   *)
(***************************************************************************)
StartsQueued(h) == h[1] = StatusEvent("queued", 0)

CountsNeverDrop(h) == \A i \in 2..Len(h) : h[i-1].count <= h[i].count

TerminalIsLast(h) == \A i \in 1..Len(h)-1 : h[i].kind # "terminal"

StepsAreLegal(h) == \A i \in 2..Len(h) : LegalStep(h[i-1].status, h[i])

OnePhase(h) ==
  \A i \in 2..Len(h) : h[i].kind = "phase" =>
    /\ h[i].count = h[i-1].count
    /\ \A k \in 2..i-1 : h[k].kind # "phase"

CandidatesInOrder(h) ==
  \A i \in 2..Len(h) : h[i].kind = "candidate" =>
    /\ h[i].count > 0
    /\ \E k \in 2..i-1 : h[k].kind = "phase"
    /\ \A k \in 2..i-1 : h[k].kind = "candidate" => h[k].count < h[i].count

CompletedAgreesWithBatch(h) ==
  IsClosed(h) /\ Outcome(h) = "completed" =>
    /\ h[Len(h)].count = h[Len(h)].batch
    /\ \E k \in 2..Len(h) : h[k].kind = "phase"
    /\ \A i \in 2..Len(h) : h[i].kind = "candidate" => h[i].count <= h[Len(h)].batch

ValidHistory(h) ==
  /\ h # <<>>
  /\ StartsQueued(h)
  /\ CountsNeverDrop(h)
  /\ TerminalIsLast(h)
  /\ StepsAreLegal(h)
  /\ OnePhase(h)
  /\ CandidatesInOrder(h)
  /\ CompletedAgreesWithBatch(h)
=============================================================================
