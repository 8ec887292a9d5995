----------------------------- MODULE JobStream -----------------------------
(***************************************************************************)
(* How the browser follows a solver job: the event stream of the workbench *)
(* application (app.py, _stream_job_events), the connection, and the view  *)
(* of the web client (NestLab.tsx, jobReducer.ts).  The supervisor is      *)
(* reduced to what it promises the stream: it appends events that keep a   *)
(* history valid (JobHistory), one job at a time, and may die and recover. *)
(*                                                                         *)
(* The view is a React component: a handler changes its state, and the     *)
(* effects whose dependencies changed run only later, so an answer or an   *)
(* event can come in between.  due holds the effects that wait to run.     *)
(***************************************************************************)
EXTENDS JobHistory, FiniteSets

CONSTANTS
  MaxJobs, MaxEvents, MaxCancels,
  MaxFaults  \* dropped connections, failed writes, crashes and hasty acts together

ASSUME Bounds ==
  /\ MaxJobs \in Nat \ {0} /\ {MaxEvents, MaxCancels, MaxFaults} \subseteq Nat

Jobs == 1..MaxJobs
None == 0
Cancels == 1..MaxCancels

VARIABLES
  up,        \* the service runs
  log,       \* log[j]: the persisted events of job j, <<>> before it exists
  mute,      \* mute[j]: a terminal status of j in memory that could not be written
  post,      \* post[j]: the request that created job j
  cancel,    \* the DELETE requests
  link,      \* the current fetch of the event stream, from its server to its reader
  stream,    \* the state of jobReducer
  view,      \* the rest of the component's state
  history,   \* the requests for completed runs
  due,       \* effects waiting to run
  hasty,     \* the user once submitted before the answer to an earlier submit, or did
             \* anything that resets the page before the effects of a render had run
  overtaken, \* jobs whose create answer found the page already showing them
  faults     \* faults so far

marks == <<hasty, overtaken>>
vars == <<up, log, mute, post, cancel, link, stream, view, history, due, marks, faults>>

-----------------------------------------------------------------------------
\* jobReducer.ts.
Initial == [shown |-> <<>>, connection |-> "idle", status |-> "idle", gap |-> FALSE]

Connected(s) == [s EXCEPT !.connection = "connected"]
Disconnected(s) ==
  IF s.connection = "closed" THEN s ELSE [s EXCEPT !.connection = "reconnecting"]
CancelRequested(s) == [s EXCEPT !.status = "cancelling"]

Accepted(s, e) ==
  [shown |-> Append(s.shown, e),
   connection |-> IF e.status \in Terminal THEN "closed" ELSE "connected",
   status |-> e.status, gap |-> FALSE]

Reduce(s, n, e) ==
  IF n <= Len(s.shown) THEN s
  ELSE IF n = Len(s.shown) + 1 THEN Accepted(s, e)
  ELSE [s EXCEPT !.connection = "reconnecting", !.gap = TRUE]

-----------------------------------------------------------------------------
(***************************************************************************)
(* The service.                                                            *)
(***************************************************************************)
Created(j) == log[j] # <<>>
OverInMemory(j) == IsClosed(log[j]) \/ mute[j] # "none"
Running(j) == Created(j) /\ ~OverInMemory(j)
CompletedRuns == {j \in Jobs : IsClosed(log[j]) /\ Outcome(log[j]) = "completed"}

\* Mutant: the status of the last event instead of the one in memory.
MemoryStatus_LastEvent(j) == Outcome(log[j])

MemoryStatus(j) == IF IsClosed(log[j]) THEN Outcome(log[j]) ELSE mute[j]

Candidates(h) == h[Len(h)].count

\* What the supervisor may write next.  "failed" comes only from a recovery: to
\* the client it is like "timed_out".
NextEvents(j) ==
  LET n == Candidates(log[j])
      all == {StatusEvent("running", 0), PhaseEvent, CandidateEvent(n + 1)}
             \cup {TerminalEvent(s, n, 0) : s \in {"timed_out", "cancelled"}}
             \cup {TerminalEvent("completed", n, n)}
  IN {e \in all : ValidHistory(Append(log[j], e))}

Proceed(j) ==
  /\ up /\ Running(j)
  /\ \E e \in NextEvents(j) :
       /\ Len(log[j]) + 1 >= MaxEvents => e.kind = "terminal"
       /\ log' = [log EXCEPT ![j] = Append(@, e)]
  /\ UNCHANGED <<up, mute, post, cancel, link, stream, view, history, due, marks, faults>>

Fault == faults < MaxFaults /\ faults' = faults + 1

\* The terminal event cannot be written; memory says terminal all the same.
LoseTerminal(j) ==
  /\ up /\ Running(j) /\ Fault
  /\ \E e \in NextEvents(j) :
       /\ e.kind = "terminal"
       /\ mute' = [mute EXCEPT ![j] = e.status]
  /\ UNCHANGED <<up, log, post, cancel, link, stream, view, history, due, marks>>

\* Requests that were not answered fail; what was sent may still arrive.
Crash ==
  /\ up /\ Fault
  /\ up' = FALSE
  /\ mute' = [j \in Jobs |-> "none"]
  /\ link' = IF link.state = "none" THEN link ELSE [link EXCEPT !.state = "failed"]
  /\ post' = [j \in Jobs |-> IF post[j] = "sent" THEN "over" ELSE post[j]]
  /\ cancel' = [c \in Cancels |->
       IF cancel[c].stage \in {"sent", "accepted"}
       THEN [cancel[c] EXCEPT !.stage = "over"] ELSE cancel[c]]
  /\ history' = [history EXCEPT !.first = IF @ = "asked" THEN "over" ELSE @,
                                !.refresh = None]
  /\ UNCHANGED <<log, stream, view, due, marks>>

\* Mutant: a finished history is closed once more.
Recovered_Always(h) ==
  IF h = <<>> THEN h ELSE Append(h, TerminalEvent("failed", Candidates(h), 0))

Recovered(h) ==
  IF h = <<>> \/ IsClosed(h) THEN h
  ELSE Append(h, TerminalEvent("failed", Candidates(h), 0))

Restart ==
  /\ ~up
  /\ up' = TRUE
  /\ log' = [j \in Jobs |-> Recovered(log[j])]
  /\ UNCHANGED <<mute, post, cancel, link, stream, view, history, due, marks, faults>>

\* A second job is refused while one is active: the answer is only an error.
ServeCreate(j) ==
  /\ up /\ post[j] = "sent"
  /\ IF \E k \in Jobs : Running(k)
       THEN /\ post' = [post EXCEPT ![j] = "over"]
            /\ UNCHANGED log
       ELSE /\ post' = [post EXCEPT ![j] = "answered"]
            /\ log' = [log EXCEPT ![j] = <<StatusEvent("queued", 0)>>]
  /\ UNCHANGED <<up, mute, cancel, link, stream, view, history, due, marks, faults>>

\* cancel: accepted at most once, answered when the job is terminal in memory.
ServeCancel(c) ==
  /\ up /\ cancel[c].stage = "sent"
  /\ cancel' = [cancel EXCEPT ![c].stage = "accepted"]
  /\ LET j == cancel[c].job
         e == StatusEvent("cancelling", Candidates(log[j]))
     IN IF OverInMemory(j) \/ Outcome(log[j]) = "cancelling"
        THEN UNCHANGED log
        ELSE log' = [log EXCEPT ![j] = Append(@, e)]
  /\ UNCHANGED <<up, mute, post, link, stream, view, history, due, marks, faults>>

AnswerCancel(c) ==
  /\ up /\ cancel[c].stage = "accepted" /\ OverInMemory(cancel[c].job)
  /\ cancel' = [cancel EXCEPT ![c].stage = "answered",
                              ![c].status = MemoryStatus(cancel[c].job)]
  /\ UNCHANGED <<up, log, mute, post, link, stream, view, history, due, marks, faults>>

-----------------------------------------------------------------------------
(***************************************************************************)
(* The connection.  link.asked is the cursor the client sent, link.cursor  *)
(* that of _stream_job_events, link.got the last sequence the reader saw.  *)
(* Events between the two are on their way.  Since a history only grows, a *)
(* chunk of it read before its events are sent makes no difference.        *)
(***************************************************************************)
NoLink == [state |-> "none", job |-> None, cursor |-> 0, got |-> 0, ended |-> FALSE]

\* solver_job_events: a cursor beyond the last event is refused.
AcceptStream ==
  /\ link.state = "opening"
  /\ link' = [link EXCEPT !.state =
       IF up /\ link.cursor <= Len(log[link.job]) THEN "open" ELSE "failed"]
  /\ UNCHANGED <<up, log, mute, post, cancel, stream, view, history, due, marks, faults>>

MoreToSend == link.cursor < Len(log[link.job])

SendEvent ==
  /\ up /\ link.state = "open" /\ MoreToSend
  /\ LET n == link.cursor + 1 IN
       link' = [link EXCEPT
         !.cursor = n,
         !.state = IF log[link.job][n].status \in Terminal THEN "ended" ELSE "open"]
  /\ UNCHANGED <<up, log, mute, post, cancel, stream, view, history, due, marks, faults>>

EndOfStream == ~MoreToSend /\ OverInMemory(link.job)

\* Nothing is left to send and the snapshot is terminal.
EndStream ==
  /\ up /\ link.state = "open" /\ EndOfStream
  /\ link' = [link EXCEPT !.state = "ended"]
  /\ UNCHANGED <<up, log, mute, post, cancel, stream, view, history, due, marks, faults>>

\* What is on its way is lost with the connection.
Drop ==
  /\ link.state \in {"opening", "open", "ended"} /\ Fault
  /\ link' = [link EXCEPT !.state = "failed", !.cursor = link.got]
  /\ UNCHANGED <<up, log, mute, post, cancel, stream, view, history, due, marks>>

-----------------------------------------------------------------------------
(***************************************************************************)
(* The view.  view.job and view.answer are the identifier and the status   *)
(* of the JobView in state, which only an answer to a request replaces;    *)
(* view.ref is lastSequence.current, view.retried that reconnectAttempt is *)
(* not 0.                                                                  *)
(***************************************************************************)
Effective(v, s) ==
  IF v.job = None THEN "idle" ELSE IF s.status = "idle" THEN v.answer ELSE s.status

Shows == Effective(view, stream)
HasActiveJob == view.job # None /\ Shows \notin Terminal

\* Dependencies: the job's identifier and reconnectAttempt; and the job, the
\* status and the selection.
Changed(v, s, sameJobObject) ==
  (IF v.job # view.job \/ v.retried # view.retried THEN {"stream"} ELSE {})
  \cup (IF ~sameJobObject \/ v.selected # view.selected \/ Effective(v, s) # Shows
        THEN {"history"} ELSE {})

Update(v, s, sameJobObject) ==
  /\ view' = v /\ stream' = s
  /\ due' = due \cup Changed(v, s, sameJobObject)

\* Mutant: the last sequence is kept.
Reset_KeepsSequence(j, status) ==
  [view EXCEPT !.job = j, !.answer = status, !.retried = FALSE, !.touched = TRUE]

\* resetArchiveView and setJob.  touched stands for the generation that tells
\* a late first listing.
Reset(j, status) ==
  [view EXCEPT !.job = j, !.answer = status, !.ref = 0, !.retried = FALSE, !.touched = TRUE]

\* selectCompletedRun, once runs are listed.
Select(j, runs) ==
  Update([Reset(j, "completed") EXCEPT !.selected = j, !.runs = runs], Initial, FALSE)

\* A request to a service that is down fails at once.
Sent == IF up THEN "sent" ELSE "over"

\* A submit the page waits for.
Pending(j) == post[j] \in {"sent", "answered"}

\* The user does not wait for the page.
Noted(early) == IF early THEN Fault /\ hasty' = TRUE ELSE UNCHANGED <<hasty, faults>>

Submit(j) ==
  /\ ~HasActiveJob /\ post[j] = "unused"
  /\ \A k \in Jobs : k < j => post[k] # "unused"
  /\ post' = [post EXCEPT ![j] = Sent]
  /\ Noted(due # {} \/ \E k \in Jobs : Pending(k))
  /\ UNCHANGED <<up, log, mute, cancel, link, stream, view, history, due, overtaken>>

\* createJob(...).then: whatever the view shows by now is replaced.
CreateAnswered(j) ==
  /\ post[j] = "answered"
  /\ post' = [post EXCEPT ![j] = "over"]
  /\ Update([Reset(j, "queued") EXCEPT !.selected = None, !.fetched = None], Initial, FALSE)
  /\ overtaken' = IF view.job = j THEN overtaken \cup {j} ELSE overtaken
  /\ UNCHANGED <<up, log, mute, cancel, link, history, hasty, faults>>

ClickCancel(c) ==
  /\ HasActiveJob /\ cancel[c].stage = "unused"
  /\ \A d \in Cancels : d < c => cancel[d].stage # "unused"
  /\ cancel' = [cancel EXCEPT ![c] = [stage |-> Sent, job |-> view.job, status |-> "none"]]
  /\ Update(view, CancelRequested(stream), TRUE)
  /\ UNCHANGED <<up, log, mute, post, link, history, marks, faults>>

\* cancelJob(...).then(setJob): nothing compares the answer with the view.
CancelAnswered(c) ==
  /\ cancel[c].stage = "answered"
  /\ cancel' = [cancel EXCEPT ![c].stage = "over"]
  /\ Update([view EXCEPT !.job = cancel[c].job, !.answer = cancel[c].status],
            stream, FALSE)
  /\ UNCHANGED <<up, log, mute, post, link, history, marks, faults>>

OpenRun(j) ==
  /\ ~HasActiveJob /\ j \in view.runs /\ view.selected # j
  /\ Select(j, view.runs)
  /\ Noted(due # {})
  /\ UNCHANGED <<up, log, mute, post, cancel, link, history, overtaken>>

-----------------------------------------------------------------------------
\* onEvent.
TakeEvent ==
  /\ link.state \in {"open", "ended", "failed"} /\ link.got < link.cursor
  /\ LET n == link.got + 1
         e == log[link.job][n]
     IN /\ link' = [link EXCEPT !.got = n, !.ended = (e.kind = "terminal")]
        /\ Update([view EXCEPT !.ref = n], Reduce(stream, n, e), TRUE)
  /\ UNCHANGED <<up, log, mute, post, cancel, history, marks, faults>>

\* The promise of streamJobEvents settles: done, or rejected.
StreamOver ==
  /\ link.state \in {"ended", "failed"} /\ link.got = link.cursor
  /\ IF link.state = "ended" /\ link.ended
     THEN UNCHANGED <<stream, view>>
     ELSE /\ stream' = Disconnected(stream)
          /\ view' = [view EXCEPT !.timer = TRUE]
  /\ link' = NoLink
  /\ UNCHANGED <<up, log, mute, post, cancel, history, due, marks, faults>>

\* Mutant: the attempt is set, not counted, so it changes only once.
Reconnect_SameAttempt ==
  /\ view.timer
  /\ view' = [view EXCEPT !.timer = FALSE, !.retried = TRUE]
  /\ due' = IF view.retried THEN due ELSE due \cup {"stream"}
  /\ UNCHANGED <<up, log, mute, post, cancel, link, stream, history, marks, faults>>

Reconnect ==
  /\ view.timer
  /\ view' = [view EXCEPT !.timer = FALSE, !.retried = TRUE]
  /\ due' = due \cup {"stream"}
  /\ UNCHANGED <<up, log, mute, post, cancel, link, stream, history, marks, faults>>

\* The stream effect: its cleanup aborts the old fetch and clears the timer.
Follow ==
  IF view.job = None \/ view.answer \in Terminal
  THEN /\ link' = NoLink
       /\ UNCHANGED stream
  ELSE /\ link' = [NoLink EXCEPT !.state = "opening", !.job = view.job,
                                 !.cursor = view.ref, !.got = view.ref]
       /\ stream' = Connected(stream)

WantsRefresh ==
  /\ "history" \in due
  /\ view.job # None /\ view.selected = None /\ Shows = "completed"
  /\ view.fetched # view.job

\* The effects whose dependencies changed, in one go.  The cleanup of the one
\* that lists the runs makes it ignore an answer to come, and it asks once per
\* job.
RunEffects ==
  /\ due # {}
  /\ due' = {}
  /\ IF "stream" \in due THEN Follow ELSE UNCHANGED <<link, stream>>
  /\ view' = [view EXCEPT !.timer = @ /\ "stream" \notin due,
                          !.fetched = IF WantsRefresh THEN view.job ELSE @]
  /\ history' = [history EXCEPT !.refresh = IF WantsRefresh /\ up THEN view.job
                                           ELSE IF "history" \in due THEN None ELSE @]
  /\ UNCHANGED <<up, log, mute, post, cancel, marks, faults>>

\* A run that is completed in memory only makes the whole list answer 500.
ListingFails == \E j \in Jobs : mute[j] = "completed"

\* completedJobId is the job the effect was run for, whatever the page shows by now.
RefreshAnswered ==
  /\ up /\ history.refresh # None
  /\ history' = [history EXCEPT !.refresh = None]
  /\ IF history.refresh \in CompletedRuns /\ ~ListingFails
     THEN Select(history.refresh, CompletedRuns)
     ELSE /\ view' = [view EXCEPT !.runs = IF ListingFails THEN @ ELSE CompletedRuns]
          /\ UNCHANGED <<stream, due>>
  /\ UNCHANGED <<up, log, mute, post, cancel, link, marks, faults>>

\* The listing asked for when the task was opened: served, then delivered.
ServeFirstListing ==
  /\ up /\ history.first = "asked"
  /\ history' = IF ListingFails THEN [history EXCEPT !.first = "over"]
                ELSE [history EXCEPT !.first = "answered", !.listed = CompletedRuns]
  /\ UNCHANGED <<up, log, mute, post, cancel, link, stream, view, due, marks, faults>>

Newest(runs) == {j \in runs : \A k \in runs : k <= j}

\* Mutant: the generation is not compared.
SelectNewest_Always == history.listed # {}

\* The newest run is opened, unless the page has moved on since it asked.
SelectNewest == history.listed # {} /\ ~view.touched

FirstListingAnswered ==
  /\ history.first = "answered"
  /\ history' = [history EXCEPT !.first = "over", !.listed = {}]
  /\ IF SelectNewest
     THEN \E j \in Newest(history.listed) : Select(j, history.listed)
     ELSE /\ view' = [view EXCEPT !.runs = history.listed]
          /\ UNCHANGED <<stream, due>>
  /\ UNCHANGED <<up, log, mute, post, cancel, link, marks, faults>>

-----------------------------------------------------------------------------
\* A run completed before the page was opened.
PastRun == <<StatusEvent("queued", 0), StatusEvent("running", 0), PhaseEvent,
             TerminalEvent("completed", 0, 0)>>

\* The page is opened on a task with or without a completed run.
Init ==
  /\ up = TRUE
  /\ \E old \in SUBSET ({1} \cap Jobs) :
       /\ log = [j \in Jobs |-> IF j \in old THEN PastRun ELSE <<>>]
       /\ post = [j \in Jobs |-> IF j \in old THEN "over" ELSE "unused"]
  /\ mute = [j \in Jobs |-> "none"]
  /\ cancel = [c \in Cancels |-> [stage |-> "unused", job |-> None, status |-> "none"]]
  /\ link = NoLink
  /\ stream = Initial
  /\ view = [job |-> None, answer |-> "none", ref |-> 0, retried |-> FALSE, timer |-> FALSE,
             selected |-> None, fetched |-> None, runs |-> {}, touched |-> FALSE]
  /\ history = [first |-> "asked", listed |-> {}, refresh |-> None]
  /\ due = {}
  /\ hasty = FALSE /\ overtaken = {}
  /\ faults = 0

Service ==
  \/ \E j \in Jobs : Proceed(j) \/ LoseTerminal(j) \/ ServeCreate(j)
  \/ \E c \in Cancels : ServeCancel(c) \/ AnswerCancel(c)
  \/ Crash \/ Restart \/ ServeFirstListing

Connection == AcceptStream \/ SendEvent \/ EndStream \/ Drop

Browser ==
  \/ \E j \in Jobs : Submit(j) \/ CreateAnswered(j) \/ OpenRun(j)
  \/ \E c \in Cancels : ClickCancel(c) \/ CancelAnswered(c)
  \/ TakeEvent \/ StreamOver \/ Reconnect \/ RunEffects
  \/ RefreshAnswered \/ FirstListingAnswered

Next == Service \/ Connection \/ Browser

Spec == Init /\ [][Next]_vars

\* The supervisor ends every job and is started again (SolverJobs); the loop
\* serves what it can; the browser runs its callbacks, timers and effects.
Fairness ==
  /\ \A j \in Jobs : WF_vars(Proceed(j))
  /\ WF_vars(Restart)
  /\ WF_vars(AcceptStream) /\ WF_vars(SendEvent) /\ WF_vars(EndStream)
  /\ WF_vars(TakeEvent) /\ WF_vars(StreamOver) /\ WF_vars(Reconnect)
  /\ WF_vars(RunEffects) /\ WF_vars(RefreshAnswered)

FairSpec == Spec /\ Fairness
-----------------------------------------------------------------------------
TypeOK ==
  /\ up \in BOOLEAN
  /\ log \in [Jobs -> Seq(JobEvent)]
  /\ mute \in [Jobs -> Terminal \cup {"none"}]
  /\ post \in [Jobs -> {"unused", "sent", "answered", "over"}]
  /\ cancel \in [Cancels -> [stage : {"unused", "sent", "accepted", "answered", "over"},
                            job : Jobs \cup {None}, status : Terminal \cup {"none"}]]
  /\ link \in [state : {"none", "opening", "open", "ended", "failed"}, job : Jobs \cup {None},
               cursor : Nat, got : Nat, ended : BOOLEAN]
  /\ stream \in [shown : Seq(JobEvent), gap : BOOLEAN, status : JobStatus \cup {"idle"},
                 connection : {"idle", "connected", "reconnecting", "closed"}]
  /\ view \in [job : Jobs \cup {None}, answer : JobStatus \cup {"none"}, ref : Nat,
               retried : BOOLEAN, timer : BOOLEAN, selected : Jobs \cup {None},
               fetched : Jobs \cup {None}, runs : SUBSET Jobs, touched : BOOLEAN]
  /\ history \in [first : {"asked", "answered", "over"}, listed : SUBSET Jobs,
                  refresh : Jobs \cup {None}]
  /\ due \subseteq {"stream", "history"}
  /\ hasty \in BOOLEAN /\ overtaken \subseteq Jobs
  /\ faults \in 0..MaxFaults

\* What the view has accepted is the beginning of one job's history, whatever was
\* sent again, lost or recovered, and the next request goes on right behind it:
\* lastSequence.current and the reducer's count agree, and no gap is ever seen.  Only a
\* user who acts before the page has caught up can break it: a fetch that is not yet
\* aborted brings an event behind the reset.
IsBeginning(s, h) == Len(s) <= Len(h) /\ s = SubSeq(h, 1, Len(s))

ShownIsContiguous ==
  \/ /\ \E j \in Jobs : IsBeginning(stream.shown, log[j])
     /\ view.ref = Len(stream.shown)
     /\ ~stream.gap
  \/ hasty

\* The identifier, the events and the outcome on the page belong together and to
\* what the service has recorded, except after a cancel was answered, which replaces
\* the job whatever the page shows by then, and for the hasty user.
Displaced(j) ==
  \E c \in Cancels : cancel[c].stage = "over" /\ cancel[c].job = j /\ view.answer = cancel[c].status

PageIsOfOneJob ==
  view.job # None =>
    \/ /\ IsBeginning(stream.shown, log[view.job])
       /\ Shows \in Terminal => IsClosed(log[view.job]) /\ Outcome(log[view.job]) = Shows
    \/ Displaced(view.job)
    \/ hasty

\* No late answer takes the page away from the job it follows, neither the first listing
\* nor a refresh ("does not let a late initial history response replace an active job",
\* App.test.tsx): only the answer to a cancel can, that to a refresh as long as the
\* cleanup of its effect has not run, and that to another submit of a hasty user.  To a
\* user who is not hasty every job that runs is one the page follows.
Follows == HasActiveJob \/ (~hasty /\ view.job # None /\ up /\ Running(view.job))

ActiveJobStays ==
  [][Follows /\ view'.job # view.job =>
       \/ \E c \in Cancels : CancelAnswered(c)
       \/ RefreshAnswered /\ "history" \in due
       \/ hasty /\ \E j \in Jobs : CreateAnswered(j)]_vars

\* The page does not stay for ever without the end of its job, whatever connections are
\* lost and however often the service starts again: the end comes as the terminal event, or
\* at least as the answer to a cancel.  A create answer that finds the page with the
\* completed run already selected does keep the end away: it sets the job back to "queued",
\* and neither dependency of the stream effect has changed.
EndIsMissing ==
  /\ view.job # None /\ IsClosed(log[view.job])
  /\ Shows \notin Terminal /\ view.answer \notin Terminal
  /\ view.job \notin overtaken /\ ~hasty

EndIsShown == []<>~EndIsMissing

-----------------------------------------------------------------------------
\* "locks history during an active job and selects it after archive completion"
\* (App.test.tsx): the completed run is selected in the end.
CompletedRunIsSelected ==
  \A j \in Jobs : (view.job = j /\ j \in CompletedRuns) ~>
    (view.job # j \/ view.selected = j \/ j \in overtaken)
=============================================================================
