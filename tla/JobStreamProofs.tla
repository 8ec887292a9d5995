-------------------------- MODULE JobStreamProofs --------------------------
(***************************************************************************)
(* What the page shows of a job, for any number of jobs, events, cancels   *)
(* and faults.                                                             *)
(*                                                                         *)
(* Two arguments.  Whatever the user does, nothing is shown, listed,       *)
(* cancelled or followed that does not exist (PageInv).  And               *)
(* lastSequence.current is shared by everything that resets the page and   *)
(* by the fetch that is not aborted before the effects have run: it goes   *)
(* wrong if an old connection still has events to bring after a reset.  As *)
(* long as the user is not hasty, whatever resets the page finds the       *)
(* connection drained (Pauses in StreamInv).                               *)
(***************************************************************************)
EXTENDS JobStream, TLAPS

\* The terminal event of a history is its last, also while the history is open.
Histories == \A j \in Jobs : TerminalIsLast(log[j])

\* A job exists from its creation on, and one creation is under way at a time.
Creations ==
  /\ \A j \in Jobs :
       /\ post[j] \in {"unused", "sent"} => ~Created(j)
       /\ post[j] = "answered" => Created(j)
  /\ \A j, k \in Jobs : Pending(j) /\ Pending(k) => j = k
  /\ view.runs \cup history.listed \subseteq CompletedRuns

Asked(c) == cancel[c].stage # "unused"

\* A cancel is of a job the page has shown; its answer is the status of a job that is over,
\* at least until the service is started again.
Cancellations ==
  \A c \in Cancels :
    /\ Asked(c) => cancel[c].job # None /\ Created(cancel[c].job)
                   /\ post[cancel[c].job] = "over" /\ view.job # None
    /\ cancel[c].stage = "answered" => cancel[c].status \in Terminal
    /\ cancel[c].status \in Terminal => Asked(c) /\ (up => OverInMemory(cancel[c].job))

NeverCancelled(j) == \A c \in Cancels : Asked(c) => cancel[c].job # j

\* What the connection has still to bring is part of the job's history.
Delivers ==
  link.state # "none" =>
    /\ link.job # None /\ Created(link.job)
    /\ link.got <= link.cursor /\ link.cursor <= Len(log[link.job])

\* The connection has brought the end of its job and can bring nothing more.
Drained ==
  link.state # "none" => IsClosed(log[link.job]) /\ link.got = Len(log[link.job])

\* A connection that may still bring events goes on where the page stands.
Continues ==
  ~Drained =>
    /\ view.ref = link.got /\ IsBeginning(stream.shown, log[link.job])
    /\ link.job = view.job \/ Displaced(view.job)
    /\ stream.status = "idle" => NeverCancelled(link.job)
    /\ "stream" \notin due =>
         link.job = view.job /\ (view.answer \in Terminal => stream.status # "idle")

\* The page has the completed run from a list, and not yet the answer to its creation.
FoundEarly ==
  view.job \in CompletedRuns /\ view.answer = "completed" /\ stream.status = "idle"

\* The page.
Page ==
  /\ IF view.job = None
     THEN /\ stream.status = "idle" /\ stream.shown = <<>> /\ link.state = "none"
     ELSE /\ Created(view.job)
          /\ post[view.job] = "over" \/ FoundEarly
          /\ view.touched /\ view.answer # "none"
          /\ stream.status = "idle" /\ view.answer \notin Terminal => NeverCancelled(view.job)
  /\ stream.status \in Terminal =>
       IsClosed(stream.shown) /\ Outcome(stream.shown) = stream.status

\* Whatever resets the page finds the connection drained: a creation that is under
\* way, and a list that was asked for.
Pauses ==
  /\ \A j \in Jobs : Pending(j) => ~HasActiveJob /\ Drained
  /\ history.refresh # None =>
       Drained /\ ("history" \notin due => ~HasActiveJob /\ view.job # None)

\* What ShownIsContiguous and PageIsOfOneJob say to a user who is not hasty.
Contiguous ==
  /\ \E j \in Jobs : IsBeginning(stream.shown, log[j])
  /\ view.ref = Len(stream.shown)
  /\ ~stream.gap

OneJob ==
  view.job # None =>
    \/ /\ IsBeginning(stream.shown, log[view.job])
       /\ Shows \in Terminal => IsClosed(log[view.job]) /\ Outcome(log[view.job]) = Shows
    \/ Displaced(view.job)

StreamInv ==
  /\ TypeOK /\ Histories /\ Creations /\ Cancellations /\ Delivers /\ Continues /\ Page /\ Pauses
  /\ Contiguous /\ OneJob

-----------------------------------------------------------------------------
(***************************************************************************)
(* Beginnings of histories.                                                *)
(***************************************************************************)
\* A beginning agrees position by position.
LEMMA BeginningByPosition ==
  ASSUME NEW s \in Seq(JobEvent), NEW h \in Seq(JobEvent)
  PROVE  IsBeginning(s, h) <=> Len(s) <= Len(h) /\ \A i \in 1..Len(s) : s[i] = h[i]
<1>1. Len(s) \in Nat /\ Len(h) \in Nat
  OBVIOUS
<1>2. ASSUME Len(s) <= Len(h)
      PROVE  s = SubSeq(h, 1, Len(s)) <=> \A i \in 1..Len(s) : s[i] = h[i]
  <2> DEFINE t == SubSeq(h, 1, Len(s))
  <2>1. t \in Seq(JobEvent) /\ Len(t) = Len(s) /\ \A i \in 1..Len(s) : t[i] = h[i]
    BY <1>1, <1>2
  <2> HIDE DEF t
  <2>2. (\A i \in 1..Len(s) : s[i] = t[i]) => s = t
    BY <1>1, <2>1
  <2> QED
    BY <2>1, <2>2 DEF t
<1> QED
  BY <1>2 DEF IsBeginning

LEMMA EmptyBegins ==
  ASSUME NEW h \in Seq(JobEvent) PROVE IsBeginning(<<>>, h)
<1> DEFINE s == <<>>
<1>1. s \in Seq(JobEvent) /\ Len(s) = 0 /\ Len(h) \in Nat
  OBVIOUS
<1> HIDE DEF s
<1>2. Len(s) <= Len(h) /\ \A i \in 1..Len(s) : s[i] = h[i]
  BY <1>1
<1>3. IsBeginning(s, h)
  BY <1>1, <1>2, BeginningByPosition
<1> QED
  BY <1>3 DEF s

\* What began a history begins it still when it has grown.
LEMMA BeginningsGrow ==
  ASSUME NEW s \in Seq(JobEvent), NEW h \in Seq(JobEvent), NEW g \in Seq(JobEvent),
         IsBeginning(s, h), IsBeginning(h, g)
  PROVE  IsBeginning(s, g)
<1>1. /\ Len(s) \in Nat /\ Len(h) \in Nat /\ Len(g) \in Nat
      /\ Len(s) <= Len(h) /\ Len(h) <= Len(g)
      /\ \A i \in 1..Len(s) : s[i] = h[i]
      /\ \A i \in 1..Len(h) : h[i] = g[i]
  BY BeginningByPosition
<1>2. \A i \in 1..Len(s) : i \in 1..Len(h)
  BY <1>1
<1> QED
  BY <1>1, <1>2, BeginningByPosition

\* The next event of the history makes a longer beginning.
LEMMA BeginningTakesNext ==
  ASSUME NEW s \in Seq(JobEvent), NEW h \in Seq(JobEvent), IsBeginning(s, h), Len(s) < Len(h)
  PROVE  IsBeginning(Append(s, h[Len(s) + 1]), h)
<1> DEFINE e == h[Len(s) + 1]
           t == Append(s, e)
<1>1. /\ Len(s) \in Nat /\ Len(h) \in Nat /\ e \in JobEvent
      /\ \A i \in 1..Len(s) : s[i] = h[i]
  BY BeginningByPosition
<1>2. /\ t \in Seq(JobEvent) /\ Len(t) = Len(s) + 1 /\ t[Len(s) + 1] = e
      /\ \A i \in 1..Len(s) : t[i] = s[i]
  BY <1>1
<1>3. \A i \in 1..Len(t) : i \in 1..Len(s) \/ i = Len(s) + 1
  BY <1>1, <1>2
<1> HIDE DEF t
<1>4. \A i \in 1..Len(t) : t[i] = h[i]
  BY <1>1, <1>2, <1>3
<1>5. IsBeginning(t, h)
  BY <1>1, <1>2, <1>4, BeginningByPosition
<1> QED
  BY <1>5 DEF t

\* A history with one more event.
LEMMA OneMore ==
  ASSUME NEW h \in Seq(JobEvent), NEW e \in JobEvent
  PROVE  /\ Append(h, e) \in Seq(JobEvent) /\ Append(h, e) # <<>>
         /\ IsBeginning(h, Append(h, e))
         /\ IsClosed(Append(h, e)) <=> e.kind = "terminal"
         /\ Outcome(Append(h, e)) = e.status
         /\ ~IsClosed(h) /\ TerminalIsLast(h) => TerminalIsLast(Append(h, e))
<1> DEFINE g == Append(h, e)
<1>1. /\ Len(h) \in Nat /\ g \in Seq(JobEvent) /\ g # <<>> /\ Len(g) = Len(h) + 1
      /\ g[Len(h) + 1] = e
      /\ \A i \in 1..Len(h) : g[i] = h[i]
      /\ h = <<>> => Len(h) = 0
  OBVIOUS
<1> HIDE DEF g
<1>2. IsBeginning(h, g)
  BY <1>1, BeginningByPosition
<1>3. (IsClosed(g) <=> e.kind = "terminal") /\ Outcome(g) = e.status
  BY <1>1 DEF IsClosed, Outcome
<1>4. ASSUME ~IsClosed(h), TerminalIsLast(h) PROVE TerminalIsLast(g)
  <2> SUFFICES ASSUME NEW i \in 1..Len(h) PROVE g[i].kind # "terminal"
    BY <1>1 DEF TerminalIsLast
  <2>1. CASE i = Len(h)
    BY <1>1, <1>4, <2>1 DEF IsClosed
  <2>2. CASE i # Len(h)
    <3>1. i \in 1..Len(h)-1
      BY <1>1, <2>2
    <3> QED
      BY <1>1, <1>4, <3>1 DEF TerminalIsLast
  <2> QED
    BY <2>1, <2>2
<1> QED
  BY <1>1, <1>2, <1>3, <1>4 DEF g

\* A beginning that is closed is the whole history.
LEMMA ClosedIsWhole ==
  ASSUME NEW s \in Seq(JobEvent), NEW h \in Seq(JobEvent), IsBeginning(s, h), IsClosed(s),
         TerminalIsLast(h)
  PROVE  IsClosed(h) /\ Len(s) = Len(h) /\ Outcome(h) = Outcome(s)
<1>1. /\ Len(s) \in Nat \ {0} /\ Len(h) \in Nat /\ Len(s) <= Len(h)
      /\ \A i \in 1..Len(s) : s[i] = h[i]
      /\ s[Len(s)].kind = "terminal"
  BY BeginningByPosition DEF IsClosed
<1>2. Len(s) \in 1..Len(s) /\ h[Len(s)].kind = "terminal"
  BY <1>1
<1>3. Len(s) = Len(h)
  BY <1>1, <1>2 DEF TerminalIsLast
<1> QED
  BY <1>1, <1>3 DEF IsClosed, Outcome

\* A terminal event stands only at the end, and closes the history.
LEMMA TerminalIsTheEnd ==
  ASSUME NEW h \in Seq(JobEvent), TerminalIsLast(h), NEW n \in 1..Len(h),
         h[n].status \in Terminal
  PROVE  n = Len(h) /\ IsClosed(h) /\ Outcome(h) = h[n].status
<1>1. Len(h) \in Nat /\ h[n] \in JobEvent /\ h[n].kind = "terminal"
  BY DEF JobEvent
<1>2. n = Len(h)
  BY <1>1 DEF TerminalIsLast
<1> QED
  BY <1>1, <1>2 DEF IsClosed, Outcome

\* What ends a history is an outcome, and its count is a number.
LEMMA LastEvent ==
  ASSUME NEW h \in Seq(JobEvent), h # <<>>
  PROVE  /\ Candidates(h) \in Nat /\ Outcome(h) \in JobStatus
         /\ IsClosed(h) <=> Outcome(h) \in Terminal
         /\ Len(h) \in Nat \ {0}
<1>1. Len(h) \in Nat \ {0} /\ h[Len(h)] \in JobEvent
  OBVIOUS
<1> QED
  BY <1>1 DEF JobEvent, Candidates, Outcome, IsClosed

-----------------------------------------------------------------------------
(***************************************************************************)
(* Types.                                                                  *)
(***************************************************************************)
ViewRec ==
  [job : Jobs \cup {None}, answer : JobStatus \cup {"none"}, ref : Nat,
   retried : BOOLEAN, timer : BOOLEAN, selected : Jobs \cup {None},
   fetched : Jobs \cup {None}, runs : SUBSET Jobs, touched : BOOLEAN]
StreamRec ==
  [shown : Seq(JobEvent), gap : BOOLEAN, status : JobStatus \cup {"idle"},
   connection : {"idle", "connected", "reconnecting", "closed"}]
LinkRec ==
  [state : {"none", "opening", "open", "ended", "failed"}, job : Jobs \cup {None},
   cursor : Nat, got : Nat, ended : BOOLEAN]
CancelRec ==
  [stage : {"unused", "sent", "accepted", "answered", "over"},
   job : Jobs \cup {None}, status : Terminal \cup {"none"}]
HistoryRec ==
  [first : {"asked", "answered", "over"}, listed : SUBSET Jobs, refresh : Jobs \cup {None}]

LEMMA TypeParts ==
  TypeOK <=>
    /\ up \in BOOLEAN /\ log \in [Jobs -> Seq(JobEvent)]
    /\ mute \in [Jobs -> Terminal \cup {"none"}]
    /\ post \in [Jobs -> {"unused", "sent", "answered", "over"}]
    /\ cancel \in [Cancels -> CancelRec] /\ link \in LinkRec
    /\ stream \in StreamRec /\ view \in ViewRec /\ history \in HistoryRec
    /\ due \subseteq {"stream", "history"} /\ faults \in 0..MaxFaults
    /\ marks \in BOOLEAN \X SUBSET Jobs
BY DEF TypeOK, CancelRec, LinkRec, StreamRec, ViewRec, HistoryRec, marks

LEMMA NextTypeParts ==
  TypeOK' <=>
    /\ up' \in BOOLEAN /\ log' \in [Jobs -> Seq(JobEvent)]
    /\ mute' \in [Jobs -> Terminal \cup {"none"}]
    /\ post' \in [Jobs -> {"unused", "sent", "answered", "over"}]
    /\ cancel' \in [Cancels -> CancelRec] /\ link' \in LinkRec
    /\ stream' \in StreamRec /\ view' \in ViewRec /\ history' \in HistoryRec
    /\ due' \subseteq {"stream", "history"} /\ faults' \in 0..MaxFaults
    /\ marks' \in BOOLEAN \X SUBSET Jobs
BY DEF TypeOK, CancelRec, LinkRec, StreamRec, ViewRec, HistoryRec, marks

\* The kinds of events, the statuses and the shapes they have.
LEMMA EventTypes ==
  /\ Terminal \subseteq JobStatus /\ "none" \notin JobStatus /\ None \notin Jobs
  /\ {"queued", "running", "cancelling"} \cap Terminal = {}
  /\ \A n \in Nat : \A s \in {"queued", "running", "cancelling"} :
       StatusEvent(s, n) \in JobEvent
  /\ PhaseEvent \in JobEvent
  /\ \A n \in Nat : CandidateEvent(n) \in JobEvent
  /\ \A n \in Nat, s \in Terminal : TerminalEvent(s, n, 0) \in JobEvent
  /\ \A n \in Nat : TerminalEvent("completed", n, n) \in JobEvent
BY Bounds DEF JobEvent, EventKind, JobStatus, Terminal, StatusEvent, PhaseEvent, CandidateEvent,
   TerminalEvent, None, Jobs

LEMMA NextEventTypes ==
  ASSUME TypeOK, NEW j \in Jobs, Created(j)
  PROVE  \A e \in NextEvents(j) : e \in JobEvent /\ e.status # "cancelling"
<1>1. log[j] \in Seq(JobEvent) /\ log[j] # <<>>
  BY DEF TypeOK, Created
<1>2. Candidates(log[j]) \in Nat
  BY <1>1, LastEvent
<1>3. Candidates(log[j]) + 1 \in Nat /\ "timed_out" \in Terminal /\ "cancelled" \in Terminal
  BY <1>2 DEF Terminal
<1> SUFFICES ASSUME NEW e \in NextEvents(j) PROVE e \in JobEvent /\ e.status # "cancelling"
  OBVIOUS
<1> DEFINE n == Candidates(log[j])
<1>4. \/ e \in {StatusEvent("running", 0), PhaseEvent, CandidateEvent(n + 1),
               TerminalEvent("completed", n, n)}
      \/ \E s \in {"timed_out", "cancelled"} : e = TerminalEvent(s, n, 0)
  BY DEF NextEvents
<1> HIDE DEF n
<1>5. e \in JobEvent
  <2>1. n \in Nat /\ n + 1 \in Nat /\ 0 \in Nat
    BY <1>2 DEF n
  <2> QED
    BY <1>3, <1>4, <2>1, EventTypes
<1>6. e.status # "cancelling"
  BY <1>4 DEF StatusEvent, PhaseEvent, CandidateEvent, TerminalEvent
<1> QED
  BY <1>5, <1>6

\* The reducer keeps its state's type.
LEMMA ReducerTypes ==
  ASSUME NEW s \in StreamRec
  PROVE  /\ Connected(s) \in StreamRec /\ Disconnected(s) \in StreamRec
         /\ CancelRequested(s) \in StreamRec /\ Initial \in StreamRec
         /\ \A n \in Nat, e \in JobEvent : Reduce(s, n, e) \in StreamRec
<1>1. "cancelling" \in JobStatus
  BY DEF JobStatus
<1>2. Initial \in StreamRec
  <2>1. <<>> \in Seq(JobEvent)
    OBVIOUS
  <2> QED
    BY <2>1 DEF Initial, StreamRec
<1>3. ASSUME NEW e \in JobEvent PROVE Accepted(s, e) \in StreamRec
  <2>1. Append(s.shown, e) \in Seq(JobEvent) /\ e.status \in JobStatus
    BY DEF StreamRec, JobEvent
  <2> QED
    BY <2>1 DEF Accepted, StreamRec
<1> QED
  BY <1>1, <1>2, <1>3 DEF Connected, Disconnected, CancelRequested, Reduce, StreamRec

LEMMA ResetTypes ==
  ASSUME view \in ViewRec, NEW j \in Jobs \cup {None}, NEW s \in JobStatus
  PROVE  Reset(j, s) \in ViewRec
BY DEF Reset, ViewRec

LEMMA UpdateTypes ==
  ASSUME TypeOK, NEW v \in ViewRec, NEW s \in StreamRec, NEW b \in BOOLEAN, Update(v, s, b)
  PROVE  view' \in ViewRec /\ stream' \in StreamRec /\ due' \subseteq {"stream", "history"}
BY DEF TypeOK, Update, Changed

LEMMA SelectTypes ==
  ASSUME TypeOK, NEW runs \in SUBSET Jobs, NEW j \in Jobs, Select(j, runs)
  PROVE  view' \in ViewRec /\ stream' \in StreamRec /\ due' \subseteq {"stream", "history"}
<1> DEFINE v == [Reset(j, "completed") EXCEPT !.selected = j, !.runs = runs]
<1>1. "completed" \in JobStatus /\ view \in ViewRec /\ Initial \in StreamRec
  BY TypeParts, ReducerTypes DEF JobStatus, Terminal
<1>2. v \in ViewRec
  <2> DEFINE r == Reset(j, "completed")
  <2>1. r \in ViewRec
    BY <1>1, ResetTypes
  <2> HIDE DEF r
  <2>2. [r EXCEPT !.selected = j, !.runs = runs] \in ViewRec
    BY <2>1 DEF ViewRec
  <2> QED
    BY <2>2 DEF r
<1> QED
  BY <1>1, <1>2, UpdateTypes DEF Select

-----------------------------------------------------------------------------
(***************************************************************************)
(* Whatever the user does: types, and nothing is shown, listed, cancelled  *)
(* or followed that does not exist.                                        *)
(***************************************************************************)
\* A history is left as it is, or goes on if it is open.
LogsGrow ==
  \A j \in Jobs :
    log'[j] = log[j] \/ (~IsClosed(log[j]) /\ IsBeginning(log[j], log'[j]))

SameConnection ==
  /\ link'.job = link.job /\ link'.got = link.got
  /\ link'.state = "none" <=> link.state = "none"

LEMMA GrownHistory ==
  ASSUME TypeOK, TypeOK', LogsGrow, NEW j \in Jobs
  PROVE  /\ IsBeginning(log[j], log'[j]) /\ Len(log[j]) <= Len(log'[j])
         /\ Created(j) => Created(j)'
         /\ IsClosed(log[j]) => log'[j] = log[j]
<1>1. log[j] \in Seq(JobEvent) /\ log'[j] \in Seq(JobEvent)
  BY DEF TypeOK
<1>2. IsBeginning(log[j], log[j])
  BY <1>1, BeginningByPosition
<1>3. IsBeginning(log[j], log'[j]) /\ (IsClosed(log[j]) => log'[j] = log[j])
  BY <1>2 DEF LogsGrow
<1>4. Len(log[j]) <= Len(log'[j])
  BY <1>3 DEF IsBeginning
<1>5. log[j] # <<>> => log'[j] # <<>>
  <2>1. Len(log[j]) \in Nat /\ (log[j] # <<>> => Len(log[j]) > 0)
        /\ (log'[j] = <<>> => Len(log'[j]) = 0)
    BY <1>1
  <2> QED
    BY <1>4, <2>1
<1> QED
  BY <1>3, <1>4, <1>5 DEF Created

\* The status the page shows depends on the page alone.
LEMMA ShowsByPage ==
  ASSUME UNCHANGED <<stream, view>> PROVE Shows' = Shows /\ HasActiveJob' = HasActiveJob
BY DEF Shows, Effective, HasActiveJob

Posted ==
  \A j \in Jobs :
    /\ post[j] \in {"unused", "sent"} => ~Created(j)
    /\ post[j] = "answered" => Created(j)

Known ==
  /\ view.runs \cup history.listed \subseteq CompletedRuns
  /\ view.job # None => Created(view.job) /\ view.touched
  /\ \A c \in Cancels :
       Asked(c) => cancel[c].job # None /\ Created(cancel[c].job) /\ view.touched

\* What the connection has still to bring stands in a history.
Reaches ==
  link.state # "none" =>
    /\ link.job # None /\ link.got <= link.cursor
    /\ link.got < link.cursor => link.cursor <= Len(log[link.job])

\* A list that the last render has asked for is for a page whose job is over.
Refreshes == history.refresh # None /\ "history" \notin due => ~HasActiveJob

PageInv == TypeOK /\ Posted /\ Known /\ Reaches /\ Refreshes

LEMMA ReachesStands ==
  ASSUME TypeOK, TypeOK', Reaches, LogsGrow, SameConnection,
         link'.cursor \in {link.cursor, link.got}
  PROVE  Reaches'
<1> SUFFICES ASSUME link'.state # "none" PROVE Reaches'
  BY DEF Reaches
<1>1. /\ link.state # "none" /\ link'.job = link.job /\ link'.got = link.got
      /\ link.job \in Jobs /\ link.job # None /\ link.got <= link.cursor
      /\ link.got < link.cursor => link.cursor <= Len(log[link.job])
  BY DEF SameConnection, Reaches, TypeOK
<1>2. PICK j \in Jobs : j = link.job
  BY <1>1
<1>3. Len(log[j]) <= Len(log'[j])
  BY GrownHistory
<1>4. link.cursor \in Nat /\ link.got \in Nat
  <2>1. link \in LinkRec
    BY TypeParts
  <2> QED
    BY <2>1 DEF LinkRec
<1>5. Len(log[j]) \in Nat /\ Len(log'[j]) \in Nat
  <2>1. log[j] \in Seq(JobEvent) /\ log'[j] \in Seq(JobEvent)
    BY DEF TypeOK
  <2> QED
    BY <2>1
<1>6. /\ link'.got <= link'.cursor
      /\ link'.got < link'.cursor => link'.cursor <= Len(log'[j])
  BY <1>1, <1>2, <1>3, <1>4, <1>5
<1> QED
  BY <1>1, <1>2, <1>6 DEF Reaches

\* A step behind the page.
LEMMA PageInvBehind ==
  ASSUME PageInv, TypeOK', LogsGrow, Posted', Reaches', UNCHANGED <<stream, view, due>>,
         \A c \in Cancels : Asked(c)' => Asked(c) /\ cancel'[c].job = cancel[c].job,
         history'.listed \subseteq CompletedRuns',
         history'.refresh \in {history.refresh, None}
  PROVE  PageInv'
<1>1. TypeOK /\ Known /\ Refreshes
  BY DEF PageInv
<1>2. \A j \in Jobs : Created(j) => Created(j)'
  BY <1>1, GrownHistory
<1>3. CompletedRuns \subseteq CompletedRuns'
  BY <1>1, GrownHistory DEF CompletedRuns
<1>4. Known'
  <2>1. view.job # None => Created(view.job)'
    <3>1. CASE view.job \in Jobs
      <4>1. PICK j \in Jobs : j = view.job
        BY <3>1
      <4> QED
        BY <1>1, <1>2, <4>1 DEF Known, Created
    <3> QED
      BY <1>1, <3>1 DEF TypeOK
  <2>2. ASSUME NEW c \in Cancels, Asked(c)'
        PROVE  cancel'[c].job # None /\ Created(cancel[c].job)' /\ view'.touched
    <3>1. /\ cancel[c].job # None /\ Created(cancel[c].job) /\ view.touched
          /\ cancel'[c].job = cancel[c].job
      BY <1>1, <2>2 DEF Known
    <3>2. PICK j \in Jobs : j = cancel[c].job
      BY <1>1, <3>1 DEF TypeOK
    <3>3. cancel'[c].job = j /\ log'[j] # <<>>
      BY <1>2, <3>1, <3>2 DEF Created
    <3> QED
      BY <3>1, <3>3 DEF Created
  <2>3. view.runs \cup history'.listed \subseteq CompletedRuns'
    BY <1>1, <1>3 DEF Known
  <2> QED
    BY <1>1, <2>1, <2>2, <2>3 DEF Known, Created
<1>5. Refreshes'
  BY <1>1, ShowsByPage DEF Refreshes
<1> QED
  BY <1>4, <1>5 DEF PageInv

\* A step of the page or of its user.
LEMMA PageInvAfter ==
  ASSUME PageInv, TypeOK', UNCHANGED log, Reaches', Refreshes',
         \A k \in Jobs : post'[k] = post[k] \/ post'[k] = "over",
         view'.runs \cup history'.listed \subseteq CompletedRuns,
         view'.job # None => Created(view'.job) /\ view'.touched,
         view.touched => view'.touched,
         \A c \in Cancels : Asked(c)' =>
           \/ Asked(c) /\ cancel'[c].job = cancel[c].job
           \/ view.job # None /\ cancel'[c].job = view.job
  PROVE  PageInv'
<1>1. Posted /\ Known
  BY DEF PageInv
<1>2. \A k : Created(k)' <=> Created(k)
  BY DEF Created
<1>3. CompletedRuns' = CompletedRuns
  BY DEF CompletedRuns
<1>4. Posted'
  BY <1>1, <1>2 DEF Posted
<1>5. Known'
  <2>1. view'.job # None => Created(view.job)'
    BY DEF Created
  <2>2. ASSUME NEW c \in Cancels, Asked(c)'
        PROVE  cancel'[c].job # None /\ Created(cancel[c].job)' /\ view'.touched
    BY <1>1, <2>2 DEF Known, Created
  <2> QED
    BY <1>3, <2>1, <2>2 DEF Known
<1> QED
  BY <1>4, <1>5 DEF PageInv

\* The list is asked for again whenever what the page shows has changed.
LEMMA UpdateRefreshes ==
  ASSUME PageInv, NEW v, NEW s, NEW b \in BOOLEAN, Update(v, s, b), v.job = view.job \/ ~b,
         history'.refresh \in {history.refresh, None}
  PROVE  Refreshes'
<1> SUFFICES ASSUME history'.refresh # None, "history" \notin due' PROVE ~HasActiveJob'
  BY DEF Refreshes
<1>1. b /\ Effective(v, s) = Shows /\ "history" \notin due /\ history.refresh # None
  BY DEF Update, Changed
<1>2. Shows' = Shows /\ view'.job = view.job
  BY <1>1 DEF Update, Shows
<1>3. ~HasActiveJob
  BY <1>1 DEF PageInv, Refreshes
<1> QED
  BY <1>2, <1>3 DEF HasActiveJob

LEMMA ProceedStands ==
  ASSUME PageInv, NEW j \in Jobs, Proceed(j) PROVE PageInv'
<1>1. TypeOK /\ Posted /\ Known /\ Reaches
  BY DEF PageInv
<1>2. /\ Created(j) /\ ~IsClosed(log[j])
      /\ UNCHANGED <<up, mute, post, cancel, link, stream, view, history, due, marks, faults>>
  BY DEF Proceed, Running, OverInMemory
<1>3. PICK e \in NextEvents(j) : log' = [log EXCEPT ![j] = Append(@, e)]
  BY DEF Proceed
<1>4. e \in JobEvent /\ log[j] \in Seq(JobEvent)
  BY <1>1, <1>2, NextEventTypes DEF TypeOK
<1>5. /\ log'[j] = Append(log[j], e) /\ \A k \in Jobs \ {j} : log'[k] = log[k]
      /\ log' \in [Jobs -> Seq(JobEvent)]
  BY <1>1, <1>3, <1>4 DEF TypeOK
<1>6. IsBeginning(log[j], log'[j]) /\ log'[j] # <<>>
  BY <1>4, <1>5, OneMore
<1>7. TypeOK'
  BY <1>1, <1>2, <1>5, TypeParts, NextTypeParts
<1>8. LogsGrow
  BY <1>2, <1>5, <1>6 DEF LogsGrow
<1>9. Posted'
  BY <1>1, <1>2, <1>5 DEF Posted, Created
<1>10. Reaches'
  BY <1>1, <1>2, <1>7, <1>8, ReachesStands DEF SameConnection
<1>11. history'.listed \subseteq CompletedRuns'
  BY <1>1, <1>2, <1>7, <1>8, GrownHistory DEF Known, CompletedRuns
<1> QED
  BY <1>2, <1>7, <1>8, <1>9, <1>10, <1>11, PageInvBehind DEF Asked

LEMMA LoseTerminalStands ==
  ASSUME PageInv, NEW j \in Jobs, LoseTerminal(j) PROVE PageInv'
<1>1. TypeOK /\ Posted /\ Known /\ Reaches
  BY DEF PageInv
<1>2. PICK e \in NextEvents(j) : e.kind = "terminal" /\ mute' = [mute EXCEPT ![j] = e.status]
  BY DEF LoseTerminal
<1>3. /\ Created(j) /\ faults < MaxFaults /\ faults' = faults + 1
      /\ UNCHANGED <<up, log, post, cancel, link, stream, view, history, due, marks>>
  BY DEF LoseTerminal, Fault, Running
<1>4. e.status \in Terminal
  BY <1>1, <1>2, <1>3, NextEventTypes DEF JobEvent
<1>5. TypeOK'
  <2>1. mute' \in [Jobs -> Terminal \cup {"none"}]
    BY <1>1, <1>2, <1>4 DEF TypeOK
  <2>2. faults' \in 0..MaxFaults
    BY <1>1, <1>3, Bounds DEF TypeOK
  <2> QED
    BY <1>1, <1>3, <2>1, <2>2, TypeParts, NextTypeParts
<1>6. LogsGrow /\ Posted' /\ Reaches'
  BY <1>1, <1>3 DEF LogsGrow, Posted, Created, Reaches
<1> QED
  BY <1>1, <1>3, <1>5, <1>6, PageInvBehind DEF Asked, Known, CompletedRuns

LEMMA CrashStands ==
  ASSUME PageInv, Crash PROVE PageInv'
<1>1. TypeOK /\ Posted /\ Known /\ Reaches
  BY DEF PageInv
<1>2. /\ up' = FALSE /\ UNCHANGED <<log, stream, view, due, marks>>
      /\ faults < MaxFaults /\ faults' = faults + 1
      /\ mute' = [j \in Jobs |-> "none"]
      /\ link' = IF link.state = "none" THEN link ELSE [link EXCEPT !.state = "failed"]
  BY DEF Crash, Fault
<1>3. /\ post' \in [Jobs -> {"unused", "sent", "answered", "over"}]
      /\ \A j \in Jobs : post'[j] = IF post[j] = "sent" THEN "over" ELSE post[j]
  BY <1>1 DEF Crash, TypeOK
<1>4. /\ cancel' \in [Cancels -> CancelRec]
      /\ \A c \in Cancels : (Asked(c)' => Asked(c)) /\ cancel'[c].job = cancel[c].job
  <2>1. cancel \in [Cancels -> CancelRec]
    BY <1>1, TypeParts
  <2>2. cancel' = [c \in Cancels |-> IF cancel[c].stage \in {"sent", "accepted"}
                     THEN [cancel[c] EXCEPT !.stage = "over"] ELSE cancel[c]]
    BY DEF Crash
  <2>3. \A c \in Cancels : cancel[c] \in CancelRec
    BY <2>1
  <2>4. \A c \in Cancels : cancel'[c] \in CancelRec
    BY <2>2, <2>3 DEF CancelRec
  <2> QED
    BY <2>2, <2>3, <2>4 DEF CancelRec, Asked
<1>5. /\ history' \in HistoryRec /\ history'.listed = history.listed
      /\ history'.refresh = None
  <2>1. history \in HistoryRec
    BY <1>1, TypeParts
  <2> QED
    BY <2>1 DEF Crash, HistoryRec
<1>6. link' \in LinkRec /\ SameConnection /\ link'.cursor = link.cursor
  <2>1. link \in LinkRec
    BY <1>1, TypeParts
  <2> QED
    BY <1>2, <2>1 DEF LinkRec, SameConnection
<1>7. TypeOK'
  <2>1. mute' \in [Jobs -> Terminal \cup {"none"}] /\ faults' \in 0..MaxFaults
    BY <1>1, <1>2, Bounds DEF TypeOK
  <2> QED
    BY <1>1, <1>2, <1>3, <1>4, <1>5, <1>6, <2>1, TypeParts, NextTypeParts
<1>8. LogsGrow /\ Posted'
  BY <1>1, <1>2, <1>3 DEF LogsGrow, Posted, Created
<1>9. Reaches'
  BY <1>1, <1>6, <1>7, <1>8, ReachesStands
<1> QED
  BY <1>1, <1>2, <1>4, <1>5, <1>7, <1>8, <1>9, PageInvBehind DEF Known, CompletedRuns

LEMMA RestartStands ==
  ASSUME PageInv, Restart PROVE PageInv'
<1>1. TypeOK /\ Posted /\ Known /\ Reaches
  BY DEF PageInv
<1>2. /\ up' = TRUE /\ log' = [j \in Jobs |-> Recovered(log[j])]
      /\ UNCHANGED <<mute, post, cancel, link, stream, view, history, due, marks, faults>>
  BY DEF Restart
<1>3. ASSUME NEW j \in Jobs
      PROVE  /\ log'[j] \in Seq(JobEvent)
             /\ log'[j] = log[j] \/ (~IsClosed(log[j]) /\ IsBeginning(log[j], log'[j]))
             /\ Created(j)' <=> Created(j)
  <2>1. log[j] \in Seq(JobEvent) /\ log'[j] = Recovered(log[j])
    BY <1>1, <1>2 DEF TypeOK
  <2>2. CASE log[j] = <<>> \/ IsClosed(log[j])
    BY <2>1, <2>2 DEF Recovered, Created
  <2>3. CASE ~(log[j] = <<>> \/ IsClosed(log[j]))
    <3> DEFINE e == TerminalEvent("failed", Candidates(log[j]), 0)
    <3>1. e \in JobEvent
      BY <2>1, <2>3, LastEvent, EventTypes DEF Terminal
    <3>2. log'[j] = Append(log[j], e)
      BY <2>1, <2>3 DEF Recovered
    <3> HIDE DEF e
    <3> QED
      BY <2>1, <2>3, <3>1, <3>2, OneMore DEF Created
  <2> QED
    BY <2>2, <2>3
<1>4. TypeOK'
  <2>1. log' \in [Jobs -> Seq(JobEvent)]
    BY <1>2, <1>3
  <2> QED
    BY <1>1, <1>2, <2>1, TypeParts, NextTypeParts
<1>5. LogsGrow /\ Posted'
  BY <1>1, <1>2, <1>3 DEF LogsGrow, Posted
<1>6. Reaches'
  BY <1>1, <1>2, <1>4, <1>5, ReachesStands DEF SameConnection
<1>7. history'.listed \subseteq CompletedRuns'
  BY <1>1, <1>2, <1>4, <1>5, GrownHistory DEF Known, CompletedRuns
<1> QED
  BY <1>2, <1>4, <1>5, <1>6, <1>7, PageInvBehind DEF Asked

LEMMA ServeCreateStands ==
  ASSUME PageInv, NEW j \in Jobs, ServeCreate(j) PROVE PageInv'
<1>1. TypeOK /\ Posted /\ Known /\ Reaches
  BY DEF PageInv
<1>2. /\ post[j] = "sent" /\ log[j] = <<>>
      /\ UNCHANGED <<up, mute, cancel, link, stream, view, history, due, marks, faults>>
  BY <1>1 DEF ServeCreate, Posted, Created
<1> DEFINE e == StatusEvent("queued", 0)
           h == <<e>>
<1>3. h \in Seq(JobEvent) /\ h # <<>>
  <2>1. e \in JobEvent
    BY EventTypes
  <2> HIDE DEF e
  <2> QED
    BY <2>1
<1>4. \/ post' = [post EXCEPT ![j] = "over"] /\ log' = log
      \/ post' = [post EXCEPT ![j] = "answered"] /\ log' = [log EXCEPT ![j] = h]
  BY DEF ServeCreate
<1>5. IsBeginning(<<>>, h)
  BY <1>3, EmptyBegins
<1> HIDE DEF h
<1>6. /\ log' \in [Jobs -> Seq(JobEvent)]
      /\ post' \in [Jobs -> {"unused", "sent", "answered", "over"}]
      /\ \A k \in Jobs \ {j} : log'[k] = log[k] /\ post'[k] = post[k]
      /\ \/ post'[j] = "over" /\ log'[j] = log[j]
         \/ post'[j] = "answered" /\ log'[j] = h
  <2>1. /\ log \in [Jobs -> Seq(JobEvent)]
        /\ post \in [Jobs -> {"unused", "sent", "answered", "over"}]
    BY <1>1 DEF TypeOK
  <2>2. CASE post' = [post EXCEPT ![j] = "over"] /\ log' = log
    BY <2>1, <2>2
  <2>3. CASE post' = [post EXCEPT ![j] = "answered"] /\ log' = [log EXCEPT ![j] = h]
    BY <1>3, <2>1, <2>3
  <2> QED
    BY <1>4, <2>2, <2>3
<1>7. TypeOK'
  BY <1>1, <1>2, <1>6, TypeParts, NextTypeParts
<1>8. LogsGrow
  BY <1>2, <1>5, <1>6 DEF LogsGrow, IsClosed
<1>9. Posted'
  BY <1>1, <1>3, <1>6 DEF Posted, Created
<1>10. Reaches'
  BY <1>1, <1>2, <1>7, <1>8, ReachesStands DEF SameConnection
<1>11. history'.listed \subseteq CompletedRuns'
  BY <1>1, <1>2, <1>7, <1>8, GrownHistory DEF Known, CompletedRuns
<1> QED
  BY <1>2, <1>7, <1>8, <1>9, <1>10, <1>11, PageInvBehind DEF Asked

LEMMA ServeCancelStands ==
  ASSUME PageInv, NEW c \in Cancels, ServeCancel(c) PROVE PageInv'
<1>1. TypeOK /\ Posted /\ Known /\ Reaches
  BY DEF PageInv
<1>2. /\ cancel[c].stage = "sent" /\ cancel' = [cancel EXCEPT ![c].stage = "accepted"]
      /\ UNCHANGED <<up, mute, post, link, stream, view, history, due, marks, faults>>
  BY DEF ServeCancel
<1>3. PICK j \in Jobs : j = cancel[c].job /\ Created(j)
  BY <1>1, <1>2 DEF Known, Asked, TypeOK
<1>4. log[j] \in Seq(JobEvent) /\ log[j] # <<>>
  BY <1>1, <1>3 DEF TypeOK, Created
<1> DEFINE e == StatusEvent("cancelling", Candidates(log[j]))
<1>5. log' = log \/ (~IsClosed(log[j]) /\ log' = [log EXCEPT ![j] = Append(@, e)])
  BY <1>3 DEF ServeCancel, OverInMemory
<1>6. e \in JobEvent
  BY <1>4, LastEvent, EventTypes
<1> HIDE DEF e
<1>7. /\ log' \in [Jobs -> Seq(JobEvent)]
      /\ \A k \in Jobs \ {j} : log'[k] = log[k]
      /\ \/ log'[j] = log[j]
         \/ /\ ~IsClosed(log[j]) /\ IsBeginning(log[j], log'[j]) /\ log'[j] # <<>>
  <2>1. /\ log \in [Jobs -> Seq(JobEvent)] /\ Append(log[j], e) \in Seq(JobEvent)
        /\ IsBeginning(log[j], Append(log[j], e)) /\ Append(log[j], e) # <<>>
    <3>1. log \in [Jobs -> Seq(JobEvent)]
      BY <1>1 DEF TypeOK
    <3> QED
      BY <1>4, <1>6, <3>1, OneMore
  <2>2. log' = log \/ (~IsClosed(log[j]) /\ log' = [log EXCEPT ![j] = Append(log[j], e)])
    BY <1>5
  <2> QED
    BY <2>1, <2>2
<1>8. /\ cancel' \in [Cancels -> CancelRec]
      /\ \A d \in Cancels : (Asked(d)' => Asked(d)) /\ cancel'[d].job = cancel[d].job
  <2>1. cancel \in [Cancels -> CancelRec]
    BY <1>1, TypeParts
  <2> QED
    BY <1>2, <2>1 DEF CancelRec, Asked
<1>9. TypeOK'
  BY <1>1, <1>2, <1>7, <1>8, TypeParts, NextTypeParts
<1>10. LogsGrow
  BY <1>7 DEF LogsGrow
<1>11. Posted'
  BY <1>1, <1>2, <1>3, <1>7 DEF Posted, Created
<1>12. Reaches'
  BY <1>1, <1>2, <1>9, <1>10, ReachesStands DEF SameConnection
<1>13. history'.listed \subseteq CompletedRuns'
  BY <1>1, <1>2, <1>9, <1>10, GrownHistory DEF Known, CompletedRuns
<1> QED
  BY <1>2, <1>8, <1>9, <1>10, <1>11, <1>12, <1>13, PageInvBehind

LEMMA AnswerCancelStands ==
  ASSUME PageInv, NEW c \in Cancels, AnswerCancel(c) PROVE PageInv'
<1>1. TypeOK /\ Posted /\ Known /\ Reaches
  BY DEF PageInv
<1>2. /\ cancel[c].stage = "accepted" /\ OverInMemory(cancel[c].job)
      /\ UNCHANGED <<up, log, mute, post, link, stream, view, history, due, marks, faults>>
      /\ cancel' = [cancel EXCEPT ![c].stage = "answered",
                                  ![c].status = MemoryStatus(cancel[c].job)]
  BY DEF AnswerCancel
<1>3. PICK j \in Jobs : j = cancel[c].job
  BY <1>1, <1>2 DEF Known, Asked, TypeOK
<1> DEFINE m == MemoryStatus(j)
<1>4. m \in Terminal
  <2>1. log[j] \in Seq(JobEvent) /\ mute[j] \in Terminal \cup {"none"}
    BY <1>1 DEF TypeOK
  <2>2. IsClosed(log[j]) => Outcome(log[j]) \in Terminal
    BY <2>1, LastEvent DEF IsClosed
  <2> QED
    BY <1>2, <1>3, <2>1, <2>2 DEF MemoryStatus, OverInMemory
<1>5. /\ cancel' \in [Cancels -> CancelRec]
      /\ \A d \in Cancels : (Asked(d)' => Asked(d)) /\ cancel'[d].job = cancel[d].job
  <2>1. cancel \in [Cancels -> CancelRec]
    BY <1>1, TypeParts
  <2>2. cancel' = [cancel EXCEPT ![c].stage = "answered", ![c].status = m]
    BY <1>2, <1>3
  <2> HIDE DEF m
  <2>3. /\ cancel' \in [Cancels -> CancelRec] /\ cancel'[c].job = cancel[c].job
        /\ cancel[c].stage = "accepted" /\ \A d \in Cancels \ {c} : cancel'[d] = cancel[d]
    <3> DEFINE r == [cancel[c] EXCEPT !.stage = "answered", !.status = m]
    <3>1. r \in CancelRec /\ r.job = cancel[c].job
      BY <1>4, <2>1 DEF CancelRec
    <3>2. cancel' = [cancel EXCEPT ![c] = r]
      BY <2>1, <2>2
    <3> HIDE DEF r
    <3> QED
      BY <1>2, <2>1, <3>1, <3>2
  <2> QED
    BY <2>3 DEF Asked
<1>6. TypeOK'
  BY <1>1, <1>2, <1>5, TypeParts, NextTypeParts
<1>7. LogsGrow /\ Posted' /\ Reaches'
  BY <1>1, <1>2 DEF LogsGrow, Posted, Created, Reaches
<1> QED
  BY <1>1, <1>2, <1>5, <1>6, <1>7, PageInvBehind DEF Known, CompletedRuns

LEMMA ServeFirstListingStands ==
  ASSUME PageInv, ServeFirstListing PROVE PageInv'
<1>1. TypeOK /\ Posted /\ Known /\ Reaches
  BY DEF PageInv
<1>2. /\ history' = IF ListingFails THEN [history EXCEPT !.first = "over"]
                    ELSE [history EXCEPT !.first = "answered", !.listed = CompletedRuns]
      /\ UNCHANGED <<up, log, mute, post, cancel, link, stream, view, due, marks, faults>>
  BY DEF ServeFirstListing
<1>3. /\ history' \in HistoryRec /\ history'.listed \subseteq CompletedRuns
      /\ history'.refresh = history.refresh
  <2>1. history \in HistoryRec /\ CompletedRuns \in SUBSET Jobs
    BY <1>1, TypeParts DEF CompletedRuns
  <2> QED
    BY <1>1, <1>2, <2>1 DEF HistoryRec, Known
<1>4. TypeOK'
  BY <1>1, <1>2, <1>3, TypeParts, NextTypeParts
<1>5. LogsGrow /\ Posted' /\ Reaches'
  BY <1>1, <1>2 DEF LogsGrow, Posted, Created, Reaches
<1>6. history'.listed \subseteq CompletedRuns'
  BY <1>2, <1>3 DEF CompletedRuns
<1> QED
  BY <1>2, <1>3, <1>4, <1>5, <1>6, PageInvBehind DEF Asked

LEMMA ConnectionStands ==
  ASSUME PageInv, Connection PROVE PageInv'
<1>1. TypeOK /\ Posted /\ Known /\ Reaches
  BY DEF PageInv
<1>2. UNCHANGED <<up, log, mute, post, cancel, stream, view, history, due, marks>>
  BY DEF Connection, AcceptStream, SendEvent, EndStream, Drop
<1>3. link.state # "none" /\ link \in LinkRec /\ link.job \in Jobs
  BY <1>1, TypeParts DEF Connection, AcceptStream, SendEvent, EndStream, Drop, Reaches, TypeOK
<1>4. faults' \in 0..MaxFaults
  BY <1>1, Bounds DEF Connection, AcceptStream, SendEvent, EndStream, Drop, Fault, TypeOK
<1>5. /\ link' \in LinkRec /\ link'.state # "none"
      /\ link'.job = link.job /\ link'.got = link.got
      /\ link'.cursor \in {link.cursor, link.got} \/ (link'.cursor = link.cursor + 1 /\ MoreToSend)
  <2>1. CASE AcceptStream
    BY <1>3, <2>1 DEF AcceptStream, LinkRec
  <2>2. CASE SendEvent
    <3>1. PICK s \in {"ended", "open"} :
            link' = [link EXCEPT !.cursor = link.cursor + 1, !.state = s]
      BY <2>2 DEF SendEvent
    <3>2. MoreToSend
      BY <2>2 DEF SendEvent
    <3>3. link.cursor + 1 \in Nat
      BY <1>3 DEF LinkRec
    <3> QED
      BY <1>3, <3>1, <3>2, <3>3 DEF LinkRec
  <2>3. CASE EndStream
    BY <1>3, <2>3 DEF EndStream, LinkRec
  <2>4. CASE Drop
    BY <1>3, <2>4 DEF Drop, LinkRec
  <2> QED
    BY <2>1, <2>2, <2>3, <2>4 DEF Connection
<1>6. TypeOK'
  BY <1>1, <1>2, <1>4, <1>5, TypeParts, NextTypeParts
<1>7. LogsGrow /\ Posted' /\ SameConnection
  BY <1>1, <1>2, <1>3, <1>5 DEF LogsGrow, Posted, Created, SameConnection
<1>8. Reaches'
  <2>1. CASE link'.cursor \in {link.cursor, link.got}
    BY <1>1, <1>6, <1>7, <2>1, ReachesStands
  <2>2. CASE link'.cursor = link.cursor + 1 /\ MoreToSend
    <3>1. link.cursor \in Nat /\ link.got \in Nat /\ Len(log[link.job]) \in Nat
      <4>1. log[link.job] \in Seq(JobEvent)
        BY <1>1, <1>3 DEF TypeOK
      <4> QED
        BY <1>3, <4>1 DEF LinkRec
    <3>2. link'.got <= link'.cursor /\ link'.cursor <= Len(log[link.job])
      BY <1>1, <1>3, <1>5, <2>2, <3>1 DEF MoreToSend, Reaches
    <3> QED
      BY <1>1, <1>2, <1>3, <1>5, <3>2 DEF Reaches
  <2> QED
    BY <1>5, <2>1, <2>2
<1> QED
  BY <1>1, <1>2, <1>6, <1>7, <1>8, PageInvBehind DEF Asked, Known, CompletedRuns

LEMMA NotedTypes ==
  ASSUME TypeOK, NEW early \in BOOLEAN, Noted(early), overtaken' = overtaken
  PROVE  faults' \in 0..MaxFaults /\ marks' \in BOOLEAN \X SUBSET Jobs
<1>1. overtaken' \in SUBSET Jobs /\ hasty \in BOOLEAN /\ faults \in 0..MaxFaults
  BY DEF TypeOK
<1>2. MaxFaults \in Nat
  BY Bounds
<1>3. CASE early
  <2>1. faults < MaxFaults /\ faults' = faults + 1 /\ hasty' = TRUE
    BY <1>3 DEF Noted, Fault
  <2>2. faults' \in 0..MaxFaults
    BY <1>1, <1>2, <2>1
  <2>3. hasty' \in BOOLEAN
    BY <2>1
  <2> QED
    BY <1>1, <2>2, <2>3 DEF marks
<1>4. CASE ~early
  <2>1. faults' = faults /\ hasty' = hasty
    BY <1>4 DEF Noted
  <2> QED
    BY <1>1, <2>1 DEF marks
<1> QED
  BY <1>3, <1>4

LEMMA SubmitStands ==
  ASSUME PageInv, NEW j \in Jobs, Submit(j) PROVE PageInv'
<1>1. TypeOK /\ Posted /\ Known /\ Reaches
  BY DEF PageInv
<1>2. /\ post[j] = "unused" /\ post' = [post EXCEPT ![j] = Sent]
      /\ UNCHANGED <<up, log, mute, cancel, link, stream, view, history, due, overtaken>>
  BY DEF Submit
<1>3. /\ post' \in [Jobs -> {"unused", "sent", "answered", "over"}]
      /\ post'[j] \in {"sent", "over"} /\ \A k \in Jobs \ {j} : post'[k] = post[k]
  BY <1>1, <1>2 DEF TypeOK, Sent
<1>4. faults' \in 0..MaxFaults /\ marks' \in BOOLEAN \X SUBSET Jobs
  BY <1>1, <1>2, NotedTypes DEF Submit
<1>5. TypeOK'
  BY <1>1, <1>2, <1>3, <1>4, TypeParts, NextTypeParts
<1>6. LogsGrow /\ Posted' /\ Reaches'
  BY <1>1, <1>2, <1>3 DEF LogsGrow, Posted, Created, Reaches
<1> QED
  BY <1>1, <1>2, <1>5, <1>6, PageInvBehind DEF Asked, Known, CompletedRuns

LEMMA CreateAnsweredStands ==
  ASSUME PageInv, NEW j \in Jobs, CreateAnswered(j) PROVE PageInv'
<1>1. TypeOK /\ Posted /\ Known /\ Reaches
  BY DEF PageInv
<1> DEFINE r == Reset(j, "queued")
           v == [r EXCEPT !.selected = None, !.fetched = None]
<1>2. /\ post[j] = "answered" /\ post' = [post EXCEPT ![j] = "over"]
      /\ Update(v, Initial, FALSE)
      /\ UNCHANGED <<up, log, mute, cancel, link, history, faults>>
  BY DEF CreateAnswered
<1>3. v \in ViewRec /\ v.job = j /\ v.runs = view.runs /\ v.touched
  <2>1. "queued" \in JobStatus /\ view \in ViewRec
    BY <1>1, TypeParts DEF JobStatus
  <2>2. r \in ViewRec /\ r.job = j /\ r.runs = view.runs /\ r.touched
    BY <2>1, ResetTypes DEF Reset, ViewRec
  <2> HIDE DEF r
  <2> QED
    BY <2>2 DEF ViewRec
<1> HIDE DEF v
<1>4. Initial \in StreamRec
  BY <1>1, TypeParts, ReducerTypes
<1>5. view' = v /\ view' \in ViewRec /\ stream' \in StreamRec /\ due' \subseteq {"stream", "history"}
  BY <1>1, <1>2, <1>3, <1>4, UpdateTypes DEF Update
<1>6. /\ post' \in [Jobs -> {"unused", "sent", "answered", "over"}]
      /\ \A k \in Jobs : post'[k] = post[k] \/ post'[k] = "over"
  BY <1>1, <1>2 DEF TypeOK
<1>7. marks' \in BOOLEAN \X SUBSET Jobs
  BY <1>1 DEF CreateAnswered, TypeOK, marks
<1>8. TypeOK'
  BY <1>1, <1>2, <1>5, <1>6, <1>7, TypeParts, NextTypeParts
<1>9. Refreshes'
  BY <1>2, UpdateRefreshes
<1>10. Reaches'
  BY <1>1, <1>2 DEF Reaches
<1>11. Created(j)
  BY <1>1, <1>2 DEF Posted
<1> QED
  BY <1>1, <1>2, <1>3, <1>5, <1>6, <1>8, <1>9, <1>10, <1>11, PageInvAfter DEF Asked, Known

LEMMA ClickCancelStands ==
  ASSUME PageInv, NEW c \in Cancels, ClickCancel(c) PROVE PageInv'
<1>1. TypeOK /\ Posted /\ Known /\ Reaches
  BY DEF PageInv
<1> DEFINE r == [stage |-> Sent, job |-> view.job, status |-> "none"]
<1>2. /\ view.job # None /\ cancel' = [cancel EXCEPT ![c] = r]
      /\ Update(view, CancelRequested(stream), TRUE)
      /\ UNCHANGED <<up, log, mute, post, link, history, marks, faults>>
  BY DEF ClickCancel, HasActiveJob
<1>3. view \in ViewRec /\ stream \in StreamRec /\ cancel \in [Cancels -> CancelRec]
  BY <1>1, TypeParts
<1>4. view' = view /\ view' \in ViewRec /\ stream' \in StreamRec /\ due' \subseteq {"stream", "history"}
  BY <1>1, <1>2, <1>3, ReducerTypes, UpdateTypes DEF Update
<1>5. /\ cancel' \in [Cancels -> CancelRec] /\ \A d \in Cancels \ {c} : cancel'[d] = cancel[d]
      /\ cancel'[c].job = view.job
  <2>1. r \in CancelRec /\ r.job = view.job
    BY <1>3 DEF CancelRec, ViewRec, Sent
  <2> HIDE DEF r
  <2> QED
    BY <1>2, <1>3, <2>1
<1>6. TypeOK'
  BY <1>1, <1>2, <1>4, <1>5, TypeParts, NextTypeParts
<1>7. Refreshes'
  BY <1>2, UpdateRefreshes
<1>8. Reaches'
  BY <1>1, <1>2 DEF Reaches
<1>9. \A d \in Cancels : Asked(d)' =>
        \/ Asked(d) /\ cancel'[d].job = cancel[d].job
        \/ view.job # None /\ cancel'[d].job = view.job
  BY <1>2, <1>5 DEF Asked
<1> QED
  BY <1>1, <1>2, <1>4, <1>6, <1>7, <1>8, <1>9, PageInvAfter DEF Known

LEMMA CancelAnsweredStands ==
  ASSUME PageInv, NEW c \in Cancels, CancelAnswered(c) PROVE PageInv'
<1>1. TypeOK /\ Posted /\ Known /\ Reaches
  BY DEF PageInv
<1>2. cancel[c].stage = "answered" /\ cancel' = [cancel EXCEPT ![c].stage = "over"]
      /\ UNCHANGED <<up, log, mute, post, link, history, marks, faults>>
  BY DEF CancelAnswered
<1>3. PICK j \in Jobs, s \in JobStatus \cup {"none"} : j = cancel[c].job /\ s = cancel[c].status
  BY <1>1, <1>2, EventTypes DEF Known, Asked, TypeOK
<1> DEFINE v == [view EXCEPT !.job = j, !.answer = s]
<1>4. Update(v, stream, FALSE)
  BY <1>3 DEF CancelAnswered
<1>5. view \in ViewRec /\ stream \in StreamRec /\ cancel \in [Cancels -> CancelRec]
  BY <1>1, TypeParts
<1>6. v \in ViewRec /\ v.job = j /\ v.runs = view.runs /\ v.touched = view.touched
  BY <1>5 DEF ViewRec
<1> HIDE DEF v
<1>7. view' = v /\ view' \in ViewRec /\ stream' \in StreamRec /\ due' \subseteq {"stream", "history"}
  BY <1>1, <1>4, <1>5, <1>6, UpdateTypes DEF Update
<1>8. /\ cancel' \in [Cancels -> CancelRec]
      /\ \A d \in Cancels : (Asked(d)' => Asked(d)) /\ cancel'[d].job = cancel[d].job
  BY <1>2, <1>5 DEF CancelRec, Asked
<1>9. TypeOK'
  BY <1>1, <1>2, <1>7, <1>8, TypeParts, NextTypeParts
<1>10. Refreshes'
  BY <1>2, <1>4, UpdateRefreshes
<1>11. Reaches'
  BY <1>1, <1>2 DEF Reaches
<1>12. Created(j) /\ view.touched
  BY <1>1, <1>2, <1>3 DEF Known, Asked
<1> QED
  BY <1>1, <1>2, <1>6, <1>7, <1>8, <1>9, <1>10, <1>11, <1>12, PageInvAfter DEF Known

\* Whatever run is selected is completed.
LEMMA SelectStands ==
  ASSUME PageInv, NEW runs \in SUBSET CompletedRuns, NEW j \in CompletedRuns, Select(j, runs),
         history' \in HistoryRec, history'.listed \subseteq history.listed,
         history'.refresh \in {history.refresh, None},
         faults' \in 0..MaxFaults, marks' \in BOOLEAN \X SUBSET Jobs,
         UNCHANGED <<up, log, mute, post, cancel, link>>
  PROVE  PageInv'
<1>1. TypeOK /\ Known /\ Reaches
  BY DEF PageInv
<1>2. j \in Jobs /\ runs \in SUBSET Jobs /\ Created(j)
  BY DEF CompletedRuns, IsClosed, Created
<1>3. view' \in ViewRec /\ stream' \in StreamRec /\ due' \subseteq {"stream", "history"}
  BY <1>1, <1>2, SelectTypes
<1> DEFINE v == [Reset(j, "completed") EXCEPT !.selected = j, !.runs = runs]
<1>4. Update(v, Initial, FALSE)
  BY DEF Select
<1>5. view' = v /\ v.job = j /\ v.runs = runs /\ v.touched
  <2>1. view \in ViewRec
    BY <1>1, TypeParts
  <2> QED
    BY <1>4, <2>1 DEF Update, Reset, ViewRec
<1> HIDE DEF v
<1>6. TypeOK'
  BY <1>1, <1>3, TypeParts, NextTypeParts
<1>7. Refreshes'
  BY <1>4, UpdateRefreshes
<1>8. Reaches'
  BY <1>1 DEF Reaches
<1> QED
  BY <1>1, <1>2, <1>5, <1>6, <1>7, <1>8, PageInvAfter DEF Asked, Known

\* Steps that change neither the job nor the status the page shows.
LEMMA QuietStands ==
  ASSUME PageInv, UNCHANGED <<up, log, mute, post, cancel, marks, faults>>,
         link' \in LinkRec, view' \in ViewRec, stream' \in StreamRec, history' \in HistoryRec,
         due' \subseteq {"stream", "history"},
         view'.job = view.job, view'.answer = view.answer, view'.touched = view.touched,
         stream'.status = stream.status,
         view'.runs \cup history'.listed \subseteq CompletedRuns, Reaches',
         history'.refresh # None /\ "history" \notin due' =>
           ~HasActiveJob \/ (history'.refresh = history.refresh /\ "history" \notin due)
  PROVE  PageInv'
<1>1. TypeOK /\ Known /\ Refreshes
  BY DEF PageInv
<1>2. TypeOK'
  BY <1>1, TypeParts, NextTypeParts
<1>3. HasActiveJob' = HasActiveJob
  BY DEF HasActiveJob, Shows, Effective
<1>4. Refreshes'
  BY <1>1, <1>3 DEF Refreshes
<1> QED
  BY <1>1, <1>2, <1>4, PageInvAfter DEF Asked, Known

LEMMA StreamOverStands ==
  ASSUME PageInv, StreamOver PROVE PageInv'
<1>1. TypeOK /\ Known
  BY DEF PageInv
<1>2. link' = NoLink /\ UNCHANGED <<up, log, mute, post, cancel, history, due, marks, faults>>
  BY DEF StreamOver
<1>3. view \in ViewRec /\ stream \in StreamRec /\ history \in HistoryRec
  BY <1>1, TypeParts
<1>4. /\ view' \in ViewRec /\ stream' \in StreamRec /\ stream'.status = stream.status
      /\ view'.job = view.job /\ view'.answer = view.answer
      /\ view'.touched = view.touched /\ view'.runs = view.runs
  <2>1. CASE UNCHANGED <<stream, view>>
    BY <1>3, <2>1
  <2>2. CASE stream' = Disconnected(stream) /\ view' = [view EXCEPT !.timer = TRUE]
    BY <1>3, <2>2 DEF Disconnected, ViewRec, StreamRec
  <2> QED
    BY <2>1, <2>2 DEF StreamOver
<1>5. link' \in LinkRec /\ Reaches'
  BY <1>2 DEF NoLink, LinkRec, Reaches
<1> QED
  BY <1>1, <1>2, <1>3, <1>4, <1>5, QuietStands DEF TypeOK, Known

LEMMA ReconnectStands ==
  ASSUME PageInv, Reconnect PROVE PageInv'
<1>1. TypeOK /\ Known /\ Reaches
  BY DEF PageInv
<1>2. /\ UNCHANGED <<up, log, mute, post, cancel, link, stream, history, marks, faults>>
      /\ view' = [view EXCEPT !.timer = FALSE, !.retried = TRUE]
      /\ due' = due \cup {"stream"}
  BY DEF Reconnect
<1>3. /\ view \in ViewRec /\ stream \in StreamRec /\ history \in HistoryRec /\ link \in LinkRec
      /\ due \subseteq {"stream", "history"}
  BY <1>1, TypeParts
<1>4. /\ view' \in ViewRec /\ view'.job = view.job /\ view'.answer = view.answer
      /\ view'.touched = view.touched /\ view'.runs = view.runs
  BY <1>2, <1>3 DEF ViewRec
<1>5. Reaches'
  BY <1>1, <1>2 DEF Reaches
<1> QED
  BY <1>1, <1>2, <1>3, <1>4, <1>5, QuietStands DEF Known

\* A list that selects nothing.
LEMMA ListingStands ==
  ASSUME PageInv, NEW runs \in SUBSET CompletedRuns,
         UNCHANGED <<up, log, mute, post, cancel, link, stream, due, marks, faults>>,
         view' = [view EXCEPT !.runs = runs],
         history' \in HistoryRec, history'.listed \subseteq history.listed,
         history'.refresh \in {history.refresh, None}
  PROVE  PageInv'
<1>1. TypeOK /\ Known /\ Reaches
  BY DEF PageInv
<1>2. /\ view \in ViewRec /\ stream \in StreamRec /\ link \in LinkRec
      /\ due \subseteq {"stream", "history"} /\ runs \in SUBSET Jobs
  BY <1>1, TypeParts DEF CompletedRuns
<1>3. /\ view' \in ViewRec /\ view'.job = view.job /\ view'.answer = view.answer
      /\ view'.touched = view.touched /\ view'.runs = runs
  BY <1>2 DEF ViewRec
<1>4. Reaches'
  BY <1>1 DEF Reaches
<1> QED
  BY <1>1, <1>2, <1>3, <1>4, QuietStands DEF Known

LEMMA TakeEventStands ==
  ASSUME PageInv, TakeEvent PROVE PageInv'
<1>1. TypeOK /\ Known /\ Reaches
  BY DEF PageInv
<1> DEFINE n == link.got + 1
           e == log[link.job][n]
           t == (e.kind = "terminal")
           v == [view EXCEPT !.ref = n]
<1>2. /\ link.state # "none" /\ link.got < link.cursor
      /\ link' = [link EXCEPT !.got = n, !.ended = t]
      /\ Update(v, Reduce(stream, n, e), TRUE)
      /\ UNCHANGED <<up, log, mute, post, cancel, history, marks, faults>>
  BY DEF TakeEvent
<1>3. link \in LinkRec /\ view \in ViewRec /\ stream \in StreamRec
  BY <1>1, TypeParts
<1>4. PICK j \in Jobs : j = link.job
  BY <1>1, <1>2 DEF Reaches, TypeOK
<1>5. /\ link.got \in Nat /\ link.cursor \in Nat /\ log[j] \in Seq(JobEvent)
      /\ link.cursor <= Len(log[j])
  BY <1>1, <1>2, <1>3, <1>4 DEF LinkRec, TypeOK, Reaches
<1>6. n \in Nat /\ n \in 1..Len(log[j]) /\ n <= link.cursor
  <2>1. Len(log[j]) \in Nat
    BY <1>5
  <2> QED
    BY <1>2, <1>5, <2>1
<1>7. e \in JobEvent /\ t \in BOOLEAN
  <2>1. log[j][n] \in JobEvent
    BY <1>5, <1>6
  <2> QED
    BY <1>4, <2>1
<1> HIDE DEF n, e, t
<1>8. v \in ViewRec /\ v.job = view.job /\ v.runs = view.runs /\ v.touched = view.touched
  BY <1>3, <1>6 DEF ViewRec
<1> HIDE DEF v
<1>9. /\ view' = v /\ view' \in ViewRec /\ stream' \in StreamRec
      /\ due' \subseteq {"stream", "history"}
  BY <1>1, <1>2, <1>3, <1>6, <1>7, <1>8, ReducerTypes, UpdateTypes DEF Update
<1>10. /\ link' \in LinkRec /\ link'.state = link.state /\ link'.job = link.job
       /\ link'.got = n /\ link'.cursor = link.cursor
  BY <1>2, <1>3, <1>6, <1>7 DEF LinkRec
<1>11. TypeOK'
  BY <1>1, <1>2, <1>9, <1>10, TypeParts, NextTypeParts
<1>12. Refreshes'
  BY <1>2, <1>8, UpdateRefreshes
<1>13. Reaches'
  BY <1>1, <1>2, <1>4, <1>5, <1>6, <1>10 DEF Reaches
<1> QED
  BY <1>1, <1>2, <1>8, <1>9, <1>11, <1>12, <1>13, PageInvAfter DEF Asked, Known

LEMMA RunEffectsStands ==
  ASSUME PageInv, RunEffects PROVE PageInv'
<1>1. TypeOK /\ Known /\ Reaches
  BY DEF PageInv
<1>2. /\ due' = {} /\ UNCHANGED <<up, log, mute, post, cancel, marks, faults>>
      /\ IF "stream" \in due THEN Follow ELSE UNCHANGED <<link, stream>>
  BY DEF RunEffects
<1>3. link \in LinkRec /\ view \in ViewRec /\ stream \in StreamRec /\ history \in HistoryRec
  BY <1>1, TypeParts
<1>4. /\ view' \in ViewRec /\ view'.runs = view.runs /\ view'.job = view.job
      /\ view'.answer = view.answer /\ view'.touched = view.touched
  <2> DEFINE t == view.timer /\ "stream" \notin due
             f == IF WantsRefresh THEN view.job ELSE view.fetched
  <2>1. view' = [view EXCEPT !.timer = t, !.fetched = f]
    BY DEF RunEffects
  <2>2. t \in BOOLEAN /\ f \in Jobs \cup {None}
    BY <1>3 DEF ViewRec
  <2> HIDE DEF t, f
  <2> QED
    BY <1>3, <2>1, <2>2 DEF ViewRec
<1> DEFINE r == IF WantsRefresh /\ up THEN view.job
                ELSE IF "history" \in due THEN None ELSE history.refresh
<1>5. history' \in HistoryRec /\ history'.listed = history.listed /\ history'.refresh = r
  <2>1. history' = [history EXCEPT !.refresh = r]
    BY DEF RunEffects
  <2>2. r \in Jobs \cup {None}
    BY <1>3 DEF ViewRec, HistoryRec
  <2> HIDE DEF r
  <2> QED
    BY <1>3, <2>1, <2>2 DEF HistoryRec
<1>6. stream' \in StreamRec /\ stream'.status = stream.status
  BY <1>2, <1>3 DEF Follow, Connected, StreamRec
<1>7. \/ link' = link
      \/ link' = NoLink
      \/ /\ view.job # None
         /\ link' = [NoLink EXCEPT !.state = "opening", !.job = view.job,
                                   !.cursor = view.ref, !.got = view.ref]
  BY <1>2 DEF Follow
<1>8. link' \in LinkRec /\ Reaches'
  <2>1. CASE link' = link
    BY <1>1, <1>2, <1>3, <2>1 DEF Reaches
  <2>2. CASE link' = NoLink
    BY <2>2 DEF NoLink, LinkRec, Reaches
  <2>3. CASE /\ view.job # None
             /\ link' = [NoLink EXCEPT !.state = "opening", !.job = view.job,
                                       !.cursor = view.ref, !.got = view.ref]
    <3>1. view.job \in Jobs /\ view.ref \in Nat
      BY <1>3, <2>3 DEF ViewRec
    <3>2. link' = [state |-> "opening", job |-> view.job, cursor |-> view.ref,
                   got |-> view.ref, ended |-> FALSE]
      BY <2>3 DEF NoLink
    <3> QED
      <4>1. link' \in LinkRec
        BY <3>1, <3>2 DEF LinkRec
      <4>2. /\ link'.job = view.job /\ link'.cursor = view.ref /\ link'.got = view.ref
        BY <3>2
      <4> QED
        BY <2>3, <3>1, <4>1, <4>2 DEF Reaches
  <2> QED
    BY <1>7, <2>1, <2>2, <2>3
<1>9. r # None => ~HasActiveJob \/ (r = history.refresh /\ "history" \notin due)
  BY DEF WantsRefresh, HasActiveJob, Terminal
<1> HIDE DEF r
<1> QED
  BY <1>1, <1>2, <1>4, <1>5, <1>6, <1>8, <1>9, QuietStands DEF Known

LEMMA OpenRunStands ==
  ASSUME PageInv, NEW j \in Jobs, OpenRun(j) PROVE PageInv'
<1>1. TypeOK /\ Known
  BY DEF PageInv
<1>2. /\ j \in view.runs /\ Select(j, view.runs) /\ Noted(due # {})
      /\ UNCHANGED <<up, log, mute, post, cancel, link, history, overtaken>>
  BY DEF OpenRun
<1>3. view.runs \in SUBSET CompletedRuns /\ history \in HistoryRec
  BY <1>1, TypeParts DEF Known
<1>4. faults' \in 0..MaxFaults /\ marks' \in BOOLEAN \X SUBSET Jobs
  BY <1>1, <1>2, NotedTypes
<1> QED
  BY <1>2, <1>3, <1>4, SelectStands

LEMMA RefreshAnsweredStands ==
  ASSUME PageInv, RefreshAnswered PROVE PageInv'
<1>1. /\ TypeOK /\ Known /\ history' = [history EXCEPT !.refresh = None]
      /\ UNCHANGED <<up, log, mute, post, cancel, link, marks, faults>>
  BY DEF PageInv, RefreshAnswered
<1>2. history' \in HistoryRec /\ history'.listed = history.listed /\ history'.refresh = None
  BY <1>1, TypeParts DEF HistoryRec
<1>3. CASE Select(history.refresh, CompletedRuns) /\ history.refresh \in CompletedRuns
  BY <1>1, <1>2, <1>3, TypeParts, SelectStands
<1>4. CASE /\ view' = [view EXCEPT !.runs = IF ListingFails THEN @ ELSE CompletedRuns]
           /\ UNCHANGED <<stream, due>>
  <2>1. PICK runs \in SUBSET CompletedRuns : view' = [view EXCEPT !.runs = runs]
    BY <1>1, <1>4 DEF Known
  <2> QED
    BY <1>1, <1>2, <1>4, <2>1, ListingStands
<1> QED
  BY <1>3, <1>4 DEF RefreshAnswered

LEMMA FirstListingAnsweredStands ==
  ASSUME PageInv, FirstListingAnswered PROVE PageInv'
<1>1. /\ TypeOK /\ Known /\ history' = [history EXCEPT !.first = "over", !.listed = {}]
      /\ UNCHANGED <<up, log, mute, post, cancel, link, marks, faults>>
  BY DEF PageInv, FirstListingAnswered
<1>2. history' \in HistoryRec /\ history'.listed = {} /\ history'.refresh = history.refresh
  BY <1>1, TypeParts DEF HistoryRec
<1>3. history.listed \in SUBSET CompletedRuns
  BY <1>1 DEF Known
<1>4. CASE \E j \in Newest(history.listed) : Select(j, history.listed)
  <2>1. PICK j \in Newest(history.listed) : Select(j, history.listed)
    BY <1>4
  <2>2. j \in CompletedRuns
    BY <1>3 DEF Newest
  <2> QED
    BY <1>1, <1>2, <1>3, <2>1, <2>2, TypeParts, SelectStands
<1>5. CASE view' = [view EXCEPT !.runs = history.listed] /\ UNCHANGED <<stream, due>>
  BY <1>1, <1>2, <1>3, <1>5, ListingStands
<1> QED
  BY <1>4, <1>5 DEF FirstListingAnswered

LEMMA PageInvStep ==
  ASSUME PageInv, [Next]_vars PROVE PageInv'
<1>1. CASE Service
  BY <1>1, ProceedStands, LoseTerminalStands, ServeCreateStands, ServeCancelStands,
     AnswerCancelStands, CrashStands, RestartStands, ServeFirstListingStands DEF Service
<1>2. CASE Connection
  BY <1>2, ConnectionStands
<1>3. CASE Browser
  BY <1>3, SubmitStands, CreateAnsweredStands, OpenRunStands, ClickCancelStands,
     CancelAnsweredStands, TakeEventStands, StreamOverStands, ReconnectStands, RunEffectsStands,
     RefreshAnsweredStands, FirstListingAnsweredStands DEF Browser
<1>4. CASE UNCHANGED vars
  <2>1. UNCHANGED <<up, log, mute, post, cancel, link, stream, view, history, due, marks, faults>>
    BY <1>4 DEF vars
  <2>2. /\ TypeOK /\ Known /\ view = [view EXCEPT !.runs = view.runs] /\ history \in HistoryRec
    BY TypeParts DEF PageInv, ViewRec
  <2> QED
    BY <2>1, <2>2, ListingStands DEF Known
<1> QED
  BY <1>1, <1>2, <1>3, <1>4 DEF Next

-----------------------------------------------------------------------------
(***************************************************************************)
(* Steps that leave the page alone: the service, the network, a submit.    *)
(***************************************************************************)
LEMMA DrainedStays ==
  ASSUME StreamInv, TypeOK', LogsGrow, SameConnection, Drained PROVE Drained'
<1> SUFFICES ASSUME link'.state # "none"
             PROVE  IsClosed(log'[link'.job]) /\ link'.got = Len(log'[link'.job])
  BY DEF Drained
<1>1. link.state # "none" /\ link.job \in Jobs /\ link'.job = link.job /\ link'.got = link.got
  BY DEF SameConnection, StreamInv, Delivers, TypeOK
<1>2. log'[link.job] = log[link.job]
  BY <1>1, GrownHistory DEF StreamInv, Drained
<1> QED
  BY <1>1, <1>2 DEF Drained

\* A step behind the page: neither the page nor what it waits for is disturbed.
Behind ==
  /\ UNCHANGED <<stream, view, due>> /\ LogsGrow /\ SameConnection
  /\ \A j \in Jobs :
       /\ post[j] = "over" => post'[j] = "over"
       /\ Pending(j)' => Pending(j) \/ (~HasActiveJob /\ Drained)
  /\ \A c \in Cancels :
       /\ Asked(c)' => Asked(c) /\ cancel'[c].job = cancel[c].job
       /\ cancel[c].stage = "over" => cancel'[c] = cancel[c]
  /\ history'.refresh \in {history.refresh, None}

LEMMA PageStands ==
  ASSUME StreamInv, TypeOK', Behind
  PROVE  Continues' /\ Page' /\ Pauses' /\ Contiguous' /\ OneJob'
<1> USE DEF Behind
<1>1. /\ TypeOK /\ Continues /\ Page /\ Pauses /\ Contiguous /\ OneJob
      /\ Delivers
  BY DEF StreamInv
<1>3. \A j : Displaced(j) => Displaced(j)'
  BY DEF Displaced
<1>4. Drained => Drained'
  BY DrainedStays
<1>5. \A j \in Jobs : IsBeginning(stream.shown, log[j]) => IsBeginning(stream.shown, log'[j])
  BY <1>1, GrownHistory, BeginningsGrow DEF TypeOK
<1>6. Shows' = Shows /\ HasActiveJob' = HasActiveJob
  BY ShowsByPage
<1>7. Continues'
  <2> SUFFICES ASSUME ~Drained' PROVE Continues'
    BY DEF Continues
  <2>1. ~Drained
    BY <1>4
  <2>2. link.job \in Jobs /\ link'.job = link.job /\ link'.got = link.got
    BY <1>1, <2>1 DEF SameConnection, Drained, Delivers, TypeOK
  <2>3. /\ view.ref = link.got /\ IsBeginning(stream.shown, log[link.job])
        /\ link.job = view.job \/ Displaced(view.job)
        /\ stream.status = "idle" => NeverCancelled(link.job)
        /\ "stream" \notin due =>
             link.job = view.job /\ (view.answer \in Terminal => stream.status # "idle")
    BY <1>1, <2>1 DEF Continues
  <2>4. IsBeginning(stream.shown, log'[link.job])
    BY <1>5, <2>2, <2>3
  <2>5. Displaced(view.job) => Displaced(view.job)'
    BY DEF Displaced
  <2>6. NeverCancelled(link.job) => NeverCancelled(link.job)'
    BY <2>2 DEF NeverCancelled
  <2> QED
    BY <2>2, <2>3, <2>4, <2>5, <2>6 DEF Continues
<1>8. Page'
  <2>1. CASE view.job = None
    BY <1>1, <2>1 DEF Page, SameConnection
  <2>2. CASE view.job # None
    <3>1. view.job \in Jobs
      BY <1>1, <2>2 DEF TypeOK
    <3>2. Created(view.job)' /\ (post'[view.job] = "over" \/ FoundEarly')
      <4>1. PICK j \in Jobs : j = view.job
        BY <3>1
      <4>2. Created(j) /\ (post[j] = "over" \/ FoundEarly)
        BY <1>1, <2>2, <4>1 DEF Page
      <4>3. log'[j] # <<>> /\ (IsClosed(log[j]) => log'[j] = log[j])
        BY <1>1, <4>2, GrownHistory DEF Created
      <4>4. FoundEarly => FoundEarly'
        BY <4>1, <4>3 DEF FoundEarly, CompletedRuns
      <4> QED
        BY <4>1, <4>2, <4>3, <4>4 DEF Created
    <3>3. NeverCancelled(view.job) => NeverCancelled(view.job)'
      BY DEF NeverCancelled
    <3> QED
      BY <1>1, <2>2, <3>2, <3>3 DEF Page
  <2> QED
    BY <2>1, <2>2
<1>9. Pauses'
  BY <1>1, <1>4, <1>6 DEF Pauses
<1>10. Contiguous'
  BY <1>1, <1>5 DEF Contiguous
<1>11. OneJob'
  <2> SUFFICES ASSUME view.job # None, ~Displaced(view.job)'
               PROVE  /\ IsBeginning(stream.shown, log'[view.job])
                      /\ Shows \in Terminal =>
                           IsClosed(log'[view.job]) /\ Outcome(log'[view.job]) = Shows
    BY <1>6 DEF OneJob
  <2>1. /\ view.job \in Jobs /\ IsBeginning(stream.shown, log[view.job])
        /\ Shows \in Terminal => IsClosed(log[view.job]) /\ Outcome(log[view.job]) = Shows
    BY <1>1, <1>3 DEF OneJob, TypeOK
  <2> QED
    BY <1>1, <1>5, <2>1, GrownHistory
<1> QED
  BY <1>7, <1>8, <1>9, <1>10, <1>11

\* What the histories tell of creations, when nothing else changes.
LEMMA CreationsStand ==
  ASSUME StreamInv, TypeOK', LogsGrow, UNCHANGED <<post, view>>,
         history'.listed \subseteq CompletedRuns,
         \A j \in Jobs : Created(j)' => Created(j)
  PROVE  Creations'
<1>1. Creations /\ TypeOK
  BY DEF StreamInv
<1>2. \A j \in Jobs : j \in CompletedRuns => j \in CompletedRuns'
  BY <1>1, GrownHistory DEF CompletedRuns
<1>4. \A j \in Jobs : Created(j) => Created(j)'
  BY <1>1, GrownHistory
<1>5. CompletedRuns \subseteq Jobs
  BY DEF CompletedRuns
<1>6. view.runs \cup history'.listed \subseteq CompletedRuns'
  BY <1>1, <1>2, <1>5 DEF Creations
<1>7. \A j \in Jobs : Pending(j)' <=> Pending(j)
  BY DEF Pending
<1> QED
  BY <1>1, <1>4, <1>6, <1>7 DEF Creations

\* What a cancel was answered stays true, or the service is down.
LEMMA CancellationsStand ==
  ASSUME StreamInv, TypeOK', LogsGrow, UNCHANGED cancel, view'.job = view.job,
         \A j \in Jobs : post[j] = "over" => post'[j] = "over",
         \A j \in Jobs : up' /\ Created(j) /\ (up => OverInMemory(j)) => OverInMemory(j)'
  PROVE  Cancellations'
<1>1. Cancellations /\ TypeOK
  BY DEF StreamInv
<1>2. \A j \in Jobs : Created(j) => Created(j)'
  BY <1>1, GrownHistory
<1>3. \A c \in Cancels : Asked(c)' <=> Asked(c)
  BY DEF Asked
<1> SUFFICES ASSUME NEW c \in Cancels, Asked(c)
             PROVE  /\ cancel[c].job # None /\ Created(cancel[c].job)'
                    /\ post'[cancel[c].job] = "over" /\ view'.job # None
                    /\ cancel[c].status \in Terminal => (up' => OverInMemory(cancel[c].job)')
  BY <1>1, <1>3 DEF Cancellations
<1>4. /\ cancel[c].job # None /\ Created(cancel[c].job)
      /\ post[cancel[c].job] = "over" /\ view.job # None
      /\ cancel[c].status \in Terminal => (up => OverInMemory(cancel[c].job))
  BY <1>1 DEF Cancellations
<1>5. PICK j \in Jobs : j = cancel[c].job
  BY <1>1, <1>4 DEF TypeOK
<1>6. /\ Created(j)' /\ post'[j] = "over"
      /\ cancel[c].status \in Terminal => (up' => OverInMemory(j)')
  BY <1>2, <1>4, <1>5
<1> QED
  BY <1>4, <1>5, <1>6

\* The connection may bring what stands in a history that has grown.
LEMMA DeliversStands ==
  ASSUME StreamInv, TypeOK', LogsGrow, SameConnection,
         link'.cursor \in {link.cursor, link.got}
  PROVE  Delivers'
<1> SUFFICES ASSUME link'.state # "none" PROVE Delivers'
  BY DEF Delivers
<1>1. /\ link.state # "none" /\ link'.job = link.job /\ link'.got = link.got
      /\ link.job \in Jobs /\ link.job # None /\ Created(link.job)
      /\ link.got <= link.cursor /\ link.cursor <= Len(log[link.job])
  BY DEF SameConnection, StreamInv, Delivers, TypeOK
<1>2. PICK j \in Jobs : j = link.job
  BY <1>1
<1>3. Len(log[j]) <= Len(log'[j]) /\ log'[j] # <<>>
  BY <1>1, <1>2, GrownHistory DEF StreamInv, Created
<1>4. link.cursor \in Nat /\ link.got \in Nat
  <2>1. link \in LinkRec
    BY TypeParts DEF StreamInv
  <2> QED
    BY <2>1 DEF LinkRec
<1>5. Len(log[j]) \in Nat /\ Len(log'[j]) \in Nat
  <2>1. log[j] \in Seq(JobEvent) /\ log'[j] \in Seq(JobEvent)
    BY DEF StreamInv, TypeOK
  <2> QED
    BY <2>1
<1>6. link'.got <= link'.cursor /\ link'.cursor <= Len(log'[j])
  BY <1>1, <1>2, <1>3, <1>4, <1>5
<1>7. link'.job # None /\ log'[link'.job] # <<>> /\ link'.cursor <= Len(log'[link'.job])
  BY <1>1, <1>2, <1>3, <1>6
<1> QED
  BY <1>6, <1>7 DEF Delivers, Created

LEMMA BehindKeeps ==
  ASSUME StreamInv, TypeOK', Behind, Histories', Creations', Cancellations', Delivers'
  PROVE  StreamInv'
BY PageStands DEF StreamInv

LEMMA SameIsBehind ==
  ASSUME LogsGrow, UNCHANGED <<post, cancel, link, stream, view, history, due>>
  PROVE  Behind
<1>1. SameConnection /\ history'.refresh \in {history.refresh, None}
  BY DEF SameConnection
<1>2. \A j \in Jobs : Pending(j)' <=> Pending(j)
  BY DEF Pending
<1>3. \A c \in Cancels : Asked(c)' <=> Asked(c)
  BY DEF Asked
<1> QED
  BY <1>1, <1>2, <1>3 DEF Behind

LEMMA ProceedKeeps ==
  ASSUME StreamInv, TypeOK', NEW j \in Jobs, Proceed(j) PROVE StreamInv'
<1>1. TypeOK /\ Histories /\ Creations
  BY DEF StreamInv
<1>2. /\ up /\ Created(j) /\ ~IsClosed(log[j]) /\ mute[j] = "none"
      /\ UNCHANGED <<up, mute, post, cancel, link, stream, view, history, due, faults>>
  BY DEF Proceed, Running, OverInMemory
<1>3. PICK e \in NextEvents(j) : log' = [log EXCEPT ![j] = Append(@, e)]
  BY DEF Proceed
<1>4. e \in JobEvent /\ log[j] \in Seq(JobEvent)
  BY <1>1, <1>2, NextEventTypes DEF TypeOK
<1>5. /\ log'[j] = Append(log[j], e) /\ \A k \in Jobs \ {j} : log'[k] = log[k]
      /\ log' \in [Jobs -> Seq(JobEvent)]
  <2>1. log \in [Jobs -> Seq(JobEvent)] /\ Append(log[j], e) \in Seq(JobEvent)
    BY <1>1, <1>4, OneMore DEF TypeOK
  <2> QED
    BY <1>3, <2>1
<1>6. /\ IsBeginning(log[j], log'[j]) /\ Outcome(log'[j]) = e.status /\ TerminalIsLast(log'[j])
  BY <1>1, <1>2, <1>4, <1>5, OneMore DEF Histories
<1>8. LogsGrow
  BY <1>2, <1>5, <1>6 DEF LogsGrow
<1>9. Histories'
  BY <1>1, <1>5, <1>6 DEF Histories
<1>10. \A k \in Jobs : (Created(k)' => Created(k)) /\ (OverInMemory(k) => OverInMemory(k)')
  BY <1>2, <1>5 DEF Created, OverInMemory
<1>11. Creations'
  <2>1. history'.listed \subseteq CompletedRuns
    BY <1>1, <1>2 DEF Creations
  <2> QED
    BY <1>2, <1>8, <1>10, <2>1, CreationsStand
<1>12. Cancellations'
  BY <1>2, <1>8, <1>10, CancellationsStand
<1>13. Behind
  BY <1>2, <1>8, SameIsBehind
<1>14. Delivers'
  BY <1>2, <1>8, <1>13, DeliversStands DEF Behind
<1> QED
  BY <1>9, <1>11, <1>12, <1>13, <1>14, BehindKeeps

LEMMA LoseTerminalKeeps ==
  ASSUME StreamInv, TypeOK', NEW j \in Jobs, LoseTerminal(j) PROVE StreamInv'
<1>1. TypeOK /\ Histories /\ Creations
  BY DEF StreamInv
<1>2. PICK e \in NextEvents(j) : e.kind = "terminal" /\ mute' = [mute EXCEPT ![j] = e.status]
  BY DEF LoseTerminal
<1>3. /\ Created(j) /\ faults < MaxFaults /\ faults' = faults + 1
      /\ UNCHANGED <<up, log, post, cancel, link, stream, view, history, due>>
  BY DEF LoseTerminal, Fault, Running
<1>4. e \in JobEvent
  BY <1>1, <1>3, NextEventTypes
<1>5. e.status \in Terminal
  BY <1>2, <1>4 DEF JobEvent
<1>7. LogsGrow
  BY <1>3 DEF LogsGrow
<1>8. \A k \in Jobs : OverInMemory(k) => OverInMemory(k)'
  <2>1. e.status # "none"
    BY <1>5 DEF Terminal
  <2> QED
    BY <1>1, <1>2, <1>3, <2>1 DEF OverInMemory, TypeOK
<1>9. Histories' /\ Creations'
  BY <1>1, <1>3 DEF Histories, Creations, Created, CompletedRuns, Pending
<1>10. Cancellations'
  BY <1>3, <1>7, <1>8, CancellationsStand
<1>11. Behind
  BY <1>3, <1>7, SameIsBehind
<1>12. Delivers'
  BY <1>3, <1>7, <1>11, DeliversStands DEF Behind
<1> QED
  BY <1>9, <1>10, <1>11, <1>12, BehindKeeps

LEMMA CrashKeeps ==
  ASSUME StreamInv, TypeOK', Crash PROVE StreamInv'
<1>1. TypeOK /\ Histories /\ Creations /\ Cancellations
  BY DEF StreamInv
<1>2. /\ up' = FALSE /\ UNCHANGED <<log, stream, view, due>>
      /\ faults < MaxFaults /\ faults' = faults + 1
      /\ mute' = [j \in Jobs |-> "none"]
      /\ link' = IF link.state = "none" THEN link ELSE [link EXCEPT !.state = "failed"]
  BY DEF Crash, Fault
<1>3. /\ post' \in [Jobs -> {"unused", "sent", "answered", "over"}]
      /\ \A j \in Jobs : post'[j] = IF post[j] = "sent" THEN "over" ELSE post[j]
  BY <1>1 DEF Crash, TypeOK
<1>4. /\ cancel' \in [Cancels -> CancelRec]
      /\ \A c \in Cancels :
           /\ Asked(c)' <=> Asked(c)
           /\ cancel'[c].job = cancel[c].job /\ cancel'[c].status = cancel[c].status
           /\ cancel[c].stage = "over" => cancel'[c] = cancel[c]
           /\ cancel'[c].stage = "answered" => cancel[c].stage = "answered"
  <2>1. cancel \in [Cancels -> CancelRec]
    BY <1>1, TypeParts
  <2>2. cancel' = [c \in Cancels |-> IF cancel[c].stage \in {"sent", "accepted"}
                     THEN [cancel[c] EXCEPT !.stage = "over"] ELSE cancel[c]]
    BY DEF Crash
  <2>3. \A c \in Cancels : cancel[c] \in CancelRec
    BY <2>1
  <2>4. \A c \in Cancels : cancel'[c] \in CancelRec
    BY <2>2, <2>3 DEF CancelRec
  <2> QED
    BY <2>2, <2>3, <2>4 DEF CancelRec, Asked
<1>5. /\ history' \in HistoryRec /\ history'.listed = history.listed
      /\ history'.refresh = None
  <2>1. history \in HistoryRec
    BY <1>1, TypeParts
  <2> QED
    BY <2>1 DEF Crash, HistoryRec
<1>6. link' \in LinkRec /\ SameConnection /\ link'.cursor = link.cursor
  <2>1. link \in LinkRec
    BY <1>1, TypeParts
  <2> QED
    BY <1>2, <2>1 DEF LinkRec, SameConnection
<1>8. LogsGrow
  BY <1>2 DEF LogsGrow
<1>9. \A j \in Jobs : Pending(j)' => Pending(j)
  BY <1>3 DEF Pending
<1>10. Histories' /\ Creations'
  BY <1>1, <1>2, <1>3, <1>5, <1>9 DEF Histories, Creations, Created, CompletedRuns
<1>11. Cancellations'
  <2> SUFFICES ASSUME NEW c \in Cancels
               PROVE  /\ Asked(c) => cancel[c].job # None /\ Created(cancel[c].job)'
                           /\ post'[cancel[c].job] = "over" /\ view.job # None
                      /\ cancel'[c].stage = "answered" => cancel[c].status \in Terminal
                      /\ cancel[c].status \in Terminal => Asked(c)
    BY <1>2, <1>4 DEF Cancellations
  <2>1. Asked(c) => cancel[c].job \in Jobs
    BY <1>1 DEF Cancellations, TypeOK
  <2> QED
    BY <1>1, <1>2, <1>3, <1>4, <2>1 DEF Cancellations, Created
<1>12. Behind
  BY <1>2, <1>3, <1>4, <1>5, <1>6, <1>8, <1>9 DEF Behind
<1>13. Delivers'
  BY <1>6, <1>8, DeliversStands
<1> QED
  BY <1>10, <1>11, <1>12, <1>13, BehindKeeps

LEMMA RestartKeeps ==
  ASSUME StreamInv, TypeOK', Restart PROVE StreamInv'
<1>1. TypeOK /\ Histories
  BY DEF StreamInv
<1>2. /\ ~up /\ up' = TRUE /\ log' = [j \in Jobs |-> Recovered(log[j])]
      /\ UNCHANGED <<mute, post, cancel, link, stream, view, history, due, faults>>
  BY DEF Restart
<1>3. ASSUME NEW j \in Jobs
      PROVE  /\ log'[j] \in Seq(JobEvent) /\ TerminalIsLast(log'[j])
             /\ log'[j] = log[j] \/ (~IsClosed(log[j]) /\ IsBeginning(log[j], log'[j]))
             /\ log'[j] = log[j] \/ Outcome(log'[j]) = "failed"
             /\ Created(j)' <=> Created(j)
             /\ Created(j) => IsClosed(log'[j])
  <2>1. log[j] \in Seq(JobEvent) /\ TerminalIsLast(log[j]) /\ log'[j] = Recovered(log[j])
    BY <1>1, <1>2 DEF TypeOK, Histories
  <2>2. CASE log[j] = <<>> \/ IsClosed(log[j])
    BY <2>1, <2>2 DEF Recovered, Created
  <2>3. CASE ~(log[j] = <<>> \/ IsClosed(log[j]))
    <3> DEFINE e == TerminalEvent("failed", Candidates(log[j]), 0)
    <3>1. e \in JobEvent
      BY <2>1, <2>3, LastEvent, EventTypes DEF Terminal
    <3>2. e.kind = "terminal" /\ e.status = "failed" /\ log'[j] = Append(log[j], e)
      BY <2>1, <2>3 DEF Recovered, TerminalEvent
    <3> HIDE DEF e
    <3> QED
      BY <2>1, <2>3, <3>1, <3>2, OneMore DEF Created
  <2> QED
    BY <2>2, <2>3
<1>4. LogsGrow /\ Histories'
  BY <1>3 DEF LogsGrow, Histories
<1>6. Creations'
  <2>1. history'.listed \subseteq CompletedRuns
    BY <1>2 DEF StreamInv, Creations
  <2> QED
    BY <1>2, <1>3, <1>4, <2>1, CreationsStand
<1>7. Cancellations'
  <2>1. \A j \in Jobs : Created(j) => OverInMemory(j)'
    BY <1>3 DEF OverInMemory
  <2> QED
    BY <1>2, <1>4, <2>1, CancellationsStand
<1>8. Behind
  BY <1>2, <1>4, SameIsBehind
<1>9. Delivers'
  BY <1>2, <1>4, <1>8, DeliversStands DEF Behind
<1> QED
  BY <1>4, <1>6, <1>7, <1>8, <1>9, BehindKeeps

LEMMA ServeCreateKeeps ==
  ASSUME StreamInv, TypeOK', NEW j \in Jobs, ServeCreate(j) PROVE StreamInv'
<1>1. TypeOK /\ Histories /\ Creations /\ Cancellations
  BY DEF StreamInv
<1>2. /\ up /\ post[j] = "sent" /\ ~Created(j)
      /\ UNCHANGED <<up, mute, cancel, link, stream, view, history, due, faults>>
  BY <1>1 DEF ServeCreate, Creations
<1>3. \/ /\ post' = [post EXCEPT ![j] = "over"] /\ log' = log
      \/ /\ post' = [post EXCEPT ![j] = "answered"]
         /\ log' = [log EXCEPT ![j] = <<StatusEvent("queued", 0)>>]
  BY DEF ServeCreate
<1>4. log[j] = <<>> /\ ~IsClosed(log[j])
  BY <1>2 DEF Created, IsClosed
<1> DEFINE h == <<StatusEvent("queued", 0)>>
<1>5. /\ h \in Seq(JobEvent) /\ h # <<>> /\ ~IsClosed(h) /\ TerminalIsLast(h)
      /\ IsBeginning(<<>>, h)
  <2> DEFINE e == StatusEvent("queued", 0)
  <2>1. e \in JobEvent /\ e.kind = "status"
    BY EventTypes DEF StatusEvent
  <2> HIDE DEF e
  <2>2. <<e>> \in Seq(JobEvent) /\ <<e>> # <<>> /\ Len(<<e>>) = 1 /\ <<e>>[1] = e
    BY <2>1
  <2>3. ~IsClosed(<<e>>) /\ TerminalIsLast(<<e>>)
    BY <2>1, <2>2 DEF IsClosed, TerminalIsLast
  <2> QED
    BY <2>2, <2>3, EmptyBegins DEF e
<1>6. /\ log' \in [Jobs -> Seq(JobEvent)]
      /\ post' \in [Jobs -> {"unused", "sent", "answered", "over"}]
      /\ \A k \in Jobs \ {j} : log'[k] = log[k] /\ post'[k] = post[k]
      /\ \/ post'[j] = "over" /\ log'[j] = log[j]
         \/ post'[j] = "answered" /\ log'[j] = h
  <2>1. \/ post' = [post EXCEPT ![j] = "over"] /\ log' = log
        \/ post' = [post EXCEPT ![j] = "answered"] /\ log' = [log EXCEPT ![j] = h]
    BY <1>3
  <2> HIDE DEF h
  <2>2. /\ log \in [Jobs -> Seq(JobEvent)]
        /\ post \in [Jobs -> {"unused", "sent", "answered", "over"}]
    BY <1>1 DEF TypeOK
  <2>3. CASE post' = [post EXCEPT ![j] = "over"] /\ log' = log
    BY <2>2, <2>3
  <2>4. CASE post' = [post EXCEPT ![j] = "answered"] /\ log' = [log EXCEPT ![j] = h]
    BY <1>5, <2>2, <2>4
  <2> QED
    BY <2>1, <2>3, <2>4
<1> HIDE DEF h
<1>8. LogsGrow /\ Histories'
  BY <1>1, <1>4, <1>5, <1>6 DEF LogsGrow, Histories
<1>9. CompletedRuns' = CompletedRuns
  BY <1>4, <1>5, <1>6 DEF CompletedRuns
<1>10. \A k \in Jobs : (Pending(k)' => Pending(k)) /\ (k # j => (Created(k)' <=> Created(k)))
  BY <1>2, <1>6 DEF Pending, Created
<1>11. Creations'
  <2>1. \A k \in Jobs :
          /\ post'[k] \in {"unused", "sent"} => ~Created(k)'
          /\ post'[k] = "answered" => Created(k)'
    <3> SUFFICES ASSUME NEW k \in Jobs
                 PROVE  /\ post'[k] \in {"unused", "sent"} => ~Created(k)'
                        /\ post'[k] = "answered" => Created(k)'
      OBVIOUS
    <3>1. CASE k = j
      BY <1>1, <1>2, <1>4, <1>5, <1>6, <3>1 DEF Created, Creations
    <3>2. CASE k # j
      BY <1>1, <1>6, <1>10, <3>2 DEF Creations
    <3> QED
      BY <3>1, <3>2
  <2>2. \A k, i \in Jobs : Pending(k)' /\ Pending(i)' => k = i
    BY <1>1, <1>10 DEF Creations
  <2>3. view'.runs \cup history'.listed \subseteq CompletedRuns'
    BY <1>1, <1>2, <1>9 DEF Creations
  <2> QED
    BY <2>1, <2>2, <2>3 DEF Creations
<1>12. Cancellations'
  <2>1. \A k \in Jobs : Created(k) /\ OverInMemory(k) => OverInMemory(k)'
    BY <1>2, <1>6 DEF OverInMemory
  <2>2. \A k \in Jobs : Created(k) /\ up' /\ (up => OverInMemory(k)) => OverInMemory(k)'
    BY <1>2, <2>1
  <2>3. \A k \in Jobs : post[k] = "over" => post'[k] = "over"
    BY <1>2, <1>6
  <2> QED
    BY <1>2, <1>8, <2>2, <2>3, CancellationsStand
<1>13. Behind
  <2>1. \A c \in Cancels : Asked(c)' <=> Asked(c)
    BY <1>2 DEF Asked
  <2> QED
    BY <1>2, <1>6, <1>8, <1>10, <2>1 DEF Behind, SameConnection
<1>14. Delivers'
  BY <1>2, <1>8, <1>13, DeliversStands DEF Behind
<1> QED
  BY <1>8, <1>11, <1>12, <1>13, <1>14, BehindKeeps

LEMMA ServeCancelKeeps ==
  ASSUME StreamInv, TypeOK', NEW c \in Cancels, ServeCancel(c) PROVE StreamInv'
<1>1. TypeOK /\ Histories /\ Creations /\ Cancellations
  BY DEF StreamInv
<1>2. /\ up /\ cancel[c].stage = "sent" /\ cancel' = [cancel EXCEPT ![c].stage = "accepted"]
      /\ UNCHANGED <<up, mute, post, link, stream, view, history, due, faults>>
  BY DEF ServeCancel
<1>3. cancel[c].job \in Jobs /\ Created(cancel[c].job)
  BY <1>1, <1>2 DEF Cancellations, Asked, TypeOK
<1>4. PICK j \in Jobs : j = cancel[c].job
  BY <1>3
<1>5. log[j] \in Seq(JobEvent) /\ log[j] # <<>>
  BY <1>1, <1>3, <1>4 DEF TypeOK, Created
<1> DEFINE e == StatusEvent("cancelling", Candidates(log[j]))
<1>6. log' = log \/ (~IsClosed(log[j]) /\ log' = [log EXCEPT ![j] = Append(@, e)])
  BY <1>4 DEF ServeCancel, OverInMemory
<1>7. e \in JobEvent /\ e.kind # "terminal" /\ e.status = "cancelling"
  BY <1>5, LastEvent, EventTypes DEF StatusEvent
<1> HIDE DEF e
<1>8. /\ log' \in [Jobs -> Seq(JobEvent)]
      /\ \A k \in Jobs \ {j} : log'[k] = log[k]
      /\ log'[j] = log[j] \/ (~IsClosed(log[j]) /\ log'[j] = Append(log[j], e))
  <2>1. log \in [Jobs -> Seq(JobEvent)] /\ Append(log[j], e) \in Seq(JobEvent)
    BY <1>1, <1>5, <1>7, OneMore DEF TypeOK
  <2>2. log' = log \/ (~IsClosed(log[j]) /\ log' = [log EXCEPT ![j] = Append(log[j], e)])
    BY <1>6
  <2> QED
    BY <2>1, <2>2
<1>9. /\ cancel' \in [Cancels -> CancelRec]
      /\ \A d \in Cancels : /\ Asked(d)' <=> Asked(d)
                            /\ cancel'[d].job = cancel[d].job
                            /\ cancel'[d].status = cancel[d].status
                            /\ cancel[d].stage = "over" => cancel'[d] = cancel[d]
                            /\ cancel'[d].stage = "answered" => cancel[d].stage = "answered"
  <2>1. cancel \in [Cancels -> CancelRec]
    BY <1>1, TypeParts
  <2> QED
    BY <1>2, <2>1 DEF CancelRec, Asked
<1>11. ASSUME NEW k \in Jobs
       PROVE  /\ log'[k] = log[k] \/ (~IsClosed(log[k]) /\ IsBeginning(log[k], log'[k]))
              /\ IsClosed(log'[k]) => log'[k] = log[k]
              /\ TerminalIsLast(log'[k])
              /\ Created(k)' <=> Created(k)
  BY <1>1, <1>5, <1>7, <1>8, OneMore DEF Histories, Created
<1>12. LogsGrow /\ Histories'
  BY <1>11 DEF LogsGrow, Histories
<1>13. Creations'
  <2>1. history'.listed \subseteq CompletedRuns
    BY <1>1, <1>2 DEF Creations
  <2> QED
    BY <1>2, <1>11, <1>12, <2>1, CreationsStand
<1>14. Cancellations'
  <2> SUFFICES ASSUME NEW d \in Cancels
               PROVE  /\ Asked(d) => cancel[d].job # None /\ Created(cancel[d].job)'
                           /\ post[cancel[d].job] = "over" /\ view.job # None
                      /\ cancel'[d].stage = "answered" => cancel[d].status \in Terminal
                      /\ cancel[d].status \in Terminal =>
                           Asked(d) /\ OverInMemory(cancel[d].job)'
    BY <1>2, <1>9 DEF Cancellations
  <2>1. /\ Asked(d) => cancel[d].job # None /\ Created(cancel[d].job)
             /\ post[cancel[d].job] = "over" /\ view.job # None
        /\ cancel[d].stage = "answered" => cancel[d].status \in Terminal
        /\ cancel[d].status \in Terminal => Asked(d) /\ OverInMemory(cancel[d].job)
    BY <1>1, <1>2 DEF Cancellations
  <2>2. CASE ~Asked(d)
    BY <1>9, <2>1, <2>2
  <2>3. CASE Asked(d)
    <3>1. PICK k \in Jobs : k = cancel[d].job
      BY <1>1, <2>1, <2>3 DEF TypeOK
    <3>2. Created(k)' /\ (OverInMemory(k) => OverInMemory(k)')
      BY <1>2, <1>11, <2>1, <2>3, <3>1 DEF OverInMemory
    <3> QED
      BY <1>9, <2>1, <2>3, <3>1, <3>2
  <2> QED
    BY <2>2, <2>3
<1>15. Behind
  <2>1. \A k \in Jobs : Pending(k)' <=> Pending(k)
    BY <1>2 DEF Pending
  <2> QED
    BY <1>2, <1>9, <1>12, <2>1 DEF Behind, SameConnection
<1>16. Delivers'
  BY <1>2, <1>12, <1>15, DeliversStands DEF Behind
<1> QED
  BY <1>12, <1>13, <1>14, <1>15, <1>16, BehindKeeps

LEMMA AnswerCancelKeeps ==
  ASSUME StreamInv, TypeOK', NEW c \in Cancels, AnswerCancel(c) PROVE StreamInv'
<1>1. TypeOK /\ Histories /\ Creations /\ Cancellations
  BY DEF StreamInv
<1>2. /\ cancel[c].stage = "accepted" /\ OverInMemory(cancel[c].job)
      /\ UNCHANGED <<up, log, mute, post, link, stream, view, history, due, faults>>
      /\ cancel' = [cancel EXCEPT ![c].stage = "answered",
                                  ![c].status = MemoryStatus(cancel[c].job)]
  BY DEF AnswerCancel
<1>3. PICK j \in Jobs : j = cancel[c].job
  BY <1>1, <1>2 DEF Cancellations, Asked, TypeOK
<1>4. MemoryStatus(j) \in Terminal
  <2>1. log[j] \in Seq(JobEvent) /\ mute[j] \in Terminal \cup {"none"}
    BY <1>1 DEF TypeOK
  <2>2. IsClosed(log[j]) => Outcome(log[j]) \in Terminal
    BY <2>1, LastEvent DEF IsClosed
  <2> QED
    BY <1>2, <1>3, <2>1, <2>2 DEF MemoryStatus, OverInMemory
<1>5. /\ cancel' \in [Cancels -> CancelRec]
      /\ cancel'[c].stage = "answered" /\ cancel'[c].status \in Terminal
      /\ cancel'[c].job = cancel[c].job
      /\ \A d \in Cancels \ {c} : cancel'[d] = cancel[d]
  <2>1. cancel \in [Cancels -> CancelRec]
    BY <1>1, TypeParts
  <2> DEFINE m == MemoryStatus(j)
  <2>2. cancel' = [cancel EXCEPT ![c].stage = "answered", ![c].status = m] /\ m \in Terminal
    BY <1>2, <1>3, <1>4
  <2> HIDE DEF m
  <2> QED
    BY <2>1, <2>2 DEF CancelRec
<1>7. LogsGrow /\ Histories' /\ Creations'
  BY <1>1, <1>2 DEF LogsGrow, Histories, Creations, Created, CompletedRuns, Pending
<1>8. \A d \in Cancels : (Asked(d)' <=> Asked(d)) /\ cancel'[d].job = cancel[d].job
  BY <1>2, <1>5 DEF Asked
<1>9. Cancellations'
  <2> SUFFICES ASSUME NEW d \in Cancels
               PROVE  /\ Asked(d) => cancel[d].job # None /\ Created(cancel[d].job)
                           /\ post[cancel[d].job] = "over" /\ view.job # None
                      /\ cancel'[d].stage = "answered" => cancel'[d].status \in Terminal
                      /\ cancel'[d].status \in Terminal =>
                           Asked(d) /\ (up => OverInMemory(cancel[d].job))
    BY <1>2, <1>8 DEF Cancellations, Created, OverInMemory
  <2>1. CASE d = c
    BY <1>1, <1>2, <1>5, <2>1 DEF Cancellations, Asked
  <2>2. CASE d # c
    BY <1>1, <1>5, <2>2 DEF Cancellations
  <2> QED
    BY <2>1, <2>2
<1>10. Behind
  <2>1. \A k \in Jobs : Pending(k)' <=> Pending(k)
    BY <1>2 DEF Pending
  <2> QED
    BY <1>2, <1>5, <1>7, <1>8, <2>1 DEF Behind, SameConnection
<1>11. Delivers'
  BY <1>2, <1>7, <1>10, DeliversStands DEF Behind
<1> QED
  BY <1>7, <1>9, <1>10, <1>11, BehindKeeps

LEMMA ServeFirstListingKeeps ==
  ASSUME StreamInv, TypeOK', ServeFirstListing PROVE StreamInv'
<1>1. TypeOK /\ Histories /\ Creations
  BY DEF StreamInv
<1>2. /\ history' = IF ListingFails THEN [history EXCEPT !.first = "over"]
                      ELSE [history EXCEPT !.first = "answered", !.listed = CompletedRuns]
      /\ UNCHANGED <<up, log, mute, post, cancel, link, stream, view, due, faults>>
  BY DEF ServeFirstListing
<1>3. /\ history' \in HistoryRec /\ history'.listed \subseteq CompletedRuns
      /\ history'.refresh = history.refresh
  <2>1. history \in HistoryRec /\ CompletedRuns \in SUBSET Jobs
    BY <1>1, TypeParts DEF CompletedRuns
  <2> QED
    BY <1>1, <1>2, <2>1 DEF HistoryRec, Creations
<1>5. LogsGrow /\ Histories'
  BY <1>1, <1>2 DEF LogsGrow, Histories
<1>6. \A k \in Jobs : (Created(k)' <=> Created(k)) /\ (OverInMemory(k)' <=> OverInMemory(k))
  BY <1>2 DEF Created, OverInMemory
<1>7. Creations' /\ Cancellations'
  BY <1>2, <1>3, <1>5, <1>6, CreationsStand, CancellationsStand
<1>8. Behind
  <2>1. /\ \A k \in Jobs : Pending(k)' <=> Pending(k)
        /\ \A d \in Cancels : Asked(d)' <=> Asked(d)
    BY <1>2 DEF Pending, Asked
  <2> QED
    BY <1>2, <1>3, <1>5, <2>1 DEF Behind, SameConnection
<1>9. Delivers'
  BY <1>2, <1>5, <1>8, DeliversStands DEF Behind
<1> QED
  BY <1>5, <1>7, <1>8, <1>9, BehindKeeps

\* The connection: AcceptStream, SendEvent, EndStream and Drop touch nothing else.
LEMMA ConnectionKeeps ==
  ASSUME StreamInv, TypeOK', Connection PROVE StreamInv'
<1>1. TypeOK /\ Histories /\ Creations /\ Delivers
  BY DEF StreamInv
<1>2. UNCHANGED <<up, log, mute, post, cancel, stream, view, history, due>>
  BY DEF Connection, AcceptStream, SendEvent, EndStream, Drop
<1>3. link.state # "none" /\ link \in LinkRec /\ link.job \in Jobs
  BY <1>1, TypeParts DEF Connection, AcceptStream, SendEvent, EndStream, Drop, Delivers, TypeOK
<1>5. /\ link' \in LinkRec /\ link'.state # "none"
      /\ link'.job = link.job /\ link'.got = link.got
      /\ link'.cursor \in {link.cursor, link.got} \/ (link'.cursor = link.cursor + 1 /\ MoreToSend)
  <2>1. CASE AcceptStream
    BY <1>3, <2>1 DEF AcceptStream, LinkRec
  <2>2. CASE SendEvent
    <3>1. PICK s \in {"ended", "open"} :
            link' = [link EXCEPT !.cursor = link.cursor + 1, !.state = s]
      BY <2>2 DEF SendEvent
    <3>2. MoreToSend
      BY <2>2 DEF SendEvent
    <3>3. link.cursor + 1 \in Nat
      BY <1>3 DEF LinkRec
    <3>4. link' \in LinkRec
      BY <1>3, <3>1, <3>3 DEF LinkRec
    <3>5. /\ link'.state = s /\ link'.job = link.job /\ link'.got = link.got
          /\ link'.cursor = link.cursor + 1
      BY <1>3, <3>1 DEF LinkRec
    <3> QED
      BY <3>2, <3>4, <3>5
  <2>3. CASE EndStream
    BY <1>3, <2>3 DEF EndStream, LinkRec
  <2>4. CASE Drop
    BY <1>3, <2>4 DEF Drop, LinkRec
  <2> QED
    BY <2>1, <2>2, <2>3, <2>4 DEF Connection
<1>7. LogsGrow /\ Histories' /\ SameConnection
  BY <1>1, <1>2, <1>3, <1>5 DEF LogsGrow, Histories, SameConnection
<1>8. Creations' /\ Cancellations'
  <2>1. \A k \in Jobs : (Created(k)' <=> Created(k)) /\ (OverInMemory(k)' <=> OverInMemory(k))
    BY <1>2 DEF Created, OverInMemory
  <2>2. history'.listed \subseteq CompletedRuns
    BY <1>1, <1>2 DEF Creations
  <2> QED
    BY <1>2, <1>7, <2>1, <2>2, CreationsStand, CancellationsStand
<1>9. Behind
  <2>1. /\ \A k \in Jobs : Pending(k)' <=> Pending(k)
        /\ \A d \in Cancels : Asked(d)' <=> Asked(d)
    BY <1>2 DEF Pending, Asked
  <2> QED
    BY <1>2, <1>7, <2>1 DEF Behind
<1>10. Delivers'
  <2>1. CASE link'.cursor \in {link.cursor, link.got}
    BY <1>7, <2>1, DeliversStands
  <2>2. CASE link'.cursor = link.cursor + 1 /\ MoreToSend
    <3>1. link.cursor \in Nat /\ link.got \in Nat /\ Len(log[link.job]) \in Nat
      <4>1. log[link.job] \in Seq(JobEvent)
        BY <1>1, <1>3 DEF TypeOK
      <4> QED
        BY <1>3, <4>1 DEF LinkRec
    <3>2. link'.got <= link'.cursor /\ link'.cursor <= Len(log[link.job])
      BY <1>1, <1>3, <1>5, <2>2, <3>1 DEF MoreToSend, Delivers
    <3>3. PICK j \in Jobs : j = link.job
      BY <1>3
    <3>4. link'.job = j /\ j # None /\ log'[j] # <<>> /\ link'.cursor <= Len(log'[j])
      BY <1>1, <1>2, <1>3, <1>5, <3>2, <3>3 DEF Delivers, Created
    <3> QED
      BY <3>2, <3>4 DEF Delivers, Created
  <2> QED
    BY <1>5, <2>1, <2>2
<1> QED
  BY <1>7, <1>8, <1>9, <1>10, BehindKeeps

-----------------------------------------------------------------------------
(***************************************************************************)
(* A page that shows the end of its job waits for nothing.                 *)
(***************************************************************************)
LEMMA ShownIsClosed ==
  ASSUME StreamInv, NEW j \in Jobs, IsBeginning(stream.shown, log[j]), stream.status \in Terminal
  PROVE  /\ IsClosed(log[j]) /\ Len(stream.shown) = Len(log[j])
         /\ Outcome(log[j]) = stream.status
<1>1. /\ stream.shown \in Seq(JobEvent) /\ log[j] \in Seq(JobEvent)
      /\ IsClosed(stream.shown) /\ Outcome(stream.shown) = stream.status
      /\ TerminalIsLast(log[j])
  BY DEF StreamInv, TypeOK, Page, Histories
<1> QED
  BY <1>1, ClosedIsWhole

\* The status "idle" is none of a job.
LEMMA Statuses ==
  ASSUME TypeOK, view.job # None
  PROVE  /\ ~HasActiveJob <=> Shows \in Terminal
         /\ Shows = IF stream.status = "idle" THEN view.answer ELSE stream.status
         /\ "idle" \notin JobStatus
BY DEF HasActiveJob, Shows, Effective, JobStatus, Terminal

LEMMA InactiveDrains ==
  ASSUME StreamInv, ~HasActiveJob, "stream" \notin due PROVE Drained
<1> SUFFICES ASSUME ~Drained PROVE FALSE
  OBVIOUS
<1>1. /\ TypeOK /\ link.state # "none" /\ link.job \in Jobs
      /\ view.ref = link.got /\ IsBeginning(stream.shown, log[link.job])
      /\ link.job = view.job /\ (view.answer \in Terminal => stream.status # "idle")
      /\ view.ref = Len(stream.shown)
  BY DEF StreamInv, Continues, Drained, Delivers, TypeOK, Contiguous
<1>2. view.job # None
  BY <1>1, EventTypes
<1>3. stream.status \in Terminal
  BY <1>1, <1>2, Statuses
<1>4. IsClosed(log[link.job]) /\ link.got = Len(log[link.job])
  BY <1>1, <1>3, ShownIsClosed
<1> QED
  BY <1>4 DEF Drained

\* A cancel that was answered on the page brought the end.
LEMMA DisplacedIsOver ==
  ASSUME StreamInv, view.job # None, Displaced(view.job)
  PROVE  view.answer \in Terminal /\ (up => OverInMemory(view.job))
<1>1. PICK c \in Cancels : cancel[c].job = view.job /\ view.answer = cancel[c].status
  BY DEF Displaced
<1>2. view.answer # "none" /\ cancel[c].status \in Terminal \cup {"none"}
  BY DEF StreamInv, Page, TypeOK
<1> QED
  BY <1>1, <1>2 DEF StreamInv, Cancellations

\* The stream effect of such a page opens nothing that could bring an event.
LEMMA FollowDrains ==
  ASSUME StreamInv, ~HasActiveJob, Follow, UNCHANGED log PROVE Drained'
<1>1. CASE view.job = None \/ view.answer \in Terminal
  BY <1>1 DEF Follow, NoLink, Drained
<1>2. CASE view.job # None /\ view.answer \notin Terminal
  <2>1. link' = [NoLink EXCEPT !.state = "opening", !.job = view.job,
                               !.cursor = view.ref, !.got = view.ref]
    BY <1>2 DEF Follow
  <2>2. link'.job = view.job /\ link'.got = view.ref
    BY <2>1 DEF NoLink
  <2>3. view.job \in Jobs /\ stream.status \in Terminal
    BY <1>2, Statuses DEF StreamInv, TypeOK
  <2>4. IsBeginning(stream.shown, log[view.job]) /\ view.ref = Len(stream.shown)
    BY <1>2, DisplacedIsOver DEF StreamInv, OneJob, Contiguous
  <2>5. IsClosed(log[view.job]) /\ view.ref = Len(log[view.job])
    BY <2>3, <2>4, ShownIsClosed
  <2> QED
    BY <2>2, <2>5 DEF Drained
<1> QED
  BY <1>1, <1>2

\* The job of such a page does not run.
LEMMA InactiveIsOver ==
  ASSUME StreamInv, view.job # None, up, ~HasActiveJob PROVE OverInMemory(view.job)
BY Statuses, DisplacedIsOver DEF StreamInv, OneJob, OverInMemory

LEMMA SubmitKeeps ==
  ASSUME StreamInv, TypeOK', ~hasty', NEW j \in Jobs, Submit(j) PROVE StreamInv'
<1>1. TypeOK /\ Histories /\ Creations
  BY DEF StreamInv
<1>2. /\ ~HasActiveJob /\ post[j] = "unused" /\ due = {}
      /\ \A k \in Jobs : ~Pending(k)
      /\ post' = [post EXCEPT ![j] = Sent]
      /\ UNCHANGED <<up, log, mute, cancel, link, stream, view, history, due>>
  BY DEF Submit, Noted
<1>3. Drained
  BY <1>2, InactiveDrains
<1>4. /\ post' \in [Jobs -> {"unused", "sent", "answered", "over"}]
      /\ post'[j] \in {"sent", "over"} /\ \A k \in Jobs \ {j} : post'[k] = post[k]
  BY <1>1, <1>2 DEF TypeOK, Sent
<1>6. LogsGrow /\ Histories'
  BY <1>1, <1>2 DEF LogsGrow, Histories
<1>7. \A k \in Jobs : (Created(k)' <=> Created(k)) /\ (OverInMemory(k)' <=> OverInMemory(k))
  BY <1>2 DEF Created, OverInMemory
<1>8. CompletedRuns' = CompletedRuns /\ \A k \in Jobs : Pending(k)' => k = j
  BY <1>2, <1>4 DEF CompletedRuns, Pending
<1>9. Creations'
  BY <1>1, <1>2, <1>4, <1>7, <1>8 DEF Creations
<1>10. Cancellations'
  BY <1>2, <1>4, <1>6, <1>7, CancellationsStand
<1>11. Behind
  <2>1. \A d \in Cancels : Asked(d)' <=> Asked(d)
    BY <1>2 DEF Asked
  <2> QED
    BY <1>2, <1>3, <1>4, <1>6, <1>8, <2>1 DEF Behind, SameConnection
<1>12. Delivers'
  BY <1>2, <1>6, <1>11, DeliversStands DEF Behind
<1> QED
  BY <1>6, <1>9, <1>10, <1>11, <1>12, BehindKeeps

-----------------------------------------------------------------------------
(***************************************************************************)
(* Steps of the page.                                                      *)
(***************************************************************************)
\* The page takes over lists of completed runs, and creations end.
LEMMA CreationsAfter ==
  ASSUME StreamInv, UNCHANGED log,
         \A k \in Jobs : post'[k] = post[k] \/ post'[k] = "over",
         view'.runs \cup history'.listed \subseteq CompletedRuns
  PROVE  Histories' /\ Creations'
<1>1. Histories /\ Creations
  BY DEF StreamInv
<1>2. CompletedRuns' = CompletedRuns /\ \A k \in Jobs : Created(k)' <=> Created(k)
  BY DEF CompletedRuns, Created
<1>3. \A k \in Jobs : Pending(k)' => Pending(k)
  BY DEF Pending
<1>4. CompletedRuns \subseteq Jobs
  BY DEF CompletedRuns
<1> QED
  BY <1>1, <1>2, <1>3, <1>4 DEF Histories, Creations

\* No cancel is asked for or answered.
LEMMA CancellationsAfter ==
  ASSUME StreamInv, UNCHANGED <<up, log, mute>>, view.job # None => view'.job # None,
         \A k \in Jobs : post[k] = "over" => post'[k] = "over",
         \A d \in Cancels :
           /\ Asked(d)' <=> Asked(d)
           /\ cancel'[d].job = cancel[d].job /\ cancel'[d].status = cancel[d].status
           /\ cancel'[d].stage = "answered" => cancel[d].stage = "answered"
  PROVE  Cancellations'
<1>1. Cancellations /\ TypeOK
  BY DEF StreamInv
<1> SUFFICES ASSUME NEW d \in Cancels
             PROVE  /\ Asked(d) => cancel[d].job # None /\ Created(cancel[d].job)
                         /\ post'[cancel[d].job] = "over" /\ view'.job # None
                    /\ cancel[d].stage = "answered" => cancel[d].status \in Terminal
                    /\ cancel[d].status \in Terminal =>
                         Asked(d) /\ (up => OverInMemory(cancel[d].job))
  BY DEF Cancellations, Created, OverInMemory
<1>2. Asked(d) => cancel[d].job \in Jobs
  BY <1>1 DEF Cancellations, TypeOK
<1> QED
  BY <1>1, <1>2 DEF Cancellations

\* What the page shows of its job is left as it is.
SamePage ==
  /\ view'.job = view.job /\ view'.answer = view.answer /\ view'.ref = view.ref
  /\ view'.touched = view.touched
  /\ stream'.shown = stream.shown /\ stream'.status = stream.status /\ stream'.gap = stream.gap

LEMMA SamePageStands ==
  ASSUME StreamInv, SamePage, UNCHANGED <<log, post, cancel>>,
         view.job = None => link'.state = "none"
  PROVE  /\ Page' /\ Contiguous' /\ OneJob'
         /\ Shows' = Shows /\ HasActiveJob' = HasActiveJob
<1>1. Page /\ Contiguous /\ OneJob
  BY DEF StreamInv
<1>2. Shows' = Shows /\ HasActiveJob' = HasActiveJob
  BY DEF SamePage, Shows, Effective, HasActiveJob
<1>3. Displaced(view.job)' = Displaced(view.job)
  BY DEF Displaced, SamePage
<1>4. NeverCancelled(view.job)' = NeverCancelled(view.job)
  BY DEF NeverCancelled, Asked, SamePage
<1>5. Created(view.job)' = Created(view.job)
  BY DEF Created, SamePage
<1>6. Page'
  <2>1. FoundEarly' = FoundEarly
    BY DEF FoundEarly, CompletedRuns, SamePage
  <2> QED
    BY <1>1, <1>4, <1>5, <2>1 DEF Page, SamePage
<1>7. Contiguous'
  BY <1>1 DEF Contiguous, SamePage
<1>8. OneJob'
  BY <1>1, <1>2, <1>3 DEF OneJob, SamePage
<1> QED
  BY <1>2, <1>6, <1>7, <1>8

LEMMA StreamOverKeeps ==
  ASSUME StreamInv, TypeOK', StreamOver PROVE StreamInv'
<1>1. TypeOK /\ Creations /\ Pauses
  BY DEF StreamInv
<1>2. link' = NoLink /\ UNCHANGED <<up, log, mute, post, cancel, history, due, faults>>
  BY DEF StreamOver
<1>3. view \in ViewRec /\ stream \in StreamRec
  BY <1>1, TypeParts
<1>4. /\ view' \in ViewRec /\ stream' \in StreamRec
      /\ SamePage /\ view'.runs = view.runs
  <2>1. CASE UNCHANGED <<stream, view>>
    BY <1>3, <2>1 DEF SamePage
  <2>2. CASE stream' = Disconnected(stream) /\ view' = [view EXCEPT !.timer = TRUE]
    BY <1>3, <2>2 DEF SamePage, Disconnected, ViewRec, StreamRec
  <2> QED
    BY <2>1, <2>2 DEF StreamOver
<1>5. link' \in LinkRec /\ link'.state = "none"
  BY <1>2 DEF NoLink, LinkRec
<1>7. Histories' /\ Creations'
  BY <1>1, <1>2, <1>4, CreationsAfter DEF Creations
<1>8. Cancellations'
  BY <1>2, <1>4, CancellationsAfter DEF SamePage, Asked
<1>9. Delivers' /\ Drained' /\ Continues'
  BY <1>5 DEF Delivers, Drained, Continues
<1>10. /\ Page' /\ Contiguous' /\ OneJob'
       /\ HasActiveJob' = HasActiveJob
  BY <1>2, <1>4, <1>5, SamePageStands
<1>11. Pauses'
  BY <1>1, <1>2, <1>4, <1>9, <1>10 DEF Pauses, Pending, SamePage
<1> QED
  BY <1>7, <1>8, <1>9, <1>10, <1>11 DEF StreamInv

\* The connection and what it may still bring are the same.
LEMMA SameDrained ==
  ASSUME UNCHANGED <<link, log>> PROVE Drained' = Drained
BY DEF Drained

LEMMA SameDelivers ==
  ASSUME StreamInv, UNCHANGED <<link, log>> PROVE Delivers'
BY DEF StreamInv, Delivers, Created

LEMMA ReconnectKeeps ==
  ASSUME StreamInv, TypeOK', Reconnect PROVE StreamInv'
<1>1. TypeOK /\ Creations /\ Pauses /\ Continues /\ Page
  BY DEF StreamInv
<1>2. /\ UNCHANGED <<up, log, mute, post, cancel, link, stream, history, faults>>
      /\ view' = [view EXCEPT !.timer = FALSE, !.retried = TRUE]
      /\ due' = due \cup {"stream"}
  BY DEF Reconnect
<1>3. view' \in ViewRec /\ SamePage /\ view'.runs = view.runs
  <2>1. view \in ViewRec
    BY <1>1, TypeParts
  <2> QED
    BY <1>2, <2>1 DEF SamePage, ViewRec
<1>5. Histories' /\ Creations'
  BY <1>1, <1>2, <1>3, CreationsAfter DEF Creations
<1>6. Cancellations'
  BY <1>2, <1>3, CancellationsAfter DEF SamePage, Asked
<1>7. Delivers' /\ Drained' = Drained
  BY <1>2, SameDelivers, SameDrained
<1>8. /\ Page' /\ Contiguous' /\ OneJob'
      /\ HasActiveJob' = HasActiveJob
  BY <1>1, <1>2, <1>3, SamePageStands DEF Page
<1>9. Continues'
  <2>1. Displaced(view.job)' = Displaced(view.job)
    BY <1>2, <1>3 DEF Displaced, SamePage
  <2>2. NeverCancelled(link.job)' = NeverCancelled(link.job)
    BY <1>2 DEF NeverCancelled, Asked
  <2> QED
    BY <1>1, <1>2, <1>3, <1>7, <2>1, <2>2 DEF Continues, SamePage
<1>10. Pauses'
  BY <1>1, <1>2, <1>3, <1>7, <1>8 DEF Pauses, Pending, SamePage
<1> QED
  BY <1>5, <1>6, <1>7, <1>8, <1>9, <1>10 DEF StreamInv

\* A list that selects nothing.
LEMMA ListingKeeps ==
  ASSUME StreamInv, TypeOK', NEW runs \in SUBSET CompletedRuns,
         UNCHANGED <<up, log, mute, post, cancel, link, stream, due>>,
         view' = [view EXCEPT !.runs = runs],
         history' \in HistoryRec, history'.listed \subseteq history.listed,
         history'.refresh \in {history.refresh, None}
  PROVE  StreamInv'
<1>1. TypeOK /\ Creations /\ Pauses /\ Continues /\ Page
  BY DEF StreamInv
<1>2. view' \in ViewRec /\ SamePage /\ view'.runs = runs
  <2>1. view \in ViewRec /\ runs \in SUBSET Jobs
    BY <1>1, TypeParts DEF CompletedRuns
  <2> QED
    BY <2>1 DEF SamePage, ViewRec
<1>4. Histories' /\ Creations'
  BY <1>1, <1>2, CreationsAfter DEF Creations
<1>5. Cancellations'
  BY <1>2, CancellationsAfter DEF SamePage, Asked
<1>6. Delivers' /\ Drained' = Drained
  BY SameDelivers, SameDrained
<1>7. /\ Page' /\ Contiguous' /\ OneJob'
      /\ HasActiveJob' = HasActiveJob
  BY <1>1, <1>2, SamePageStands DEF Page
<1>8. Continues'
  <2>1. Displaced(view.job)' = Displaced(view.job)
    BY <1>2 DEF Displaced, SamePage
  <2>2. NeverCancelled(link.job)' = NeverCancelled(link.job)
    BY DEF NeverCancelled, Asked
  <2> QED
    BY <1>1, <1>2, <1>6, <2>1, <2>2 DEF Continues, SamePage
<1>9. Pauses'
  BY <1>1, <1>2, <1>6, <1>7 DEF Pauses, Pending, SamePage
<1> QED
  BY <1>4, <1>5, <1>6, <1>7, <1>8, <1>9 DEF StreamInv

LEMMA ClickCancelKeeps ==
  ASSUME StreamInv, TypeOK', NEW c \in Cancels, ClickCancel(c) PROVE StreamInv'
<1>1. /\ TypeOK /\ Creations /\ Cancellations /\ Pauses /\ Continues /\ Page
      /\ Contiguous /\ OneJob
  BY DEF StreamInv
<1>2. /\ HasActiveJob /\ view.job # None /\ ~Asked(c)
      /\ cancel' = [cancel EXCEPT ![c] = [stage |-> Sent, job |-> view.job, status |-> "none"]]
      /\ view' = view /\ stream' = CancelRequested(stream)
      /\ due' = due \cup Changed(view, CancelRequested(stream), TRUE)
      /\ UNCHANGED <<up, log, mute, post, link, history, faults>>
  BY DEF ClickCancel, HasActiveJob, Update, Asked
<1>3. view \in ViewRec /\ stream \in StreamRec /\ cancel \in [Cancels -> CancelRec]
  BY <1>1, TypeParts
<1>4. /\ stream' \in StreamRec /\ stream'.status = "cancelling"
      /\ stream'.shown = stream.shown /\ stream'.gap = stream.gap
  <2>1. stream' \in StreamRec
    BY <1>2, <1>3, ReducerTypes
  <2> QED
    BY <1>2, <1>3, <2>1 DEF CancelRequested, StreamRec
<1>6. /\ cancel' \in [Cancels -> CancelRec] /\ \A d \in Cancels \ {c} : cancel'[d] = cancel[d]
      /\ cancel'[c].stage \in {"sent", "over"} /\ cancel'[c].job = view.job
      /\ cancel'[c].status = "none"
  <2> DEFINE r == [stage |-> Sent, job |-> view.job, status |-> "none"]
  <2>1. r \in CancelRec /\ r.stage \in {"sent", "over"} /\ r.job = view.job /\ r.status = "none"
    BY <1>3 DEF CancelRec, ViewRec, Sent
  <2>2. cancel' = [cancel EXCEPT ![c] = r]
    BY <1>2
  <2> HIDE DEF r
  <2> QED
    BY <1>3, <2>1, <2>2
<1>8. Histories' /\ Creations'
  BY <1>1, <1>2, CreationsAfter DEF Creations
<1>9. /\ \A d \in Cancels \ {c} : Asked(d)' <=> Asked(d)
      /\ Asked(c)'
  BY <1>6 DEF Asked
<1>10. Cancellations'
  <2>1. Created(view.job)' /\ post[view.job] = "over"
    <3>1. ~FoundEarly
      BY <1>1, <1>2, Statuses DEF FoundEarly, Terminal
    <3> QED
      BY <1>1, <1>2, <3>1 DEF Page, Created
  <2> SUFFICES ASSUME NEW d \in Cancels
               PROVE  /\ Asked(d)' => cancel'[d].job # None /\ Created(cancel'[d].job)
                           /\ post[cancel'[d].job] = "over"
                      /\ cancel'[d].stage = "answered" => cancel'[d].status \in Terminal
                      /\ cancel'[d].status \in Terminal =>
                           Asked(d)' /\ (up => OverInMemory(cancel'[d].job))
    BY <1>2 DEF Cancellations, OverInMemory, Created
  <2>2. CASE d = c
    <3>1. "none" \notin Terminal
      BY DEF Terminal
    <3> QED
      BY <1>2, <1>6, <2>1, <2>2, <3>1 DEF Created
  <2>3. CASE d # c
    BY <1>1, <1>2, <1>6, <1>9, <2>3 DEF Cancellations, Created
  <2> QED
    BY <2>2, <2>3
<1>11. Delivers' /\ Drained' = Drained
  BY <1>2, SameDelivers, SameDrained
<1>12. Displaced(view.job) => Displaced(view.job)'
  <2>1. \A d \in Cancels : cancel[d].stage = "over" => d # c
    BY <1>2 DEF Asked
  <2> QED
    BY <1>2, <1>6, <2>1 DEF Displaced
<1>13. Continues'
  BY <1>1, <1>2, <1>4, <1>11, <1>12 DEF Continues
<1>14. Page'
  <2>1. "cancelling" \notin Terminal /\ "cancelling" # "idle"
    BY DEF Terminal
  <2>2. ~FoundEarly
    BY <1>1, <1>2, Statuses DEF FoundEarly, Terminal
  <2> QED
    BY <1>1, <1>2, <1>4, <2>1, <2>2 DEF Page, Created
<1>15. Pauses'
  <2>1. \A k \in Jobs : ~Pending(k)
    BY <1>1, <1>2 DEF Pauses
  <2>2. history.refresh # None => "history" \in due
    BY <1>1, <1>2 DEF Pauses
  <2> QED
    BY <1>1, <1>2, <1>11, <2>1, <2>2 DEF Pauses, Pending
<1>16. Contiguous'
  BY <1>1, <1>2, <1>4 DEF Contiguous
<1>17. OneJob'
  <2>1. Shows' = "cancelling" /\ "cancelling" \notin Terminal
    BY <1>2, <1>4 DEF Shows, Effective, Terminal
  <2> QED
    BY <1>1, <1>2, <1>4, <1>12, <2>1 DEF OneJob
<1> QED
  BY <1>8, <1>10, <1>11, <1>13, <1>14, <1>15, <1>16, <1>17 DEF StreamInv

LEMMA CancelAnsweredKeeps ==
  ASSUME StreamInv, TypeOK', NEW c \in Cancels, CancelAnswered(c) PROVE StreamInv'
<1>1. /\ TypeOK /\ Creations /\ Cancellations /\ Pauses /\ Continues /\ Page
      /\ Contiguous /\ OneJob
  BY DEF StreamInv
<1> DEFINE v == [view EXCEPT !.job = cancel[c].job, !.answer = cancel[c].status]
<1>2. /\ cancel[c].stage = "answered"
      /\ cancel' = [cancel EXCEPT ![c].stage = "over"]
      /\ view' = v /\ stream' = stream /\ due' = due \cup Changed(v, stream, FALSE)
      /\ UNCHANGED <<up, log, mute, post, link, history, faults>>
  BY DEF CancelAnswered, Update
<1>3. PICK j \in Jobs : j = cancel[c].job
  BY <1>1, <1>2 DEF Cancellations, Asked, TypeOK
<1>4. /\ j # None /\ Created(j) /\ post[j] = "over" /\ view.job # None
      /\ cancel[c].status \in Terminal
  BY <1>1, <1>2, <1>3 DEF Cancellations, Asked
<1>5. view \in ViewRec /\ stream \in StreamRec /\ cancel \in [Cancels -> CancelRec]
  BY <1>1, TypeParts
<1>6. /\ view' \in ViewRec /\ view'.job = j /\ view'.answer = cancel[c].status
      /\ view'.ref = view.ref /\ view'.runs = view.runs /\ view'.touched = view.touched
  <2> DEFINE s == cancel[c].status
  <2>1. view' = [view EXCEPT !.job = j, !.answer = s]
    BY <1>2, <1>3
  <2>2. s \in JobStatus
    BY <1>4, EventTypes
  <2> HIDE DEF s
  <2>3. /\ view' \in ViewRec /\ view'.job = j /\ view'.answer = s
        /\ view'.ref = view.ref /\ view'.runs = view.runs /\ view'.touched = view.touched
    BY <1>5, <2>1, <2>2 DEF ViewRec
  <2> QED
    BY <2>3 DEF s
<1> HIDE DEF v
<1>7. /\ "history" \in due' /\ due' \subseteq {"stream", "history"}
      /\ "stream" \notin due' => "stream" \notin due /\ view'.job = view.job
  BY <1>1, <1>2 DEF Changed, TypeOK
<1>8. /\ cancel' \in [Cancels -> CancelRec] /\ cancel'[c].stage = "over"
      /\ \A d \in Cancels :
           /\ Asked(d)' <=> Asked(d)
           /\ cancel'[d].job = cancel[d].job /\ cancel'[d].status = cancel[d].status
           /\ cancel'[d].stage = "answered" => cancel[d].stage = "answered"
  BY <1>2, <1>5 DEF CancelRec, Asked
<1>10. Histories' /\ Creations'
  BY <1>1, <1>2, <1>6, CreationsAfter DEF Creations
<1>11. Cancellations'
  BY <1>2, <1>4, <1>6, <1>8, CancellationsAfter
<1>12. Delivers' /\ Drained' = Drained
  BY <1>2, SameDelivers, SameDrained
<1>13. PICK k : k = view'.job
  OBVIOUS
<1>14. k = j /\ Displaced(k)'
  BY <1>3, <1>6, <1>8, <1>13 DEF Displaced
<1>15. Continues'
  <2> SUFFICES ASSUME ~Drained PROVE Continues'
    BY <1>12 DEF Continues
  <2>1. /\ view'.ref = link'.got /\ IsBeginning(stream'.shown, log'[link'.job])
        /\ stream.status = "idle" => NeverCancelled(link.job)
    BY <1>1, <1>2, <1>6 DEF Continues
  <2>2. NeverCancelled(link.job)' = NeverCancelled(link.job)
    BY <1>2, <1>8 DEF NeverCancelled
  <2>3. ASSUME "stream" \notin due'
        PROVE  link'.job = view'.job /\ stream'.status # "idle"
    <3>1. link.job = view.job /\ view.job = j
      BY <1>1, <1>6, <1>7, <2>3 DEF Continues
    <3>2. ~NeverCancelled(link.job)
      BY <1>2, <1>3, <3>1 DEF NeverCancelled, Asked
    <3> QED
      BY <1>2, <1>6, <2>1, <3>1, <3>2
  <2>4. Displaced(view.job)'
    BY <1>13, <1>14 DEF Displaced
  <2> QED
    BY <1>2, <2>1, <2>2, <2>3, <2>4 DEF Continues
<1>16. Page'
  <2>1. Created(j)' /\ view'.answer # "none"
    BY <1>2, <1>4, <1>6 DEF Created, Terminal
  <2> QED
    BY <1>1, <1>2, <1>4, <1>6, <2>1 DEF Page, Created
<1>17. Pauses'
  <2>1. ~HasActiveJob => ~HasActiveJob'
    BY <1>1, <1>2, <1>4, <1>6 DEF HasActiveJob, Shows, Effective
  <2> QED
    BY <1>1, <1>2, <1>7, <1>12, <2>1 DEF Pauses, Pending
<1>18. Contiguous'
  BY <1>1, <1>2, <1>6 DEF Contiguous
<1>19. OneJob'
  BY <1>13, <1>14 DEF OneJob, Displaced
<1> QED
  BY <1>10, <1>11, <1>12, <1>15, <1>16, <1>17, <1>18, <1>19 DEF StreamInv

LEMMA TakeEventKeeps ==
  ASSUME StreamInv, TypeOK', TakeEvent PROVE StreamInv'
<1>1. /\ TypeOK /\ Histories /\ Creations /\ Cancellations /\ Pauses /\ Continues /\ Page
      /\ Delivers /\ Contiguous /\ OneJob
  BY DEF StreamInv
<1> DEFINE n == link.got + 1
           e == log[link.job][n]
           v == [view EXCEPT !.ref = n]
<1>2. /\ link.state # "none" /\ link.got < link.cursor
      /\ link' = [link EXCEPT !.got = n, !.ended = (e.kind = "terminal")]
      /\ view' = v /\ stream' = Reduce(stream, n, e)
      /\ due' = due \cup Changed(v, Reduce(stream, n, e), TRUE)
      /\ UNCHANGED <<up, log, mute, post, cancel, history, faults>>
  BY DEF TakeEvent, Update
<1>3. /\ link \in LinkRec /\ view \in ViewRec /\ stream \in StreamRec
  BY <1>1, TypeParts
<1>4. PICK j \in Jobs : j = link.job
  BY <1>1, <1>2 DEF Delivers, TypeOK
<1>5. /\ link.got \in Nat /\ link.cursor \in Nat
      /\ log[j] \in Seq(JobEvent) /\ Len(log[j]) \in Nat /\ TerminalIsLast(log[j])
      /\ stream.shown \in Seq(JobEvent)
  <2>1. link.got \in Nat /\ link.cursor \in Nat /\ stream.shown \in Seq(JobEvent)
    BY <1>3 DEF LinkRec, StreamRec
  <2>2. log[j] \in Seq(JobEvent)
    BY <1>1 DEF TypeOK
  <2> QED
    BY <1>1, <2>1, <2>2 DEF Histories
<1>6. link.cursor <= Len(log[j]) /\ link.got < Len(log[j])
  <2>1. link.cursor <= Len(log[j])
    BY <1>1, <1>2, <1>4 DEF Delivers
  <2> QED
    BY <1>2, <1>5, <2>1
<1>7. ~Drained
  BY <1>2, <1>4, <1>5, <1>6 DEF Drained
<1>8. /\ view.ref = link.got /\ Len(stream.shown) = link.got /\ IsBeginning(stream.shown, log[j])
      /\ link.job = view.job \/ Displaced(view.job)
      /\ "stream" \notin due => link.job = view.job
      /\ ~stream.gap /\ view.job # None
  BY <1>1, <1>2, <1>4, <1>7 DEF Continues, Contiguous, Page
<1>9. n \in Nat /\ n \in 1..Len(log[j]) /\ n = Len(stream.shown) + 1
  BY <1>5, <1>6, <1>8
<1>10. e = log[j][Len(stream.shown) + 1] /\ e = log[j][n] /\ e \in JobEvent
  <2>1. e = log[j][n] /\ log[j][n] \in JobEvent
    BY <1>4, <1>5, <1>9
  <2> QED
    BY <1>9, <2>1
<1> HIDE DEF n, e, v
<1>11. /\ stream' = Accepted(stream, e) /\ stream' \in StreamRec
       /\ stream'.shown = Append(stream.shown, e) /\ stream'.status = e.status
       /\ stream'.gap = FALSE
  <2>1. Reduce(stream, n, e) \in StreamRec
    BY <1>3, <1>9, <1>10, ReducerTypes
  <2>2. Len(stream.shown) \in Nat
    BY <1>5
  <2>3. Reduce(stream, n, e) = Accepted(stream, e)
    BY <1>9, <2>2 DEF Reduce
  <2>4. stream' = Accepted(stream, e) /\ stream' \in StreamRec
    BY <1>2, <2>1, <2>3
  <2>5. /\ stream'.shown = Append(stream.shown, e) /\ stream'.status = e.status
        /\ stream'.gap = FALSE
    BY <2>4 DEF Accepted
  <2> QED
    BY <2>4, <2>5
<1>12. /\ Len(stream'.shown) = n /\ IsBeginning(stream'.shown, log[j])
       /\ IsClosed(stream'.shown) <=> e.kind = "terminal"
       /\ Outcome(stream'.shown) = e.status
  <2>1. IsBeginning(stream'.shown, log[j])
    BY <1>5, <1>6, <1>8, <1>10, <1>11, BeginningTakesNext
  <2>2. Len(stream'.shown) = n
    BY <1>5, <1>9, <1>10, <1>11
  <2> QED
    BY <1>5, <1>10, <1>11, <2>1, <2>2, OneMore
<1>13. e.status \in JobStatus /\ (e.kind = "terminal" <=> e.status \in Terminal)
  BY <1>10 DEF JobEvent
<1>14. ASSUME e.status \in Terminal PROVE IsClosed(log[j]) /\ Outcome(log[j]) = e.status
  BY <1>5, <1>9, <1>10, <1>14, TerminalIsTheEnd
<1>15. /\ link' \in LinkRec /\ link'.state = link.state /\ link'.job = link.job
       /\ link'.got = n /\ link'.cursor = link.cursor
  <2> DEFINE t == (e.kind = "terminal")
  <2>1. t \in BOOLEAN /\ link' = [link EXCEPT !.got = n, !.ended = t]
    BY <1>2
  <2> HIDE DEF t
  <2> QED
    BY <1>3, <1>9, <2>1 DEF LinkRec
<1>16. /\ view' \in ViewRec /\ view'.job = view.job /\ view'.answer = view.answer
       /\ view'.ref = n /\ view'.runs = view.runs /\ view'.touched = view.touched
  BY <1>2, <1>3, <1>9 DEF v, ViewRec
<1>17. due \subseteq due' /\ due' \subseteq {"stream", "history"}
  BY <1>1, <1>2 DEF TypeOK, Changed
<1>19. Histories' /\ Creations'
  BY <1>1, <1>2, <1>16, CreationsAfter DEF Creations
<1>20. Cancellations'
  BY <1>2, <1>16, CancellationsAfter DEF Asked
<1>21. Delivers'
  <2>1. link'.job = j /\ j # None /\ log'[j] # <<>>
    BY <1>1, <1>2, <1>4, <1>15 DEF Delivers, Created
  <2>2. link'.got <= link'.cursor /\ link'.cursor <= Len(log'[j])
    BY <1>2, <1>5, <1>6, <1>15 DEF n
  <2> QED
    BY <2>1, <2>2 DEF Delivers, Created
<1>22. "idle" \notin JobStatus
  BY DEF JobStatus, Terminal
<1>23. Displaced(view.job)' = Displaced(view.job)
  BY <1>2, <1>16 DEF Displaced
<1>24. Continues'
  <2>1. view'.ref = link'.got /\ IsBeginning(stream'.shown, log'[link'.job])
    BY <1>2, <1>4, <1>12, <1>15, <1>16
  <2>2. stream'.status # "idle"
    BY <1>11, <1>13, <1>22
  <2> QED
    BY <1>8, <1>15, <1>16, <1>17, <1>23, <2>1, <2>2 DEF Continues
<1>25. Page'
  <2>1. /\ Created(view.job)' /\ post'[view.job] = "over"
        /\ view.touched /\ view.answer # "none"
    <3>1. PICK k \in Jobs : k = view.job
      BY <1>1, <1>8 DEF TypeOK
    <3>2. Created(k) /\ view.touched /\ view.answer # "none"
      BY <1>1, <1>8, <3>1 DEF Page
    <3>3. post[k] = "over"
      BY <1>1, <1>7, <3>2 DEF Pauses, Pending, Creations, TypeOK
    <3> QED
      BY <1>2, <1>16, <3>1, <3>2, <3>3 DEF Created
  <2>2. stream'.status # "idle"
    BY <1>11, <1>13, <1>22
  <2>3. stream'.status \in Terminal =>
          IsClosed(stream'.shown) /\ Outcome(stream'.shown) = stream'.status
    BY <1>11, <1>12, <1>13
  <2>4. PICK k : k = view.job
    OBVIOUS
  <2>5. k # None /\ view'.job = k /\ Created(k)' /\ post'[k] = "over"
    BY <1>8, <1>16, <2>1, <2>4 DEF Created
  <2> QED
    BY <1>16, <2>1, <2>2, <2>3, <2>5 DEF Page, Created
<1>26. Pauses'
  <2>1. history.refresh = None /\ \A k \in Jobs : ~Pending(k)
    BY <1>1, <1>7 DEF Pauses
  <2> QED
    BY <1>2, <2>1 DEF Pauses, Pending
<1>27. Contiguous'
  BY <1>2, <1>11, <1>12, <1>16 DEF Contiguous
<1>28. OneJob'
  <2>1. CASE Displaced(view.job)
    BY <1>16, <1>23, <2>1 DEF OneJob, Displaced
  <2>2. CASE ~Displaced(view.job)
    <3>1. view'.job = j
      BY <1>4, <1>8, <1>16, <2>2
    <3>2. Shows' = e.status
      BY <1>8, <1>11, <1>13, <1>16, <1>22 DEF Shows, Effective
    <3> QED
      BY <1>2, <1>12, <1>14, <3>1, <3>2 DEF OneJob
  <2> QED
    BY <2>1, <2>2
<1> QED
  BY <1>19, <1>20, <1>21, <1>24, <1>25, <1>26, <1>27, <1>28 DEF StreamInv

\* The effects run when a page and its connection may have parted: the fetch they start
\* goes on where the page stands.
LEMMA RunEffectsKeeps ==
  ASSUME StreamInv, TypeOK', RunEffects PROVE StreamInv'
<1>1. /\ TypeOK /\ Creations /\ Pauses /\ Continues /\ Page
      /\ Contiguous /\ OneJob
  BY DEF StreamInv
<1>2. /\ due' = {} /\ UNCHANGED <<up, log, mute, post, cancel, faults>>
      /\ IF "stream" \in due THEN Follow ELSE UNCHANGED <<link, stream>>
      /\ view' = [view EXCEPT !.timer = @ /\ "stream" \notin due,
                              !.fetched = IF WantsRefresh THEN view.job ELSE @]
      /\ history' = [history EXCEPT !.refresh = IF WantsRefresh /\ up THEN view.job
                                               ELSE IF "history" \in due THEN None ELSE @]
  BY DEF RunEffects
<1>3. /\ link \in LinkRec /\ view \in ViewRec /\ stream \in StreamRec /\ history \in HistoryRec
  BY <1>1, TypeParts
<1>4. view' \in ViewRec /\ view'.runs = view.runs
      /\ view'.job = view.job /\ view'.answer = view.answer /\ view'.ref = view.ref
      /\ view'.touched = view.touched
  <2> DEFINE t == view.timer /\ "stream" \notin due
             f == IF WantsRefresh THEN view.job ELSE view.fetched
  <2>1. view' = [view EXCEPT !.timer = t, !.fetched = f]
    BY <1>2
  <2>2. t \in BOOLEAN /\ f \in Jobs \cup {None}
    BY <1>3 DEF ViewRec
  <2> HIDE DEF t, f
  <2> QED
    BY <1>3, <2>1, <2>2 DEF ViewRec
<1>5. /\ history' \in HistoryRec /\ history'.listed = history.listed
      /\ history'.refresh = IF WantsRefresh /\ up THEN view.job
                            ELSE IF "history" \in due THEN None ELSE history.refresh
  <2> DEFINE r == IF WantsRefresh /\ up THEN view.job
                  ELSE IF "history" \in due THEN None ELSE history.refresh
  <2>1. history' = [history EXCEPT !.refresh = r]
    BY <1>2
  <2>2. r \in Jobs \cup {None}
    BY <1>3 DEF ViewRec, HistoryRec
  <2> HIDE DEF r
  <2>3. history' \in HistoryRec /\ history'.listed = history.listed /\ history'.refresh = r
    BY <1>3, <2>1, <2>2 DEF HistoryRec
  <2> QED
    BY <2>3 DEF r
<1>6. /\ stream' \in StreamRec /\ stream'.shown = stream.shown
      /\ stream'.status = stream.status /\ stream'.gap = stream.gap
  BY <1>2, <1>3 DEF Follow, Connected, StreamRec
<1>7. ASSUME "stream" \in due
      PROVE  \/ link' = NoLink
             \/ /\ link' = [NoLink EXCEPT !.state = "opening", !.job = view.job,
                                          !.cursor = view.ref, !.got = view.ref]
                /\ view.job # None /\ view.answer \notin Terminal
  BY <1>2, <1>7 DEF Follow
<1>9. view.job = None => link'.state = "none"
  BY <1>1, <1>2, <1>7 DEF Page, NoLink
<1>11. Histories' /\ Creations'
  BY <1>1, <1>2, <1>4, <1>5, CreationsAfter DEF Creations
<1>12. Cancellations'
  BY <1>2, <1>4, CancellationsAfter DEF Asked
<1>13. /\ Page' /\ Contiguous' /\ OneJob'
       /\ Shows' = Shows /\ HasActiveJob' = HasActiveJob
  BY <1>2, <1>4, <1>6, <1>9, SamePageStands DEF SamePage
<1>14. ASSUME "stream" \in due, link'.state # "none"
       PROVE  /\ link'.job = view.job /\ link'.got = view.ref /\ link'.cursor = view.ref
              /\ view.job \in Jobs /\ view.job # None /\ view.answer \notin Terminal
              /\ IsBeginning(stream.shown, log[view.job])
  <2>1. /\ link' = [NoLink EXCEPT !.state = "opening", !.job = view.job,
                                  !.cursor = view.ref, !.got = view.ref]
        /\ view.job # None /\ view.answer \notin Terminal
    BY <1>7, <1>14 DEF NoLink
  <2>2. ~Displaced(view.job)
    BY <2>1, DisplacedIsOver
  <2>3. IsBeginning(stream.shown, log[view.job])
    BY <1>1, <2>1, <2>2 DEF OneJob
  <2>4. link'.job = view.job /\ link'.got = view.ref /\ link'.cursor = view.ref
    BY <2>1 DEF NoLink
  <2> QED
    BY <1>1, <2>1, <2>3, <2>4 DEF TypeOK
<1>15. Delivers'
  <2>1. CASE "stream" \in due
    <3> SUFFICES ASSUME link'.state # "none" PROVE Delivers'
      BY DEF Delivers
    <3>1. PICK j \in Jobs : j = view.job
      BY <1>14, <2>1
    <3>2. /\ link'.job = j /\ link'.got = view.ref /\ link'.cursor = view.ref /\ j # None
          /\ view.ref = Len(stream.shown) /\ Len(stream.shown) <= Len(log[j])
      BY <1>1, <1>14, <2>1, <3>1 DEF Contiguous, IsBeginning
    <3>3. log'[j] # <<>> /\ view.ref \in Nat
      BY <1>1, <1>2, <1>3, <3>1, <3>2 DEF Page, Created, ViewRec
    <3>4. link'.got <= link'.cursor /\ link'.cursor <= Len(log'[j])
      BY <1>2, <3>2, <3>3
    <3> QED
      BY <3>2, <3>3, <3>4 DEF Delivers, Created
  <2>2. CASE "stream" \notin due
    BY <1>2, <2>2, SameDelivers
  <2> QED
    BY <2>1, <2>2
<1>16. ~HasActiveJob => Drained'
  <2>1. CASE "stream" \in due
    BY <1>2, <2>1, FollowDrains
  <2>2. CASE "stream" \notin due
    BY <1>2, <2>2, InactiveDrains, SameDrained
  <2> QED
    BY <2>1, <2>2
<1>17. Continues'
  <2> SUFFICES ASSUME ~Drained' PROVE Continues'
    BY DEF Continues
  <2>1. \A k : NeverCancelled(k)' = NeverCancelled(k)
    BY <1>2 DEF NeverCancelled, Asked
  <2>2. CASE "stream" \in due
    <3>1. /\ link'.job = view.job /\ link'.got = view.ref /\ view.job # None
          /\ view.answer \notin Terminal /\ IsBeginning(stream.shown, log[view.job])
      BY <1>14, <2>2 DEF Drained
    <3>2. stream.status = "idle" => NeverCancelled(view.job)
      BY <1>1, <3>1 DEF Page
    <3>3. PICK k : k = view.job
      OBVIOUS
    <3>4. /\ link'.job = k /\ view'.job = k
          /\ stream.status = "idle" => NeverCancelled(k)'
      BY <1>4, <2>1, <3>1, <3>2, <3>3
    <3>5. stream'.status = "idle" => NeverCancelled(link.job)'
      BY <1>6, <3>4 DEF NeverCancelled, Asked
    <3>6. view'.ref = link'.got /\ IsBeginning(stream'.shown, log'[link'.job])
      BY <1>2, <1>4, <1>6, <3>1
    <3>7. link'.job = view'.job /\ view'.answer \notin Terminal
      BY <1>4, <3>1
    <3> QED
      BY <3>5, <3>6, <3>7 DEF Continues
  <2>3. CASE "stream" \notin due
    <3>1. UNCHANGED <<link, stream>> /\ Drained' = Drained
      BY <1>2, <2>3, SameDrained
    <3>2. NeverCancelled(link.job)' = NeverCancelled(link.job)
      BY <1>2, <3>1 DEF NeverCancelled, Asked
    <3> QED
      BY <1>1, <1>2, <1>4, <2>3, <3>1, <3>2 DEF Continues
  <2> QED
    BY <2>2, <2>3
<1>18. Pauses'
  <2>1. history'.refresh # None => ~HasActiveJob /\ view.job # None
    BY <1>1, <1>5, Statuses DEF WantsRefresh, Pauses, Terminal
  <2>2. \A k \in Jobs : Pending(k)' => ~HasActiveJob
    BY <1>1, <1>2 DEF Pauses, Pending
  <2> QED
    BY <1>2, <1>4, <1>13, <1>16, <2>1, <2>2 DEF Pauses
<1> QED
  BY <1>11, <1>12, <1>13, <1>15, <1>17, <1>18 DEF StreamInv

-----------------------------------------------------------------------------
(***************************************************************************)
(* Steps that reset the page: each finds the connection drained.           *)
(***************************************************************************)
\* The page starts with a job that is completed, or with one that nobody could have
\* cancelled and that no other creation follows.
LEMMA ResetKeeps ==
  ASSUME StreamInv, TypeOK', Histories', Creations', Cancellations', Drained,
         UNCHANGED <<up, log, mute, cancel, link>>,
         NEW j \in Jobs, Created(j),
         view'.job = j, view'.ref = 0, view'.touched, stream' = Initial, "history" \in due',
         history'.refresh \in {history.refresh, None},
         \/ view'.answer = "completed" /\ j \in CompletedRuns
         \/ /\ view'.answer \notin Terminal \cup {"none"} /\ post'[j] = "over"
            /\ NeverCancelled(j) /\ \A k \in Jobs : ~Pending(k)'
  PROVE  StreamInv'
<1>1. stream'.shown = <<>> /\ stream'.status = "idle" /\ ~stream'.gap
  BY DEF Initial
<1>2. j # None /\ "idle" \notin Terminal /\ "completed" \in Terminal
  BY EventTypes DEF Terminal
<1>3. Delivers' /\ Drained'
  BY SameDelivers, SameDrained
<1>4. Continues'
  BY <1>3 DEF Continues
<1>5. NeverCancelled(j)' = NeverCancelled(j) /\ Created(j)'
  BY DEF NeverCancelled, Asked, Created
<1>6. Page'
  <2>1. view'.answer # "none" /\ (view'.answer \notin Terminal => NeverCancelled(j)')
    BY <1>2, <1>5
  <2>2. stream'.status = "idle" /\ view'.answer \notin Terminal => NeverCancelled(view.job)'
    BY <2>1 DEF NeverCancelled, Asked
  <2>3. Created(view.job)' /\ view'.job # None
    BY <1>2, <1>5 DEF Created
  <2>4. post'[view'.job] = "over" \/ FoundEarly'
    BY <1>1 DEF FoundEarly, CompletedRuns
  <2> QED
    BY <1>1, <1>2, <2>1, <2>2, <2>3, <2>4 DEF Page
<1>7. Shows' = view'.answer
  BY <1>1, <1>2 DEF Shows, Effective
<1>8. Pauses'
  <2>1. \A k \in Jobs : Pending(k)' => ~HasActiveJob'
    BY <1>2, <1>7 DEF HasActiveJob
  <2> QED
    BY <1>3, <2>1 DEF Pauses
<1>9. IsBeginning(<<>>, log[j])
  BY EmptyBegins DEF StreamInv, TypeOK
<1>10. Contiguous'
  <2>1. Len(<<>>) = 0
    OBVIOUS
  <2> QED
    BY <1>1, <1>9, <2>1 DEF Contiguous
<1>11. OneJob'
  BY <1>1, <1>2, <1>7, <1>9 DEF OneJob, CompletedRuns
<1> QED
  BY <1>3, <1>4, <1>6, <1>8, <1>10, <1>11 DEF StreamInv

LEMMA CreateAnsweredKeeps ==
  ASSUME StreamInv, TypeOK', NEW j \in Jobs, CreateAnswered(j) PROVE StreamInv'
<1>1. TypeOK /\ Creations /\ Cancellations /\ Pauses
  BY DEF StreamInv
<1> DEFINE v == [Reset(j, "queued") EXCEPT !.selected = None, !.fetched = None]
<1>2. /\ post[j] = "answered" /\ post' = [post EXCEPT ![j] = "over"]
      /\ view' = v /\ stream' = Initial /\ due' = due \cup Changed(v, Initial, FALSE)
      /\ UNCHANGED <<up, log, mute, cancel, link, history>>
  BY DEF CreateAnswered, Update
<1>3. view \in ViewRec /\ stream \in StreamRec
  BY <1>1, TypeParts
<1>4. /\ view' \in ViewRec /\ view'.job = j /\ view'.answer = "queued" /\ view'.ref = 0
      /\ view'.runs = view.runs /\ view'.touched = TRUE
  <2> DEFINE r == Reset(j, "queued")
  <2>1. /\ r \in ViewRec /\ r.job = j /\ r.answer = "queued" /\ r.ref = 0
        /\ r.runs = view.runs /\ r.touched = TRUE
    <3>1. "queued" \in JobStatus
      BY DEF JobStatus
    <3>2. r \in ViewRec
      BY <1>3, <3>1, ResetTypes
    <3> QED
      BY <1>3, <3>2 DEF Reset, ViewRec
  <2> HIDE DEF r
  <2>2. view' = [r EXCEPT !.selected = None, !.fetched = None]
    BY <1>2 DEF r
  <2> QED
    BY <2>1, <2>2 DEF ViewRec
<1> HIDE DEF v
<1>5. "history" \in due' /\ due' \subseteq {"stream", "history"}
  BY <1>1, <1>2 DEF Changed, TypeOK
<1>6. /\ post' \in [Jobs -> {"unused", "sent", "answered", "over"}]
      /\ post'[j] = "over" /\ \A k \in Jobs \ {j} : post'[k] = post[k]
  BY <1>1, <1>2 DEF TypeOK
<1>8. Histories' /\ Creations'
  BY <1>1, <1>2, <1>4, <1>6, CreationsAfter DEF Creations
<1>9. j # None
  BY EventTypes
<1>10. Cancellations'
  BY <1>2, <1>4, <1>6, <1>9, CancellationsAfter DEF Asked
<1>11. Drained /\ Created(j)
  BY <1>1, <1>2 DEF Pauses, Pending, Creations
<1>12. \A k \in Jobs : ~Pending(k)'
  BY <1>1, <1>2, <1>6 DEF Creations, Pending
<1>13. NeverCancelled(j)
  BY <1>1, <1>2 DEF NeverCancelled, Cancellations
<1>14. view'.answer \notin Terminal \cup {"none"} /\ view'.touched
  BY <1>4 DEF Terminal
<1> QED
  BY <1>2, <1>4, <1>5, <1>6, <1>8, <1>10, <1>11, <1>12, <1>13, <1>14, ResetKeeps

\* A completed run is selected while the connection is drained.
LEMMA SelectKeeps ==
  ASSUME StreamInv, TypeOK', Drained, NEW runs \in SUBSET CompletedRuns, NEW j \in CompletedRuns,
         Select(j, runs), history' \in HistoryRec, history'.listed \subseteq history.listed,
         history'.refresh \in {history.refresh, None},
         UNCHANGED <<up, log, mute, post, cancel, link>>
  PROVE  StreamInv'
<1>1. TypeOK /\ Creations /\ Page
  BY DEF StreamInv
<1>2. j \in Jobs /\ runs \in SUBSET Jobs /\ Created(j)
  BY <1>1 DEF CompletedRuns, IsClosed, Created
<1> DEFINE v == [Reset(j, "completed") EXCEPT !.selected = j, !.runs = runs]
<1>4. /\ view' = v /\ stream' = Initial /\ due' = due \cup Changed(v, Initial, FALSE)
  BY DEF Select, Update
<1>5. /\ view'.job = j /\ view'.answer = "completed" /\ view'.ref = 0
      /\ view'.runs = runs /\ view'.touched
  <2>1. view \in ViewRec
    BY <1>1, TypeParts
  <2> QED
    BY <1>4, <2>1 DEF Reset, ViewRec
<1> HIDE DEF v
<1>6. "history" \in due'
  BY <1>4 DEF Changed
<1>8. Histories' /\ Creations'
  BY <1>1, <1>5, CreationsAfter DEF Creations
<1>9. Cancellations'
  <2>1. j # None
    BY <1>2, EventTypes
  <2> QED
    BY <1>5, <2>1, CancellationsAfter DEF Asked
<1> QED
  BY <1>2, <1>4, <1>5, <1>6, <1>8, <1>9, ResetKeeps

LEMMA OpenRunKeeps ==
  ASSUME StreamInv, TypeOK', ~hasty', NEW j \in Jobs, OpenRun(j) PROVE StreamInv'
<1>1. /\ ~HasActiveJob /\ j \in view.runs /\ due = {} /\ Select(j, view.runs)
      /\ UNCHANGED <<up, log, mute, post, cancel, link, history>>
  BY DEF OpenRun, Noted
<1>2. Drained
  BY <1>1, InactiveDrains
<1>3. view.runs \in SUBSET CompletedRuns /\ history \in HistoryRec
  BY TypeParts DEF StreamInv, Creations
<1> QED
  BY <1>1, <1>2, <1>3, SelectKeeps

LEMMA RefreshAnsweredKeeps ==
  ASSUME StreamInv, TypeOK', RefreshAnswered PROVE StreamInv'
<1>1. /\ history.refresh # None /\ history' = [history EXCEPT !.refresh = None]
      /\ UNCHANGED <<up, log, mute, post, cancel, link>>
  BY DEF RefreshAnswered
<1>2. history' \in HistoryRec /\ history'.listed = history.listed /\ history'.refresh = None
  <2>1. history \in HistoryRec
    BY TypeParts DEF StreamInv
  <2> QED
    BY <1>1, <2>1 DEF HistoryRec
<1>3. Drained
  BY <1>1 DEF StreamInv, Pauses
<1>4. CASE Select(history.refresh, CompletedRuns) /\ history.refresh \in CompletedRuns
  BY <1>1, <1>2, <1>3, <1>4, SelectKeeps
<1>5. CASE /\ view' = [view EXCEPT !.runs = IF ListingFails THEN @ ELSE CompletedRuns]
           /\ UNCHANGED <<stream, due>>
  <2>1. PICK runs \in SUBSET CompletedRuns : view' = [view EXCEPT !.runs = runs]
    BY <1>5 DEF StreamInv, Creations
  <2> QED
    BY <1>1, <1>2, <1>5, <2>1, ListingKeeps
<1> QED
  BY <1>4, <1>5 DEF RefreshAnswered

LEMMA FirstListingAnsweredKeeps ==
  ASSUME StreamInv, TypeOK', FirstListingAnswered PROVE StreamInv'
<1>1. /\ history' = [history EXCEPT !.first = "over", !.listed = {}]
      /\ UNCHANGED <<up, log, mute, post, cancel, link>>
  BY DEF FirstListingAnswered
<1>2. /\ history' \in HistoryRec /\ history'.listed = {}
      /\ history'.refresh = history.refresh
  <2>1. history \in HistoryRec
    BY TypeParts DEF StreamInv
  <2> QED
    BY <1>1, <2>1 DEF HistoryRec
<1>3. history.listed \in SUBSET CompletedRuns
  BY DEF StreamInv, Creations
<1>4. CASE SelectNewest
  <2>1. PICK j \in Newest(history.listed) : Select(j, history.listed)
    BY <1>4 DEF FirstListingAnswered
  <2>2. j \in CompletedRuns
    BY <1>3 DEF Newest
  <2>3. Drained
    BY <1>4 DEF SelectNewest, StreamInv, Page, Drained
  <2> QED
    BY <1>1, <1>2, <1>3, <2>1, <2>2, <2>3, SelectKeeps
<1>5. CASE ~SelectNewest
  <2>1. view' = [view EXCEPT !.runs = history.listed] /\ UNCHANGED <<stream, due>>
    BY <1>5 DEF FirstListingAnswered
  <2> QED
    BY <1>1, <1>2, <1>3, <2>1, ListingKeeps
<1> QED
  BY <1>4, <1>5

-----------------------------------------------------------------------------
(***************************************************************************)
(* The invariant.                                                          *)
(***************************************************************************)
LEMMA PastRunIsWhole ==
  /\ PastRun \in Seq(JobEvent) /\ Len(PastRun) = 4 /\ PastRun # <<>>
  /\ TerminalIsLast(PastRun) /\ IsClosed(PastRun)
<1> DEFINE a == StatusEvent("queued", 0)
           b == StatusEvent("running", 0)
           d == TerminalEvent("completed", 0, 0)
<1>1. /\ a \in JobEvent /\ b \in JobEvent /\ PhaseEvent \in JobEvent /\ d \in JobEvent
      /\ a.kind = "status" /\ b.kind = "status" /\ PhaseEvent.kind = "phase" /\ d.kind = "terminal"
  BY EventTypes DEF StatusEvent, TerminalEvent, PhaseEvent
<1> HIDE DEF a, b, d
<1> DEFINE h == <<a, b, PhaseEvent, d>>
<1>2. /\ h \in Seq(JobEvent) /\ Len(h) = 4 /\ h # <<>>
      /\ h[1] = a /\ h[2] = b /\ h[3] = PhaseEvent /\ h[4] = d
  BY <1>1
<1>3. h = PastRun
  BY DEF PastRun, a, b, d
<1> HIDE DEF h
<1>4. TerminalIsLast(h) /\ IsClosed(h)
  <2>1. \A i \in 1..Len(h)-1 : i = 1 \/ i = 2 \/ i = 3
    BY <1>2
  <2> QED
    BY <1>1, <1>2, <2>1 DEF TerminalIsLast, IsClosed
<1> QED
  BY <1>2, <1>3, <1>4

LEMMA EmptyIsOpen ==
  /\ <<>> \in Seq(JobEvent) /\ TerminalIsLast(<<>>) /\ ~IsClosed(<<>>) /\ Len(<<>>) = 0
BY DEF TerminalIsLast, IsClosed

LEMMA StreamInvInit ==
  ASSUME Init PROVE StreamInv
<1>1. PICK old \in SUBSET ({1} \cap Jobs) :
        /\ log = [j \in Jobs |-> IF j \in old THEN PastRun ELSE <<>>]
        /\ post = [j \in Jobs |-> IF j \in old THEN "over" ELSE "unused"]
  BY DEF Init
<1>2. /\ up = TRUE
      /\ mute = [j \in Jobs |-> "none"]
      /\ cancel = [c \in Cancels |-> [stage |-> "unused", job |-> None, status |-> "none"]]
      /\ link = NoLink /\ stream = Initial
      /\ view = [job |-> None, answer |-> "none", ref |-> 0, retried |-> FALSE, timer |-> FALSE,
                 selected |-> None, fetched |-> None, runs |-> {}, touched |-> FALSE]
      /\ history = [first |-> "asked", listed |-> {}, refresh |-> None]
      /\ due = {} /\ faults = 0 /\ hasty = FALSE /\ overtaken = {}
  BY DEF Init
<1>3. \A j \in Jobs :
        /\ log[j] \in Seq(JobEvent) /\ TerminalIsLast(log[j])
        /\ j \in old => log[j] = PastRun /\ post[j] = "over"
        /\ j \notin old => log[j] = <<>> /\ post[j] = "unused"
  BY <1>1, PastRunIsWhole, EmptyIsOpen
<1>4. TypeOK
  <2>1. log \in [Jobs -> Seq(JobEvent)] /\ post \in [Jobs -> {"unused", "sent", "answered", "over"}]
    BY <1>1, <1>3
  <2>2. mute \in [Jobs -> Terminal \cup {"none"}]
    BY <1>2
  <2>3. cancel \in [Cancels -> CancelRec]
    BY <1>2 DEF CancelRec
  <2>4. link \in LinkRec
    BY <1>2 DEF NoLink, LinkRec
  <2>5. view \in ViewRec
    BY <1>2 DEF ViewRec
  <2>6. history \in HistoryRec
    BY <1>2 DEF HistoryRec
  <2>7. stream \in StreamRec
    BY <1>2, EmptyIsOpen DEF StreamRec, Initial
  <2>8. faults \in 0..MaxFaults
    BY <1>2, Bounds
  <2>9. marks \in BOOLEAN \X SUBSET Jobs
    <3>1. hasty \in BOOLEAN /\ overtaken \in SUBSET Jobs
      BY <1>2
    <3> QED
      BY <3>1 DEF marks
  <2> QED
    BY <1>2, <2>1, <2>2, <2>3, <2>4, <2>5, <2>6, <2>7, <2>8, <2>9, TypeParts
<1>5. Histories
  BY <1>3 DEF Histories
<1>6. Creations
  <2>1. \A j \in Jobs : ~Pending(j)
    BY <1>3 DEF Pending
  <2>3. view.runs \cup history.listed \subseteq CompletedRuns
    BY <1>2
  <2> QED
    BY <1>3, <2>1, <2>3 DEF Creations, Created
<1>7. Cancellations
  BY <1>2 DEF Cancellations, Asked, Terminal
<1>8. link.state = "none" /\ Drained
  BY <1>2 DEF NoLink, Drained
<1>9. Delivers /\ Continues
  BY <1>8 DEF Delivers, Continues
<1>10. /\ stream.status = "idle" /\ stream.shown = <<>> /\ ~stream.gap
       /\ view.job = None /\ view.ref = 0
  BY <1>2 DEF Initial
<1>11. Page
  BY <1>8, <1>10 DEF Page, Terminal
<1>12. Pauses
  <2>1. history.refresh = None /\ \A j \in Jobs : ~Pending(j)
    BY <1>2, <1>3 DEF Pending
  <2> QED
    BY <2>1 DEF Pauses
<1>13. Contiguous
  <2>1. 1 \in Jobs
    BY Bounds DEF Jobs
  <2>2. IsBeginning(stream.shown, log[1])
    BY <1>3, <1>10, <2>1, EmptyBegins
  <2> QED
    BY <1>10, <2>1, <2>2, EmptyIsOpen DEF Contiguous
<1>14. OneJob
  BY <1>10 DEF OneJob
<1> QED
  BY <1>4, <1>5, <1>6, <1>7, <1>9, <1>11, <1>12, <1>13, <1>14 DEF StreamInv

LEMMA StutterKeeps ==
  ASSUME StreamInv, TypeOK', UNCHANGED vars PROVE StreamInv'
<1>1. UNCHANGED <<up, log, mute, post, cancel, link, stream, view, history, due, faults>>
  BY DEF vars
<1>3. view = [view EXCEPT !.runs = view.runs] /\ history \in HistoryRec
  BY TypeParts DEF StreamInv, ViewRec
<1>4. view.runs \in SUBSET CompletedRuns
  BY DEF StreamInv, Creations
<1> QED
  BY <1>1, <1>3, <1>4, ListingKeeps

LEMMA PageInvInit ==
  ASSUME Init PROVE PageInv
<1>1. StreamInv
  BY StreamInvInit
<1>2. /\ TypeOK /\ Posted
  BY <1>1 DEF StreamInv, Creations, Posted
<1>3. /\ link.state = "none" /\ history.refresh = None /\ history.listed = {}
      /\ view.job = None /\ view.runs = {} /\ \A c \in Cancels : ~Asked(c)
  BY DEF Init, NoLink, Asked
<1>4. Known /\ Reaches /\ Refreshes
  BY <1>3 DEF Known, Reaches, Refreshes
<1> QED
  BY <1>2, <1>4 DEF PageInv

LEMMA StreamInvStep ==
  ASSUME StreamInv, TypeOK', ~hasty', [Next]_vars PROVE StreamInv'
<1>1. CASE Service
  BY <1>1, ProceedKeeps, LoseTerminalKeeps, ServeCreateKeeps, ServeCancelKeeps,
     AnswerCancelKeeps, CrashKeeps, RestartKeeps, ServeFirstListingKeeps DEF Service
<1>2. CASE Connection
  BY <1>2, ConnectionKeeps
<1>3. CASE Browser
  BY <1>3, SubmitKeeps, CreateAnsweredKeeps, OpenRunKeeps, ClickCancelKeeps,
     CancelAnsweredKeeps, TakeEventKeeps, StreamOverKeeps, ReconnectKeeps, RunEffectsKeeps,
     RefreshAnsweredKeeps, FirstListingAnsweredKeeps DEF Browser
<1>4. CASE UNCHANGED vars
  BY <1>4, StutterKeeps
<1> QED
  BY <1>1, <1>2, <1>3, <1>4 DEF Next

\* Who was hasty once stays so.
LEMMA HastyStays ==
  ASSUME hasty, [Next]_vars PROVE hasty'
BY DEF Next, Service, Connection, Browser, Proceed, LoseTerminal, ServeCreate, ServeCancel,
   AnswerCancel, Crash, Restart, ServeFirstListing, AcceptStream, SendEvent, EndStream, Drop,
   Submit, CreateAnswered, OpenRun, ClickCancel, CancelAnswered, TakeEvent, StreamOver, Reconnect,
   RunEffects, RefreshAnswered, FirstListingAnswered, Noted, marks, vars

Inv == PageInv /\ (hasty \/ StreamInv)

LEMMA InvHolds == Spec => []Inv
<1>1. Init => Inv
  BY StreamInvInit, PageInvInit DEF Inv
<1>2. Inv /\ [Next]_vars => Inv'
  <2> SUFFICES ASSUME Inv, [Next]_vars PROVE Inv'
    OBVIOUS
  <2>1. PageInv' /\ TypeOK'
    BY PageInvStep DEF Inv, PageInv
  <2>2. hasty' \/ StreamInv'
    BY <2>1, HastyStays, StreamInvStep DEF Inv
  <2> QED
    BY <2>1, <2>2 DEF Inv
<1> QED
  BY <1>1, <1>2, PTL DEF Spec

\* The state of the service, of the connection and of the page has its type, whatever the
\* user does.
THEOREM StreamTypes == Spec => []TypeOK
<1>1. Inv => TypeOK
  BY DEF Inv, PageInv
<1> QED
  BY <1>1, InvHolds, PTL

\* Lost connections, a recovery, a run that is completed before its creation is answered, an
\* answer in between two renders: the page has accepted the beginning of one job's history,
\* asks for what comes right behind it and never sees a gap, unless the user was hasty.
THEOREM ShownStaysContiguous == Spec => []ShownIsContiguous
<1>1. Inv => ShownIsContiguous
  BY DEF Inv, StreamInv, Contiguous, ShownIsContiguous
<1> QED
  BY <1>1, InvHolds, PTL

\* The events on the page are of the job it names, and an outcome it shows is the one the
\* service has recorded, except after the answer to a cancel and for a hasty user.
THEOREM PageStaysOfOneJob == Spec => []PageIsOfOneJob
<1>1. Inv => PageIsOfOneJob
  BY DEF Inv, StreamInv, OneJob, PageIsOfOneJob
<1> QED
  BY <1>1, InvHolds, PTL

\* What takes the page from a job it follows.
LEMMA OnlyLateAnswersReplace ==
  ASSUME Inv, Next, Follows, view'.job # view.job
  PROVE  \/ \E c \in Cancels : CancelAnswered(c)
         \/ RefreshAnswered /\ "history" \in due
         \/ hasty /\ \E j \in Jobs : CreateAnswered(j)
<1>1. HasActiveJob
  BY InactiveIsOver DEF Running, Follows, Inv
<1>2. Known /\ Refreshes /\ view.job # None
  BY <1>1 DEF Inv, PageInv, HasActiveJob
<1>3. view \in ViewRec
  BY TypeParts DEF Inv, PageInv
<1>4. ~Service /\ ~Connection
  BY DEF Service, Proceed, LoseTerminal, ServeCreate, ServeCancel, AnswerCancel, Crash, Restart,
     ServeFirstListing, Connection, AcceptStream, SendEvent, EndStream, Drop
<1>5. ASSUME NEW j \in Jobs PROVE ~Submit(j) /\ ~OpenRun(j) /\ (CreateAnswered(j) => hasty)
  BY <1>1 DEF Submit, CreateAnswered, OpenRun, Inv, StreamInv, Pauses, Pending
<1>6. ASSUME NEW c \in Cancels PROVE ~ClickCancel(c)
  BY DEF ClickCancel, Update
<1>7. ~TakeEvent
  BY <1>3 DEF TakeEvent, Update, ViewRec
<1>8. ~StreamOver /\ ~Reconnect
  BY <1>3 DEF StreamOver, Reconnect, ViewRec
<1>9. ~RunEffects
  <2> SUFFICES ASSUME RunEffects PROVE FALSE
    OBVIOUS
  <2>1. PICK t, f : view' = [view EXCEPT !.timer = t, !.fetched = f]
    BY DEF RunEffects
  <2> QED
    BY <1>3, <2>1 DEF ViewRec
<1>10. ~FirstListingAnswered
  <2> SUFFICES ASSUME FirstListingAnswered PROVE FALSE
    OBVIOUS
  <2>1. ~SelectNewest
    BY <1>2 DEF Known, SelectNewest
  <2>2. view' = [view EXCEPT !.runs = history.listed]
    BY <2>1 DEF FirstListingAnswered
  <2> QED
    BY <1>3, <2>2 DEF ViewRec
<1>11. RefreshAnswered => "history" \in due
  BY <1>1, <1>2 DEF Refreshes, RefreshAnswered
<1> QED
  BY <1>4, <1>5, <1>6, <1>7, <1>8, <1>9, <1>10, <1>11 DEF Next, Browser

\* The page is not taken from the job it follows: neither the first listing nor, once the
\* effects have run, a refresh replaces it, and only a hasty user's other submit does.  A job
\* that runs is always one that a user who is not hasty follows.
THEOREM ActiveJobIsKept == Spec => ActiveJobStays
<1> DEFINE A == Follows /\ view'.job # view.job =>
                  \/ \E c \in Cancels : CancelAnswered(c)
                  \/ RefreshAnswered /\ "history" \in due
                  \/ hasty /\ \E j \in Jobs : CreateAnswered(j)
<1>1. Inv /\ [Next]_vars => [A]_vars
  BY OnlyLateAnswersReplace
<1>2. ActiveJobStays <=> [][A]_vars
  BY PTL DEF ActiveJobStays
<1> QED
  BY <1>1, <1>2, InvHolds, PTL DEF Spec
=============================================================================
