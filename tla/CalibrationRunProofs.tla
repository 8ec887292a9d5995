------------------------ MODULE CalibrationRunProofs ------------------------
(***************************************************************************)
(* What the runs of the calibration keep in their files, for every number  *)
(* of cells and of runs at once, and every number of cuts and faults.      *)
(*                                                                         *)
(* The properties speak of files and jobs only; what makes them inductive  *)
(* is what a run knows between two requests.  RunKnows says it of the job  *)
(* and the attempt of a run.  The number of jobs of an attempt is bounded  *)
(* in two stages: before an identifier is recorded each job is one that a  *)
(* run is about to save or one that was lost; from then on only runs that  *)
(* had already looked can add one (Repeats).                               *)
(***************************************************************************)
EXTENDS CalibrationRun, FiniteSetTheorems, SequenceTheorems, TLAPS

JobRecords ==
  [of : Attempts, status : Terminal \cup {"active"}, kept : {"written", "memory", "replaced"}]

Outcomes == [status : Terminal \cup {"none"}, job : Nat, valid : BOOLEAN]

RunRecords ==
  [pc : {"off", "look", "submit", "save", "wait", "evidence", "record", "result"},
   cell : 1..Cells, attempt : {1, 2}, job : Nat, status : Terminal \cup {"none"},
   valid : BOOLEAN]

Kinds ==
  /\ jobs \in Seq(JobRecords)
  /\ recorded \in [Attempts -> Nat]
  /\ outcome \in [Attempts -> Outcomes]
  /\ result \in BOOLEAN
  /\ run \in [Runners -> RunRecords]
  /\ lost \in Nat /\ overlaps \in 0..MaxOverlaps
  /\ stops \in 0..MaxStops /\ faults \in 0..MaxFaults

\* At most one job is active; only a failed write keeps an end from the files.
OneActive ==
  /\ \A i, j \in DOMAIN jobs : jobs[i].status = "active" /\ jobs[j].status = "active" => i = j
  /\ \A j \in DOMAIN jobs :
       /\ jobs[j].status = "active" => jobs[j].kept = "written"
       /\ faults = 0 => jobs[j].kept = "written"

\* A terminal status that somebody has seen, and evidence that was accepted.
Seen(j, status) == jobs[j].status = status \/ jobs[j].kept = "replaced"
Proven(j) == jobs[j].status = "completed" /\ jobs[j].kept = "written"

\* A job that completed does not count only after a fault, or when the list is full.
Discounted(j) == faults > 0 \/ Cardinality(CompletedSince(j)) >= Page

\* An attempt is reached only by way of the attempts before it.
Reached(c, a) ==
  /\ a = 2 => outcome[<<c, 1>>].status = "retryable"
  /\ \A d \in 1..(c - 1) : Selected(d) # None

\* What is recorded of an attempt.
Recorded(x) ==
  /\ recorded[x] # 0 =>
       recorded[x] \in DOMAIN jobs /\ jobs[recorded[x]].of = x /\ Reached(x[1], x[2])
  /\ outcome[x] # None =>
       /\ recorded[x] # 0 /\ outcome[x].job = recorded[x]
       /\ outcome[x].status \in Terminal /\ Seen(recorded[x], outcome[x].status)
       /\ outcome[x].valid => Proven(recorded[x])
       /\ outcome[x].status = "completed" /\ ~outcome[x].valid => Discounted(recorded[x])

\* What a run knows while it is under way.
RunKnows(r) ==
  /\ run[r].pc \notin {"off", "result"} => Reached(run[r].cell, run[r].attempt)
  /\ run[r].pc = "result" => \A c \in 1..Cells : Selected(c) # None
  /\ run[r].pc \in {"save", "wait", "evidence", "record"} =>
       run[r].job \in DOMAIN jobs /\ jobs[run[r].job].of = Attempt(r)
  /\ run[r].pc \in {"wait", "evidence", "record"} => recorded[Attempt(r)] = run[r].job
  /\ run[r].pc \in {"evidence", "record"} =>
       run[r].status \in Terminal /\ Seen(run[r].job, run[r].status)
  /\ run[r].pc = "evidence" => run[r].status = "completed"
  /\ run[r].pc # "record" => ~run[r].valid
  /\ run[r].job \in 0..Len(jobs)
  /\ run[r].pc = "record" =>
       /\ run[r].valid => Proven(run[r].job)
       /\ run[r].status = "completed" /\ ~run[r].valid => Discounted(run[r].job)

\* Jobs of an attempt, and the runs about to add one or to record one.
JobsOf(x) == {j \in DOMAIN jobs : jobs[j].of = x}
At(step, x) == {r \in Runners : run[r].pc = step /\ Attempt(r) = x}

Repeats(x) ==
  /\ recorded[x] = 0 => Cardinality(JobsOf(x)) <= Cardinality(At("save", x)) + lost
  /\ recorded[x] # 0 =>
       Cardinality(JobsOf(x)) + Cardinality(At("submit", x)) <= Cardinality(Runners) + lost

CalibrationInv ==
  /\ Kinds /\ lost <= stops /\ OneActive
  /\ \A x \in Attempts : Recorded(x) /\ Repeats(x)
  /\ \A r \in Runners : RunKnows(r)
  /\ result => \A c \in 1..Cells : Selected(c) # None

-----------------------------------------------------------------------------
(***************************************************************************)
(* What every step leaves as it was.                                       *)
(***************************************************************************)

\* A job keeps its attempt, its seen end and its written evidence; without a fault
\* what completed stays completed.
JobsGrow ==
  /\ jobs' \in Seq(JobRecords) /\ Len(jobs) <= Len(jobs')
  /\ \A j \in DOMAIN jobs :
       /\ jobs'[j].of = jobs[j].of
       /\ Proven(j) => Proven(j)'
       /\ \A status \in Terminal : Seen(j, status) => Seen(j, status)'
       /\ faults' = 0 /\ jobs[j].status = "completed" => jobs'[j].status = "completed"
  /\ faults <= faults' /\ faults' \in Nat

OutcomesGrow == \A x \in Attempts : outcome[x] # None => outcome'[x] = outcome[x]

LEMMA AttemptsOfCells ==
  \A c \in 1..Cells : <<c, 1>> \in Attempts /\ <<c, 2>> \in Attempts
BY DEF Attempts

LEMMA DomainOfJobs ==
  ASSUME JobsGrow, Kinds
  PROVE  /\ Len(jobs) \in Nat /\ Len(jobs') \in Nat
         /\ DOMAIN jobs = 1..Len(jobs) /\ DOMAIN jobs' = 1..Len(jobs')
         /\ DOMAIN jobs \subseteq DOMAIN jobs'
         /\ \A j \in DOMAIN jobs : jobs[j] \in JobRecords
<1>1. jobs \in Seq(JobRecords) /\ jobs' \in Seq(JobRecords) /\ Len(jobs) <= Len(jobs')
  BY DEF JobsGrow, Kinds
<1> QED
  BY <1>1, LenProperties

\* A cell that has its outcome selected keeps it.
LEMMA SelectedKept ==
  ASSUME OutcomesGrow, Kinds, NEW c \in 1..Cells, Selected(c) # None
  PROVE  Selected(c)' # None
<1>1. <<c, 1>> \in Attempts /\ <<c, 2>> \in Attempts
  BY AttemptsOfCells
<1>2. CASE outcome[<<c, 1>>].status = "retryable"
  <2>1. outcome[<<c, 1>>] # None /\ outcome[<<c, 2>>] # None
    BY <1>2 DEF Selected, Retry, None
  <2> QED
    BY <1>1, <1>2, <2>1 DEF OutcomesGrow, Selected, Retry
<1>3. CASE outcome[<<c, 1>>].status # "retryable"
  <2>1. outcome[<<c, 1>>] # None
    BY <1>3 DEF Selected, Retry
  <2> QED
    BY <1>1, <1>3, <2>1 DEF OutcomesGrow, Selected, Retry
<1> QED
  BY <1>2, <1>3

LEMMA ReachedKept ==
  ASSUME OutcomesGrow, Kinds, NEW c \in 1..Cells, NEW a \in {1, 2}, Reached(c, a)
  PROVE  Reached(c, a)'
<1>1. a = 2 => outcome'[<<c, 1>>].status = "retryable"
  <2> SUFFICES ASSUME a = 2 PROVE outcome'[<<c, 1>>].status = "retryable"
    OBVIOUS
  <2>1. outcome[<<c, 1>>].status = "retryable" /\ outcome[<<c, 1>>] # None
    BY DEF Reached, None
  <2> QED
    BY <2>1, AttemptsOfCells DEF OutcomesGrow
<1>2. ASSUME NEW d \in 1..(c - 1) PROVE Selected(d)' # None
  <2>1. d \in 1..Cells /\ Selected(d) # None
    BY Parameters DEF Reached
  <2> QED
    BY <2>1, SelectedKept
<1> QED
  BY <1>1, <1>2 DEF Reached

\* The list of completed runs is full once it is full, as long as nothing fails.
LEMMA DiscountedKept ==
  ASSUME JobsGrow, Kinds, NEW j \in Nat, Discounted(j)
  PROVE  Discounted(j)'
<1>1. faults \in Nat /\ faults' \in Nat /\ faults <= faults'
  BY Parameters DEF JobsGrow, Kinds
<1>2. CASE faults' > 0
  BY <1>2 DEF Discounted
<1>3. CASE faults' = 0
  <2>1. faults = 0 /\ Cardinality(CompletedSince(j)) >= Page
    BY <1>1, <1>3 DEF Discounted
  <2>2. CompletedSince(j) \subseteq CompletedSince(j)'
    <3>1. ASSUME NEW k \in CompletedSince(j) PROVE k \in CompletedSince(j)'
      <4>1. k \in DOMAIN jobs /\ k > j /\ jobs[k].status = "completed"
        BY DEF CompletedSince
      <4>2. k \in DOMAIN jobs' /\ jobs'[k].status = "completed"
        BY <1>3, <4>1, DomainOfJobs DEF JobsGrow
      <4> QED
        BY <4>1, <4>2 DEF CompletedSince
    <3> QED
      BY <3>1
  <2>3. CompletedSince(j)' \in SUBSET (1..Len(jobs')) /\ Len(jobs') \in Nat
    BY DomainOfJobs DEF CompletedSince
  <2>4. IsFiniteSet(CompletedSince(j)')
    <3>1. IsFiniteSet(1..Len(jobs'))
      BY <2>3, FS_Interval
    <3> QED
      BY <2>3, <3>1, FS_Subset
  <2>5. /\ IsFiniteSet(CompletedSince(j))
        /\ Cardinality(CompletedSince(j)) <= Cardinality(CompletedSince(j)')
    BY <2>2, <2>4, FS_Subset
  <2>6. Cardinality(CompletedSince(j)) \in Nat /\ Cardinality(CompletedSince(j)') \in Nat
    BY <2>4, <2>5, FS_CardinalityType
  <2>7. Cardinality(CompletedSince(j)') >= Page
    BY <2>1, <2>5, <2>6, Parameters
  <2> QED
    BY <2>7 DEF Discounted
<1> QED
  BY <1>1, <1>2, <1>3

\* What is recorded of an attempt stays true.
LEMMA RecordedKept ==
  ASSUME JobsGrow, OutcomesGrow, Kinds, NEW x \in Attempts, Recorded(x),
         recorded'[x] = recorded[x], outcome'[x] = outcome[x]
  PROVE  Recorded(x)'
<1>1. x[1] \in 1..Cells /\ x[2] \in {1, 2}
  BY DEF Attempts
<1>2. Reached(x[1], x[2]) => Reached(x[1], x[2])'
  BY <1>1, ReachedKept
<1>3. recorded[x] \in Nat
  BY DEF Kinds
<1>4. recorded[x] # 0 => recorded[x] \in DOMAIN jobs /\ recorded[x] \in DOMAIN jobs'
  BY DomainOfJobs DEF Recorded
<1> DEFINE j == recorded[x]
<1>5. ASSUME j # 0
      PROVE  /\ jobs'[j].of = jobs[j].of /\ (Proven(j) => Proven(j)')
             /\ \A status \in Terminal : Seen(j, status) => Seen(j, status)'
             /\ Discounted(j) => Discounted(j)'
  BY <1>3, <1>4, <1>5, DiscountedKept DEF JobsGrow
<1>7. recorded'[x] # 0 =>
        recorded'[x] \in DOMAIN jobs' /\ jobs'[recorded'[x]].of = x /\ Reached(x[1], x[2])'
  BY <1>2, <1>4, <1>5 DEF Recorded
<1> QED
  BY <1>5, <1>7 DEF Recorded, Seen, Proven, Discounted, CompletedSince

\* A run that does nothing still knows what it knew, whatever the others do.
LEMMA RunKept ==
  ASSUME JobsGrow, OutcomesGrow, Kinds, NEW r \in Runners, RunKnows(r), run'[r] = run[r],
         recorded'[Attempt(r)] = recorded[Attempt(r)] \/ recorded[Attempt(r)] = 0
  PROVE  RunKnows(r)'
<1>1. /\ run[r] \in RunRecords /\ run[r].cell \in 1..Cells /\ run[r].attempt \in {1, 2}
      /\ Attempt(r)' = Attempt(r) /\ run[r].job \in Nat /\ Attempt(r) \in Attempts
  BY DEF Kinds, RunRecords, Attempt, Attempts
<1> DEFINE j == run[r].job
<1>2. Reached(run[r].cell, run[r].attempt) => Reached(run[r].cell, run[r].attempt)'
  <2> DEFINE c == run[r].cell
             a == run[r].attempt
  <2>1. PICK d \in 1..Cells, b \in {1, 2} : d = c /\ b = a
    BY <1>1
  <2>2. Reached(d, b) => Reached(d, b)'
    BY ReachedKept
  <2> QED
    BY <2>1, <2>2 DEF Reached, Selected
<1>3. PICK k \in Nat : k = j
  BY <1>1
<1>4. j \in DOMAIN jobs =>
        /\ k \in DOMAIN jobs' /\ jobs'[k].of = jobs[k].of /\ (Proven(k) => Proven(k)')
        /\ \A status \in Terminal : Seen(k, status) => Seen(k, status)'
        /\ Discounted(k) => Discounted(k)'
  BY <1>3, DomainOfJobs, DiscountedKept DEF JobsGrow
<1>5. (\A c \in 1..Cells : Selected(c) # None) => (\A c \in 1..Cells : Selected(c)' # None)
  BY SelectedKept
<1>6. j \in 0..Len(jobs')
  BY DomainOfJobs DEF RunKnows, JobsGrow
<1>7. run[r].pc \in {"wait", "evidence", "record"} => recorded'[Attempt(r)] = j
  <2> SUFFICES ASSUME run[r].pc \in {"wait", "evidence", "record"}
               PROVE  recorded'[Attempt(r)] = j
    OBVIOUS
  <2>1. recorded[Attempt(r)] = j /\ j \in DOMAIN jobs
    BY DEF RunKnows
  <2>2. j # 0
    BY <2>1, DomainOfJobs
  <2> QED
    BY <2>1, <2>2
<1>8. /\ run'[r].pc \notin {"off", "result"} => Reached(run[r].cell, run[r].attempt)'
      /\ run'[r].pc = "result" => \A c \in 1..Cells : Selected(c)' # None
      /\ run'[r].pc # "record" => ~run'[r].valid
      /\ run'[r].pc = "evidence" => run'[r].status = "completed"
  BY <1>2, <1>5 DEF RunKnows
<1>9. /\ run'[r].pc \in {"save", "wait", "evidence", "record"} =>
           k \in DOMAIN jobs' /\ jobs'[k].of = Attempt(r)
      /\ run'[r].pc \in {"evidence", "record"} =>
           run'[r].status \in Terminal /\ Seen(k, run[r].status)'
      /\ run'[r].pc = "record" =>
           /\ run'[r].valid => Proven(k)'
           /\ run'[r].status = "completed" /\ ~run'[r].valid => Discounted(k)'
  BY <1>3, <1>4 DEF RunKnows
<1> QED
  BY <1>1, <1>3, <1>6, <1>7, <1>8, <1>9
  DEF RunKnows, Reached, Selected, Seen, Proven, Discounted, CompletedSince

\* A run that has the outcome of its attempt goes on to what follows from it.
LEMMA AdvanceKnows ==
  ASSUME OutcomesGrow, Kinds, NEW r \in Runners, Reached(run[r].cell, run[r].attempt), NEW o,
         o # None, outcome'[Attempt(r)] = o, Advance(r, o), Len(jobs') \in Nat
  PROVE  /\ RunKnows(r)' /\ run' \in [Runners -> RunRecords]
         /\ \A q \in Runners \ {r} : run'[q] = run[q]
         /\ run'[r].pc \in {"look", "result"}
<1>1. PICK c \in 1..Cells, a \in {1, 2} :
        /\ c = run[r].cell /\ a = run[r].attempt /\ Attempt(r) = <<c, a>>
  BY DEF Kinds, RunRecords, Attempt
<1>2. Reached(c, a) /\ Reached(c, a)'
  BY <1>1, ReachedKept
<1> DEFINE goesOn == [Off EXCEPT !.pc = "look", !.cell = c, !.attempt = 2]
           nextCell == [Off EXCEPT !.pc = "look", !.cell = c + 1]
           end == [Off EXCEPT !.pc = "result", !.cell = c]
           next == IF a = 1 /\ Retry(o) THEN goesOn ELSE IF c < Cells THEN nextCell ELSE end
<1>3. run' = [run EXCEPT ![r] = next]
  BY <1>1 DEF Advance
<1>4. run'[r] = next /\ \A q \in Runners \ {r} : run'[q] = run[q]
  BY <1>3 DEF Kinds
<1> HIDE DEF next
<1>5. ~(a = 1 /\ Retry(o)) => Selected(c)' = o
  <2>1. CASE a = 1
    BY <1>1, <2>1 DEF Selected, Retry
  <2>2. CASE a = 2
    BY <1>1, <1>2, <2>2 DEF Reached, Selected, Retry
  <2> QED
    BY <2>1, <2>2
<1>6. CASE a = 1 /\ Retry(o)
  <2>1. next = [pc |-> "look", cell |-> c, attempt |-> 2, job |-> 0, status |-> "none",
                valid |-> FALSE]
    BY <1>6 DEF Off, next
  <2>2. next \in RunRecords
    BY <2>1 DEF RunRecords
  <2>3. Reached(c, 2)'
    BY <1>1, <1>2, <1>6 DEF Reached, Retry
  <2>4. RunKnows(r)'
    BY <1>4, <2>1, <2>3 DEF RunKnows, Reached, Selected
  <2> QED
    BY <1>3, <1>4, <2>1, <2>2, <2>4 DEF Kinds
<1>7. CASE ~(a = 1 /\ Retry(o)) /\ c < Cells
  <2>1. next = [pc |-> "look", cell |-> c + 1, attempt |-> 1, job |-> 0, status |-> "none",
                valid |-> FALSE]
    BY <1>7 DEF Off, next
  <2>2. c + 1 \in 1..Cells /\ (c + 1) - 1 = c
    BY <1>7, Parameters
  <2>3. next \in RunRecords
    BY <2>1, <2>2 DEF RunRecords
  <2>4. \A d \in 1..c : Selected(d)' # None
    BY <1>2, <1>5, <1>7 DEF Reached
  <2>5. Reached(c + 1, 1)'
    BY <2>2, <2>4 DEF Reached, Selected
  <2>6. RunKnows(r)'
    BY <1>4, <2>1, <2>5 DEF RunKnows, Reached, Selected
  <2> QED
    BY <1>3, <1>4, <2>1, <2>3, <2>6 DEF Kinds
<1>8. CASE ~(a = 1 /\ Retry(o)) /\ ~(c < Cells)
  <2>1. next = [pc |-> "result", cell |-> c, attempt |-> 1, job |-> 0, status |-> "none",
                valid |-> FALSE]
    BY <1>8 DEF Off, next
  <2>2. c = Cells
    BY <1>8, Parameters
  <2>3. next \in RunRecords
    BY <2>1 DEF RunRecords
  <2>4. \A d \in 1..Cells : Selected(d)' # None
    BY <1>2, <1>5, <1>8, <2>2, Parameters DEF Reached
  <2>5. RunKnows(r)'
    BY <1>4, <2>1, <2>4 DEF RunKnows, Selected
  <2> QED
    BY <1>3, <1>4, <2>1, <2>3, <2>5 DEF Kinds
<1> QED
  BY <1>6, <1>7, <1>8

-----------------------------------------------------------------------------
(***************************************************************************)
(* How many jobs an attempt has.                                           *)
(***************************************************************************)
LEMMA Counts ==
  ASSUME Kinds, NEW x
  PROVE  /\ IsFiniteSet(JobsOf(x)) /\ Cardinality(JobsOf(x)) \in Nat
         /\ \A step : IsFiniteSet(At(step, x)) /\ Cardinality(At(step, x)) \in Nat
         /\ Cardinality(Runners) \in Nat
         /\ Cardinality(At("save", x)) + Cardinality(At("submit", x)) <= Cardinality(Runners)
<1>1. DOMAIN jobs = 1..Len(jobs) /\ Len(jobs) \in Nat
  BY LenProperties DEF Kinds
<1>2. IsFiniteSet(1..Len(jobs)) /\ JobsOf(x) \in SUBSET (1..Len(jobs))
  BY <1>1, FS_Interval DEF JobsOf
<1>3. IsFiniteSet(JobsOf(x)) /\ Cardinality(JobsOf(x)) \in Nat
  BY <1>2, FS_Subset, FS_CardinalityType
<1>4. ASSUME NEW step PROVE IsFiniteSet(At(step, x)) /\ Cardinality(At(step, x)) \in Nat
  <2>1. At(step, x) \in SUBSET Runners
    BY DEF At
  <2> QED
    BY <2>1, Parameters, FS_Subset, FS_CardinalityType
<1> DEFINE S == At("save", x)
           T == At("submit", x)
<1>5. IsFiniteSet(S) /\ IsFiniteSet(T) /\ Cardinality(S) \in Nat /\ Cardinality(T) \in Nat
  BY <1>4
<1>6. S \cap T = {} /\ S \cup T \in SUBSET Runners
  BY DEF At
<1> HIDE DEF S, T
<1>7. Cardinality(S \cup T) = Cardinality(S) + Cardinality(T) - Cardinality(S \cap T)
  BY <1>5, FS_Union
<1>8. Cardinality(S \cap T) = 0
  BY <1>6, FS_EmptySet
<1>9. Cardinality(S \cup T) <= Cardinality(Runners) /\ Cardinality(Runners) \in Nat
  BY <1>6, Parameters, FS_Subset, FS_CardinalityType
<1>10. Cardinality(S) + Cardinality(T) <= Cardinality(Runners)
  BY <1>5, <1>7, <1>8, <1>9
<1> QED
  BY <1>3, <1>4, <1>9, <1>10 DEF S, T

\* A step that adds no job and records none: no run gives up an identifier without
\* counting it as lost, and none sets out to submit what is recorded.
LEMMA RepeatsKept ==
  ASSUME Kinds, Kinds', NEW x \in Attempts, Repeats(x), NEW r \in Runners,
         \A q \in Runners \ {r} : run'[q] = run[q], JobsOf(x)' = JobsOf(x),
         recorded'[x] = recorded[x], lost <= lost',
         recorded[x] = 0 => r \notin At("save", x) \/ lost < lost',
         recorded[x] # 0 /\ r \in At("submit", x)' => r \in At("submit", x)
  PROVE  Repeats(x)'
<1> DEFINE S == At("save", x)
           T == At("submit", x)
           J == JobsOf(x)
<1>1. /\ Cardinality(J) \in Nat /\ IsFiniteSet(S) /\ Cardinality(S) \in Nat
      /\ IsFiniteSet(T) /\ Cardinality(T) \in Nat /\ Cardinality(Runners) \in Nat
  BY Counts
<1>2. /\ IsFiniteSet(S') /\ Cardinality(S') \in Nat /\ IsFiniteSet(T') /\ Cardinality(T') \in Nat
      /\ Cardinality(J)' = Cardinality(J)
  <2>1. S' \in SUBSET Runners /\ T' \in SUBSET Runners
    BY DEF At
  <2> QED
    BY <2>1, Parameters, FS_Subset, FS_CardinalityType
<1>3. lost \in Nat /\ lost' \in Nat
  BY DEF Kinds
<1>4. CASE recorded[x] = 0
  <2>1. S \ {r} \subseteq S'
    BY DEF At, Attempt
  <2>2. Cardinality(S \ {r}) <= Cardinality(S')
    BY <1>2, <2>1, FS_Subset
  <2>3. Cardinality(S \ {r}) = IF r \in S THEN Cardinality(S) - 1 ELSE Cardinality(S)
    BY <1>1, FS_RemoveElement
  <2>4. Cardinality(S) + lost <= Cardinality(S') + lost'
    BY <1>1, <1>2, <1>3, <1>4, <2>2, <2>3
  <2>5. Cardinality(J) <= Cardinality(S) + lost
    BY <1>4 DEF Repeats
  <2>6. Cardinality(J)' <= Cardinality(S') + lost'
    BY <1>1, <1>2, <1>3, <2>4, <2>5
  <2> QED
    BY <1>4, <2>6 DEF Repeats
<1>5. CASE recorded[x] # 0
  <2>1. T' \subseteq T
    BY <1>5 DEF At, Attempt
  <2>2. Cardinality(T') <= Cardinality(T)
    BY <1>1, <2>1, FS_Subset
  <2>3. Cardinality(J) + Cardinality(T) <= Cardinality(Runners) + lost
    BY <1>5 DEF Repeats
  <2>4. Cardinality(J)' + Cardinality(T') <= Cardinality(Runners) + lost'
    BY <1>1, <1>2, <1>3, <2>2, <2>3
  <2> QED
    BY <1>5, <2>4 DEF Repeats
<1> QED
  BY <1>4, <1>5

-----------------------------------------------------------------------------
(***************************************************************************)
(* Steps of a run that submit and save nothing.                            *)
(***************************************************************************)
CountsStay ==
  /\ lost <= lost' /\ lost' <= stops' /\ lost' \in Nat
  /\ overlaps' \in 0..MaxOverlaps /\ stops' \in 0..MaxStops
  /\ faults' \in 0..MaxFaults /\ faults <= faults'

LEMMA CountsSame ==
  ASSUME CalibrationInv, UNCHANGED lost, UNCHANGED counts
  PROVE  CountsStay
BY Parameters DEF CalibrationInv, Kinds, CountsStay, counts

LEMMA JobsSame ==
  ASSUME Kinds, jobs' = jobs, CountsStay
  PROVE  JobsGrow
BY LenProperties, Parameters DEF Kinds, CountsStay, JobsGrow, Proven, Seen

\* Whatever one run does to the outcomes and to itself, the others know what they knew.
LEMMA OthersKnow ==
  ASSUME CalibrationInv, JobsGrow, OutcomesGrow, NEW r \in Runners,
         \A q \in Runners \ {r} : run'[q] = run[q],
         \A x \in Attempts : recorded'[x] = recorded[x] \/ recorded[x] = 0
  PROVE  \A q \in Runners \ {r} : RunKnows(q)'
<1> TAKE q \in Runners \ {r}
<1>1. Kinds /\ RunKnows(q) /\ run'[q] = run[q]
  BY DEF CalibrationInv
<1>2. Attempt(q) \in Attempts
  BY <1>1 DEF Kinds, RunRecords, Attempt, Attempts
<1> QED
  BY <1>1, <1>2, RunKept

\* A step of one run on the files of its own attempt.
LEMMA QuietStep ==
  ASSUME CalibrationInv, NEW r \in Runners, CountsStay, OutcomesGrow,
         run' \in [Runners -> RunRecords], \A q \in Runners \ {r} : run'[q] = run[q],
         RunKnows(r)', jobs' = jobs, recorded' = recorded,
         outcome' \in [Attempts -> Outcomes],
         \A x \in Attempts : outcome'[x] = outcome[x] \/ Recorded(x)',
         result' = result \/ (result' = TRUE /\ \A c \in 1..Cells : Selected(c) # None),
         run[r].pc = "save" => recorded[Attempt(r)] # 0 \/ lost < lost',
         run'[r].pc = "submit" => \/ run[r].pc = "submit" /\ Attempt(r)' = Attempt(r)
                                  \/ recorded[Attempt(r)'] = 0
  PROVE  CalibrationInv'
<1>1. Kinds /\ OneActive
  BY DEF CalibrationInv
<1>2. JobsGrow
  BY <1>1, JobsSame
<1>3. Kinds'
  BY <1>1 DEF Kinds, CountsStay
<1>4. \A x \in Attempts : Recorded(x)'
  BY <1>1, <1>2, RecordedKept DEF CalibrationInv
<1>5. \A q \in Runners : RunKnows(q)'
  BY <1>2, OthersKnow
<1>6. ASSUME NEW x \in Attempts PROVE Repeats(x)'
  <2>1. JobsOf(x)' = JobsOf(x)
    BY DEF JobsOf
  <2>2. recorded[x] = 0 => r \notin At("save", x) \/ lost < lost'
    BY DEF At
  <2>3. recorded[x] # 0 /\ r \in At("submit", x)' => r \in At("submit", x)
    BY DEF At
  <2> QED
    BY <1>1, <1>3, <2>1, <2>2, <2>3, RepeatsKept DEF CalibrationInv, CountsStay
<1>7. OneActive'
  BY <1>1, Parameters DEF OneActive, CountsStay, Kinds
<1>8. result' => \A c \in 1..Cells : Selected(c)' # None
  BY <1>1, SelectedKept DEF CalibrationInv
<1> QED
  BY <1>3, <1>4, <1>5, <1>6, <1>7, <1>8 DEF CalibrationInv, CountsStay, Selected

LEMMA NothingRecorded ==
  ASSUME Kinds, outcome' = outcome
  PROVE  /\ OutcomesGrow /\ outcome' \in [Attempts -> Outcomes]
         /\ \A x \in Attempts : outcome'[x] = outcome[x] \/ Recorded(x)'
BY DEF Kinds, OutcomesGrow

\* A run that ends knows nothing any more.
LEMMA EndKnows ==
  ASSUME Kinds, NEW r \in Runners, End(r), Len(jobs') \in Nat
  PROVE  /\ run' \in [Runners -> RunRecords] /\ \A q \in Runners \ {r} : run'[q] = run[q]
         /\ run'[r] = Off /\ Off.pc = "off" /\ RunKnows(r)'
<1>1. Off \in RunRecords /\ Off.pc = "off" /\ Off.job = 0 /\ ~Off.valid
  <2>1. 1 \in 1..Cells
    BY Parameters
  <2> QED
    BY <2>1 DEF Off, RunRecords
<1>2. run' = [run EXCEPT ![r] = Off]
  BY DEF End
<1>3. /\ run' \in [Runners -> RunRecords] /\ run'[r] = Off
      /\ \A q \in Runners \ {r} : run'[q] = run[q]
  BY <1>1, <1>2 DEF Kinds
<1> QED
  BY <1>1, <1>3 DEF RunKnows

LEMMA StartKeeps ==
  ASSUME CalibrationInv, NEW r \in Runners, Start(r)
  PROVE  CalibrationInv'
<1> DEFINE entry == [Off EXCEPT !.pc = "look"]
<1>1. /\ entry \in RunRecords /\ entry.pc = "look" /\ entry.cell = 1 /\ entry.attempt = 1
      /\ entry.job = 0 /\ ~entry.valid
  <2>1. 1 \in 1..Cells
    BY Parameters
  <2>2. /\ Off \in RunRecords /\ Off.cell = 1 /\ Off.attempt = 1 /\ Off.job = 0
        /\ ~Off.valid
    BY <2>1 DEF Off, RunRecords
  <2> QED
    BY <2>2 DEF RunRecords
<1> HIDE DEF entry
<1>2. Kinds /\ run[r].pc = "off" /\ run' = [run EXCEPT ![r] = entry]
  BY DEF Start, CalibrationInv, entry
<1>3. /\ run' \in [Runners -> RunRecords] /\ run'[r] = entry
      /\ \A q \in Runners \ {r} : run'[q] = run[q]
  BY <1>1, <1>2 DEF Kinds
<1>4. CountsStay
  BY <1>2, Parameters DEF Start, CalibrationInv, Kinds, CountsStay
<1>5. jobs' = jobs /\ recorded' = recorded /\ outcome' = outcome /\ result' = result
  BY DEF Start, files
<1>6. RunKnows(r)'
  <2>1. Len(jobs') \in Nat
    BY <1>2, <1>5, LenProperties DEF Kinds
  <2> QED
    BY <1>1, <1>3, <2>1 DEF RunKnows, Reached
<1> QED
  BY <1>1, <1>2, <1>3, <1>4, <1>5, <1>6, NothingRecorded, QuietStep

LEMMA BreakKeeps ==
  ASSUME CalibrationInv, NEW r \in Runners, Break(r)
  PROVE  CalibrationInv'
<1>1. Kinds /\ jobs' = jobs /\ recorded' = recorded /\ outcome' = outcome /\ result' = result
  BY DEF Break, files, CalibrationInv
<1>2. Len(jobs') \in Nat /\ End(r)
  BY <1>1, LenProperties DEF Kinds, Break
<1>3. CountsStay /\ (run[r].pc = "save" => lost < lost')
  BY <1>1, Parameters DEF Break, Stop, CalibrationInv, Kinds, CountsStay
<1> QED
  BY <1>1, <1>2, <1>3, EndKnows, NothingRecorded, QuietStep

LEMMA PublishResultKeeps ==
  ASSUME CalibrationInv, NEW r \in Runners, PublishResult(r)
  PROVE  CalibrationInv'
<1>1. /\ Kinds /\ jobs' = jobs /\ recorded' = recorded /\ outcome' = outcome /\ result' = TRUE
      /\ run[r].pc = "result"
  BY DEF PublishResult, CalibrationInv
<1>2. Len(jobs') \in Nat /\ End(r) /\ CountsStay
  BY <1>1, LenProperties, CountsSame DEF Kinds, PublishResult
<1>3. \A c \in 1..Cells : Selected(c) # None
  BY <1>1 DEF CalibrationInv, RunKnows
<1> QED
  BY <1>1, <1>2, <1>3, EndKnows, NothingRecorded, QuietStep

\* What a run that goes to another step without a new job keeps.
LEMMA GotoMoves ==
  ASSUME Kinds, NEW r \in Runners, NEW entry \in RunRecords, run' = [run EXCEPT ![r] = entry]
  PROVE  /\ run' \in [Runners -> RunRecords] /\ run'[r] = entry
         /\ \A q \in Runners \ {r} : run'[q] = run[q]
         /\ Attempt(r)' = <<entry.cell, entry.attempt>>
BY DEF Kinds, Attempt

LEMMA LookKeeps ==
  ASSUME CalibrationInv, NEW r \in Runners, Look(r)
  PROVE  CalibrationInv'
<1>1. /\ Kinds /\ jobs' = jobs /\ recorded' = recorded /\ outcome' = outcome /\ result' = result
      /\ run[r].pc = "look" /\ RunKnows(r) /\ Reached(run[r].cell, run[r].attempt)
      /\ ~run[r].valid /\ run[r] \in RunRecords /\ run[r].job \in 0..Len(jobs)
  BY DEF Look, CalibrationInv, files, RunKnows, Kinds
<1>2. CountsStay /\ Len(jobs') \in Nat
  BY <1>1, LenProperties, CountsSame DEF Look, Kinds
<1>3. Attempt(r) \in Attempts /\ Recorded(Attempt(r))
  BY <1>1 DEF CalibrationInv, RunRecords, Attempt, Attempts
<1>4. CASE outcome[Attempt(r)] # None /\ Advance(r, outcome[Attempt(r)])
  <2>1. /\ RunKnows(r)' /\ run' \in [Runners -> RunRecords]
        /\ \A q \in Runners \ {r} : run'[q] = run[q]
        /\ run'[r].pc \in {"look", "result"}
    BY <1>1, <1>2, <1>4, NothingRecorded, AdvanceKnows
  <2> QED
    BY <1>1, <1>2, <2>1, NothingRecorded, QuietStep
<1>5. CASE /\ recorded[Attempt(r)] # 0
           /\ run' = [run EXCEPT ![r].pc = "wait", ![r].job = recorded[Attempt(r)]]
  <2> DEFINE j == recorded[Attempt(r)]
             entry == [run[r] EXCEPT !.pc = "wait", !.job = j]
  <2>1. j \in Nat /\ j \in DOMAIN jobs /\ jobs[j].of = Attempt(r)
    BY <1>1, <1>3, <1>5 DEF Kinds, Recorded
  <2>2. j \in 0..Len(jobs)
    BY <1>1, <2>1, LenProperties DEF Kinds
  <2> HIDE DEF j
  <2>3. /\ entry \in RunRecords /\ entry.pc = "wait" /\ entry.job = j
        /\ entry.cell = run[r].cell /\ entry.attempt = run[r].attempt /\ ~entry.valid
    BY <1>1, <2>1 DEF RunRecords
  <2>4. run' = [run EXCEPT ![r] = entry]
    BY <1>5 DEF j
  <2> HIDE DEF entry
  <2>5. /\ run' \in [Runners -> RunRecords] /\ run'[r] = entry
        /\ \A q \in Runners \ {r} : run'[q] = run[q]
        /\ Attempt(r)' = <<entry.cell, entry.attempt>>
    BY <1>1, <2>3, <2>4, GotoMoves
  <2>6. Attempt(r)' = Attempt(r)
    BY <2>3, <2>5 DEF Attempt
  <2>7. recorded'[Attempt(r)] = j
    BY <1>1 DEF j
  <2>8. RunKnows(r)'
    BY <1>1, <2>1, <2>2, <2>3, <2>5, <2>6, <2>7 DEF RunKnows, Reached, Selected
  <2> QED
    BY <1>1, <1>2, <2>3, <2>5, <2>8, NothingRecorded, QuietStep
<1>6. CASE recorded[Attempt(r)] = 0 /\ Goto(r, "submit")
  <2> DEFINE entry == [run[r] EXCEPT !.pc = "submit"]
  <2>1. /\ entry \in RunRecords /\ entry.pc = "submit" /\ entry.job = run[r].job
        /\ entry.cell = run[r].cell /\ entry.attempt = run[r].attempt /\ ~entry.valid
    BY <1>1 DEF RunRecords
  <2>2. run' = [run EXCEPT ![r] = entry]
    BY <1>6 DEF Goto
  <2> HIDE DEF entry
  <2>3. /\ run' \in [Runners -> RunRecords] /\ run'[r] = entry
        /\ \A q \in Runners \ {r} : run'[q] = run[q]
        /\ Attempt(r)' = <<entry.cell, entry.attempt>>
    BY <1>1, <2>1, <2>2, GotoMoves
  <2>4. Attempt(r)' = Attempt(r)
    BY <2>1, <2>3 DEF Attempt
  <2>5. RunKnows(r)'
    BY <1>1, <2>1, <2>3 DEF RunKnows, Reached, Selected
  <2> QED
    BY <1>1, <1>2, <1>6, <2>1, <2>3, <2>4, <2>5, NothingRecorded, QuietStep
<1> QED
  BY <1>4, <1>5, <1>6 DEF Look

LEMMA WaitKeeps ==
  ASSUME CalibrationInv, NEW r \in Runners, Wait(r)
  PROVE  CalibrationInv'
<1> DEFINE j == run[r].job
           s == jobs[j].status
           step == IF s = "completed" THEN "evidence" ELSE "record"
           entry == [run[r] EXCEPT !.status = s, !.pc = step]
<1>1. /\ Kinds /\ jobs' = jobs /\ recorded' = recorded /\ outcome' = outcome /\ result' = result
      /\ run[r].pc = "wait" /\ RunKnows(r) /\ s \in Terminal /\ run[r] \in RunRecords
      /\ run' = [run EXCEPT ![r] = entry]
  BY DEF Wait, CalibrationInv, files, Kinds
<1>2. CountsStay /\ Len(jobs') \in Nat
  BY <1>1, LenProperties, CountsSame DEF Wait, Kinds
<1>3. /\ Reached(run[r].cell, run[r].attempt) /\ ~run[r].valid /\ j \in 0..Len(jobs)
      /\ j \in DOMAIN jobs /\ jobs[j].of = Attempt(r) /\ recorded[Attempt(r)] = j
  BY <1>1 DEF RunKnows
<1>4. Seen(j, s)
  BY DEF Seen
<1> HIDE DEF s
<1>5. /\ entry \in RunRecords /\ entry.job = j /\ entry.pc = step /\ entry.status = s
      /\ entry.cell = run[r].cell /\ entry.attempt = run[r].attempt /\ ~entry.valid
      /\ step \in {"evidence", "record"} /\ (step = "evidence" <=> s = "completed")
  BY <1>1, <1>3 DEF RunRecords
<1> HIDE DEF entry, step, j
<1>6. /\ run' \in [Runners -> RunRecords] /\ run'[r] = entry
      /\ \A q \in Runners \ {r} : run'[q] = run[q]
      /\ Attempt(r)' = <<entry.cell, entry.attempt>>
  BY <1>1, <1>5, GotoMoves
<1>7. Attempt(r)' = Attempt(r)
  BY <1>5, <1>6 DEF Attempt
<1>8. RunKnows(r)'
  BY <1>1, <1>3, <1>4, <1>5, <1>6, <1>7 DEF RunKnows, Reached, Selected, Seen
<1> QED
  BY <1>1, <1>2, <1>5, <1>6, <1>8, NothingRecorded, QuietStep

\* Evidence that is refused although the job completed: something was kept from the
\* files, or the list is full.
LEMMA ReadEvidenceKeeps ==
  ASSUME CalibrationInv, NEW r \in Runners, ReadEvidence(r)
  PROVE  CalibrationInv'
<1> DEFINE j == run[r].job
           ok == ListAnswers /\ j \in Listed
<1>1. /\ Kinds /\ jobs' = jobs /\ recorded' = recorded /\ outcome' = outcome /\ result' = result
      /\ run[r].pc = "evidence" /\ RunKnows(r) /\ run[r] \in RunRecords /\ OneActive
  BY DEF ReadEvidence, CalibrationInv, files, Kinds
<1>2. CountsStay /\ Len(jobs') \in Nat
  BY <1>1, LenProperties, Parameters
  DEF ReadEvidence, Fault, Kinds, CalibrationInv, CountsStay
<1>3. /\ Reached(run[r].cell, run[r].attempt) /\ ~run[r].valid /\ j \in 0..Len(jobs)
      /\ j \in DOMAIN jobs /\ jobs[j].of = Attempt(r) /\ recorded[Attempt(r)] = j
      /\ run[r].status = "completed" /\ Seen(j, "completed")
  BY <1>1 DEF RunKnows
<1>4. ok => Proven(j)
  BY <1>3 DEF ListAnswers, Listed, Proven
<1>5. ~ok => Discounted(j)
  <2> SUFFICES ASSUME faults = 0, ~ok PROVE Cardinality(CompletedSince(j)) >= Page
    BY <1>1, Parameters DEF Discounted, Kinds
  <2>1. \A k \in DOMAIN jobs : jobs[k].kept = "written"
    BY <1>1 DEF OneActive
  <2>2. jobs[j].status = "completed"
    BY <1>3, <2>1 DEF Seen
  <2>3. ListAnswers
    BY <2>1 DEF ListAnswers, Listed
  <2>4. ~(Cardinality(CompletedSince(j)) < Page)
    BY <1>3, <2>2, <2>3 DEF Listed
  <2>5. Cardinality(CompletedSince(j)) \in Nat
    <3>1. CompletedSince(j) \in SUBSET (1..Len(jobs)) /\ Len(jobs) \in Nat
      BY <1>1, LenProperties DEF Kinds, CompletedSince
    <3>2. IsFiniteSet(1..Len(jobs))
      BY <3>1, FS_Interval
    <3> QED
      BY <3>1, <3>2, FS_Subset, FS_CardinalityType
  <2> QED
    BY <2>4, <2>5, Parameters
<1> HIDE DEF ok
<1>6. ASSUME NEW v \in BOOLEAN, run' = [run EXCEPT ![r] = [run[r] EXCEPT !.valid = v, !.pc = "record"]],
             v => ok, ~v => ~ok \/ faults' > 0
      PROVE  CalibrationInv'
  <2> DEFINE entry == [run[r] EXCEPT !.valid = v, !.pc = "record"]
  <2>1. /\ entry \in RunRecords /\ entry.job = j /\ entry.pc = "record"
        /\ entry.status = "completed" /\ entry.valid = v
        /\ entry.cell = run[r].cell /\ entry.attempt = run[r].attempt
    BY <1>1, <1>3 DEF RunRecords
  <2>2. run' = [run EXCEPT ![r] = entry]
    BY <1>6
  <2> HIDE DEF entry, j
  <2>3. /\ run' \in [Runners -> RunRecords] /\ run'[r] = entry
        /\ \A q \in Runners \ {r} : run'[q] = run[q]
        /\ Attempt(r)' = <<entry.cell, entry.attempt>>
    BY <1>1, <2>1, <2>2, GotoMoves
  <2>4. Attempt(r)' = Attempt(r)
    BY <2>1, <2>3 DEF Attempt
  <2>5. /\ v => Proven(j)
        /\ ~v => faults' > 0 \/ Cardinality(CompletedSince(j)) >= Page
    BY <1>1, <1>2, <1>4, <1>5, <1>6, Parameters DEF Discounted, Kinds, CountsStay
  <2>6. RunKnows(r)'
    BY <1>1, <1>3, <2>1, <2>3, <2>4, <2>5
    DEF RunKnows, Reached, Selected, Seen, Proven, Discounted, CompletedSince, Terminal
  <2> QED
    BY <1>1, <1>2, <2>1, <2>3, <2>6, NothingRecorded, QuietStep
<1>7. CASE run' = [run EXCEPT ![r].valid = ListAnswers /\ run[r].job \in Listed, ![r].pc = "record"]
  <2>1. ok \in BOOLEAN /\ run' = [run EXCEPT ![r] = [run[r] EXCEPT !.valid = ok, !.pc = "record"]]
    BY <1>1, <1>7 DEF ok, Kinds, ListAnswers
  <2> QED
    BY <1>6, <2>1
<1>8. CASE Fault /\ Goto(r, "record")
  <2>1. faults' > 0
    BY <1>1, <1>8, Parameters DEF Fault, Kinds
  <2>2. [run[r] EXCEPT !.valid = FALSE, !.pc = "record"] = [run[r] EXCEPT !.pc = "record"]
    BY <1>1, <1>3 DEF RunRecords
  <2>3. run' = [run EXCEPT ![r] = [run[r] EXCEPT !.valid = FALSE, !.pc = "record"]]
    BY <1>8, <2>2 DEF Goto
  <2> QED
    BY <1>6, <2>1, <2>3
<1> QED
  BY <1>7, <1>8 DEF ReadEvidence

LEMMA RecordKeeps ==
  ASSUME CalibrationInv, NEW r \in Runners, Record(r)
  PROVE  CalibrationInv'
<1> DEFINE o == [status |-> run[r].status, job |-> run[r].job, valid |-> run[r].valid]
<1>1. /\ Kinds /\ jobs' = jobs /\ recorded' = recorded /\ result' = result
      /\ run[r].pc = "record" /\ RunKnows(r) /\ run[r] \in RunRecords
  BY DEF Record, CalibrationInv, Kinds
<1>2. CountsStay /\ Len(jobs') \in Nat
  BY <1>1, LenProperties, CountsSame DEF Record, Kinds
<1>3. PICK x0 \in Attempts : x0 = Attempt(r)
  BY <1>1 DEF RunRecords, Attempt, Attempts
<1>4. CASE outcome[x0] = None /\ outcome' = [outcome EXCEPT ![x0] = o] /\ Advance(r, o)
  <2>1. /\ o.status = run[r].status /\ o.job = run[r].job /\ o.valid = run[r].valid
        /\ o \in Outcomes /\ o.status \in Terminal
    BY <1>1 DEF RunKnows, RunRecords, Outcomes
  <2>2. o # None
    BY <2>1 DEF None, Terminal
  <2> HIDE DEF o
  <2>3. /\ outcome' \in [Attempts -> Outcomes] /\ outcome'[x0] = o
        /\ \A x \in Attempts : x # x0 => outcome'[x] = outcome[x]
    BY <1>1, <1>3, <1>4, <2>1 DEF Kinds
  <2>4. OutcomesGrow
    BY <1>3, <1>4, <2>3 DEF OutcomesGrow
  <2>5. Reached(run[r].cell, run[r].attempt)
    BY <1>1 DEF RunKnows
  <2>6. /\ RunKnows(r)' /\ run' \in [Runners -> RunRecords]
        /\ \A q \in Runners \ {r} : run'[q] = run[q]
        /\ run'[r].pc \in {"look", "result"}
    BY <1>1, <1>2, <1>3, <1>4, <2>2, <2>3, <2>4, <2>5, AdvanceKnows DEF o
  <2>7. Recorded(x0)'
    <3>1. PICK k \in Nat : k = run[r].job /\ k = recorded[x0] /\ k \in DOMAIN jobs
      BY <1>1, <1>3 DEF RunKnows, RunRecords
    <3>2. k # 0
      BY <1>1, <3>1, LenProperties DEF Kinds
    <3>3. jobs[k].of = x0 /\ Reached(x0[1], x0[2])
      BY <1>1, <1>3, <3>1, <3>2 DEF CalibrationInv, Recorded
    <3>4. x0[1] \in 1..Cells /\ x0[2] \in {1, 2}
      BY <1>3 DEF Attempts
    <3>5. Reached(x0[1], x0[2])'
      BY <1>1, <2>4, <3>3, <3>4, ReachedKept
    <3>6. Discounted(k) => Discounted(k)'
      BY <1>1, <1>2, Parameters DEF Discounted, CompletedSince, CountsStay, Kinds
    <3>7. recorded'[x0] # 0 =>
            recorded'[x0] \in DOMAIN jobs' /\ jobs'[recorded'[x0]].of = x0 /\ Reached(x0[1], x0[2])'
      BY <1>1, <3>1, <3>3, <3>5
    <3>8. /\ outcome'[x0].job = k /\ outcome'[x0].status \in Terminal
          /\ jobs'[k].status = outcome'[x0].status \/ jobs'[k].kept = "replaced"
          /\ outcome'[x0].valid => jobs'[k].status = "completed" /\ jobs'[k].kept = "written"
          /\ outcome'[x0].status = "completed" /\ ~outcome'[x0].valid => Discounted(k)'
      BY <1>1, <2>1, <2>3, <3>1, <3>6 DEF RunKnows, Seen, Proven
    <3>9. recorded'[x0] = k
      BY <1>1, <3>1
    <3> QED
      BY <3>2, <3>7, <3>8, <3>9 DEF Recorded, Seen, Proven, Discounted, CompletedSince
  <2> QED
    BY <1>1, <1>2, <2>3, <2>4, <2>6, <2>7, QuietStep
<1>5. CASE End(r) /\ UNCHANGED outcome
  BY <1>1, <1>2, <1>5, EndKnows, NothingRecorded, QuietStep
<1> QED
  BY <1>3, <1>4, <1>5 DEF Record

-----------------------------------------------------------------------------
(***************************************************************************)
(* Submitting a job and recording it.                                      *)
(***************************************************************************)

\* An accepted job is the last one and belongs to the attempt it was submitted for.
LEMMA JobAdded ==
  ASSUME Kinds, OneActive, ~SomeActive, NEW x0 \in Attempts, jobs' = Append(jobs, NewJob(x0)),
         CountsStay
  PROVE  /\ JobsGrow /\ OneActive' /\ Len(jobs') = Len(jobs) + 1 /\ Len(jobs) \in Nat
         /\ jobs'[Len(jobs) + 1].of = x0 /\ Len(jobs) + 1 \in DOMAIN jobs'
         /\ \A x \in Attempts : x # x0 => JobsOf(x)' = JobsOf(x)
         /\ Cardinality(JobsOf(x0)') = Cardinality(JobsOf(x0)) + 1
<1> DEFINE n == Len(jobs)
           new == NewJob(x0)
<1>1. new \in JobRecords /\ new.of = x0 /\ new.status = "active" /\ new.kept = "written"
  BY DEF NewJob, JobRecords
<1> HIDE DEF new
<1>2. /\ jobs \in Seq(JobRecords) /\ n \in Nat /\ DOMAIN jobs = 1..n
      /\ jobs' \in Seq(JobRecords) /\ Len(jobs') = n + 1 /\ DOMAIN jobs' = 1..(n + 1)
      /\ \A i \in 1..n : jobs'[i] = jobs[i]
      /\ jobs'[n + 1] = new
  <2>1. jobs \in Seq(JobRecords) /\ jobs' = Append(jobs, new)
    BY DEF Kinds, new
  <2> QED
    BY <1>1, <2>1, AppendProperties, LenProperties
<1>3. JobsGrow
  <2>1. faults \in Nat /\ faults' \in Nat /\ faults <= faults'
    BY Parameters DEF Kinds, CountsStay
  <2> QED
    BY <1>2, <2>1 DEF JobsGrow, Proven, Seen
<1>4. OneActive'
  <2>1. \A j \in DOMAIN jobs' : jobs'[j].status = "active" => j = n + 1
    BY <1>2 DEF SomeActive
  <2>2. ASSUME NEW j \in DOMAIN jobs'
        PROVE  /\ jobs'[j].status = "active" => jobs'[j].kept = "written"
               /\ faults' = 0 => jobs'[j].kept = "written"
    <3>1. j = n + 1 \/ j \in 1..n
      BY <1>2, <2>2
    <3>2. faults' = 0 => faults = 0
      BY Parameters DEF Kinds, CountsStay
    <3> QED
      BY <1>1, <1>2, <3>1, <3>2 DEF OneActive
  <2> QED
    BY <2>1, <2>2 DEF OneActive
<1>5. ASSUME NEW x \in Attempts, x # x0 PROVE JobsOf(x)' = JobsOf(x)
  BY <1>1, <1>2, <1>5 DEF JobsOf
<1>6. Cardinality(JobsOf(x0)') = Cardinality(JobsOf(x0)) + 1
  <2>1. JobsOf(x0)' = JobsOf(x0) \cup {n + 1} /\ n + 1 \notin JobsOf(x0)
    BY <1>1, <1>2 DEF JobsOf
  <2>2. IsFiniteSet(JobsOf(x0))
    BY Counts
  <2> QED
    BY <2>1, <2>2, FS_AddElement
<1> QED
  BY <1>1, <1>2, <1>3, <1>4, <1>5, <1>6

\* The identifier of an accepted job is with its run, or counted as lost.
Accounted(r, x) == lost < lost' \/ (run'[r].pc = "save" /\ Attempt(r)' = x)

LEMMA SubmitKeeps ==
  ASSUME CalibrationInv, NEW r \in Runners, Submit(r)
  PROVE  CalibrationInv'
<1>1. /\ Kinds /\ OneActive /\ recorded' = recorded /\ outcome' = outcome /\ result' = result
      /\ run[r].pc = "submit" /\ RunKnows(r) /\ run[r] \in RunRecords
  BY DEF Submit, CalibrationInv, files, Kinds
<1>2. PICK x0 \in Attempts : x0 = Attempt(r)
  BY <1>1 DEF RunRecords, Attempt, Attempts
<1>3. CASE SomeActive /\ End(r) /\ UNCHANGED <<jobs, lost, stops>>
  <2>1. Len(jobs') \in Nat
    BY <1>1, <1>3, LenProperties DEF Kinds
  <2>2. CountsStay
    BY <1>1, <1>3, Parameters DEF Submit, CalibrationInv, Kinds, CountsStay
  <2> QED
    BY <1>1, <1>3, <2>1, <2>2, EndKnows, NothingRecorded, QuietStep
<1>4. ASSUME ~SomeActive, jobs' = Append(jobs, NewJob(x0)), CountsStay,
             run' \in [Runners -> RunRecords], \A q \in Runners \ {r} : run'[q] = run[q],
             RunKnows(r)', run'[r].pc # "submit",
             Accounted(r, x0)
      PROVE  CalibrationInv'
  <2>1. /\ JobsGrow /\ OneActive' /\ Len(jobs') = Len(jobs) + 1 /\ Len(jobs) \in Nat
        /\ \A x \in Attempts : x # x0 => JobsOf(x)' = JobsOf(x)
        /\ Cardinality(JobsOf(x0)') = Cardinality(JobsOf(x0)) + 1
    BY <1>1, <1>4, JobAdded
  <2>2. Kinds'
    BY <1>1, <1>4, <2>1 DEF Kinds, JobsGrow, CountsStay
  <2>3. OutcomesGrow
    BY <1>1, NothingRecorded
  <2>4. \A x \in Attempts : Recorded(x)'
    BY <1>1, <2>1, <2>3, RecordedKept DEF CalibrationInv
  <2>5. \A q \in Runners : RunKnows(q)'
    BY <1>1, <1>4, <2>1, <2>3, OthersKnow
  <2>6. ASSUME NEW x \in Attempts, x # x0 PROVE Repeats(x)'
    <3>1. JobsOf(x)' = JobsOf(x) /\ recorded'[x] = recorded[x] /\ lost <= lost'
      BY <1>1, <1>4, <2>1, <2>6 DEF CountsStay
    <3>2. r \notin At("save", x) /\ r \notin At("submit", x)'
      BY <1>1, <1>4 DEF At
    <3> QED
      BY <1>1, <1>4, <2>2, <3>1, <3>2, RepeatsKept DEF CalibrationInv
  <2>7. Repeats(x0)'
    <3> DEFINE S == At("save", x0)
               T == At("submit", x0)
               J == JobsOf(x0)
    <3>1. /\ Cardinality(J) \in Nat /\ IsFiniteSet(S) /\ Cardinality(S) \in Nat
          /\ IsFiniteSet(T) /\ Cardinality(T) \in Nat /\ Cardinality(Runners) \in Nat
      BY <1>1, Counts
    <3>2. /\ IsFiniteSet(S') /\ Cardinality(S') \in Nat
          /\ IsFiniteSet(T') /\ Cardinality(T') \in Nat
      <4>1. S' \in SUBSET Runners /\ T' \in SUBSET Runners
        BY DEF At
      <4> QED
        BY <4>1, Parameters, FS_Subset, FS_CardinalityType
    <3>3. r \in T /\ r \notin S
      BY <1>1, <1>2 DEF At
    <3>4. T' \subseteq T \ {r}
      BY <1>4 DEF At, Attempt
    <3>5. S \subseteq S' /\ (lost < lost' \/ S \cup {r} \subseteq S')
      <4>1. S \subseteq S'
        BY <1>4, <3>3 DEF At, Attempt
      <4>2. run'[r].pc = "save" /\ Attempt(r)' = x0 => r \in S'
        BY DEF At
      <4> QED
        BY <1>4, <4>1, <4>2 DEF Accounted
    <3>6. Cardinality(T') <= Cardinality(T) - 1
      <4>1. IsFiniteSet(T \ {r}) /\ Cardinality(T \ {r}) = Cardinality(T) - 1
        BY <3>1, <3>3, FS_RemoveElement
      <4> QED
        BY <3>4, <4>1, FS_Subset
    <3>7. /\ Cardinality(S) <= Cardinality(S')
          /\ lost < lost' \/ Cardinality(S) + 1 <= Cardinality(S')
      <4>1. Cardinality(S \cup {r}) = Cardinality(S) + 1
        BY <3>1, <3>3, FS_AddElement
      <4>2. S \cup {r} \subseteq S' => Cardinality(S \cup {r}) <= Cardinality(S')
        BY <3>2, FS_Subset
      <4>3. Cardinality(S) <= Cardinality(S')
        BY <3>2, <3>5, FS_Subset
      <4> QED
        BY <3>5, <4>1, <4>2, <4>3
    <3>8. lost \in Nat /\ lost' \in Nat /\ lost <= lost'
      BY <1>1, <1>4 DEF Kinds, CountsStay
    <3>9. Repeats(x0) /\ recorded'[x0] = recorded[x0]
      BY <1>1 DEF CalibrationInv
    <3> HIDE DEF S, T, J
    <3>10. CASE recorded[x0] = 0
      <4>1. Cardinality(J) <= Cardinality(S) + lost
        BY <3>9, <3>10 DEF Repeats, S, J
      <4>2. Cardinality(J) + 1 <= Cardinality(S') + lost'
        BY <3>1, <3>2, <3>7, <3>8, <4>1
      <4> QED
        BY <2>1, <3>9, <3>10, <4>2 DEF Repeats, S, J
    <3>11. CASE recorded[x0] # 0
      <4>1. Cardinality(J) + Cardinality(T) <= Cardinality(Runners) + lost
        BY <3>9, <3>11 DEF Repeats, T, J
      <4>2. (Cardinality(J) + 1) + Cardinality(T') <= Cardinality(Runners) + lost'
        BY <3>1, <3>2, <3>6, <3>8, <4>1
      <4> QED
        BY <2>1, <3>9, <3>11, <4>2 DEF Repeats, T, J
    <3> QED
      BY <3>10, <3>11
  <2>8. \A c \in 1..Cells : Selected(c)' = Selected(c)
    BY <1>1 DEF Selected
  <2> QED
    BY <1>1, <1>4, <2>1, <2>2, <2>4, <2>5, <2>6, <2>7, <2>8 DEF CalibrationInv, CountsStay
<1>5. CASE /\ ~SomeActive /\ jobs' = Append(jobs, NewJob(Attempt(r)))
           /\ run' = [run EXCEPT ![r].pc = "save", ![r].job = Len(jobs) + 1]
           /\ UNCHANGED <<lost, stops>>
  <2> DEFINE j == Len(jobs) + 1
             entry == [run[r] EXCEPT !.pc = "save", !.job = j]
  <2>1. CountsStay
    BY <1>1, <1>5, Parameters DEF Submit, CalibrationInv, Kinds, CountsStay
  <2>2. jobs' = Append(jobs, NewJob(x0))
    BY <1>2, <1>5
  <2>3. /\ Len(jobs') = j /\ j \in Nat /\ j \in DOMAIN jobs' /\ jobs'[j].of = x0
    BY <1>1, <1>5, <2>1, <2>2, JobAdded
  <2> HIDE DEF j
  <2>4. /\ entry \in RunRecords /\ entry.pc = "save" /\ entry.job = j
        /\ entry.cell = run[r].cell /\ entry.attempt = run[r].attempt
        /\ entry.valid = run[r].valid
    BY <1>1, <2>3 DEF RunRecords
  <2>5. run' = [run EXCEPT ![r] = entry]
    BY <1>5 DEF j
  <2> HIDE DEF entry
  <2>6. /\ run' \in [Runners -> RunRecords] /\ run'[r] = entry
        /\ \A q \in Runners \ {r} : run'[q] = run[q]
        /\ Attempt(r)' = <<entry.cell, entry.attempt>>
    BY <1>1, <2>4, <2>5, GotoMoves
  <2>7. Attempt(r)' = x0
    BY <1>2, <2>4, <2>6 DEF Attempt
  <2>8. RunKnows(r)'
    BY <1>1, <2>3, <2>4, <2>6, <2>7 DEF RunKnows, Reached, Selected
  <2>9. Accounted(r, x0) /\ run'[r].pc # "submit" /\ ~SomeActive
    BY <1>5, <2>4, <2>6, <2>7 DEF Accounted
  <2> QED
    BY <1>4, <2>1, <2>2, <2>6, <2>8, <2>9
<1>6. CASE ~SomeActive /\ jobs' = Append(jobs, NewJob(Attempt(r))) /\ Stop /\ End(r) /\ lost' = lost + 1
  <2>1. CountsStay /\ lost < lost'
    BY <1>1, <1>6, Parameters DEF Submit, Stop, CalibrationInv, Kinds, CountsStay
  <2>2. jobs' = Append(jobs, NewJob(x0))
    BY <1>2, <1>6
  <2>3. Len(jobs') \in Nat
    BY <1>1, <1>6, <2>1, <2>2, JobAdded
  <2>4. /\ run' \in [Runners -> RunRecords] /\ \A q \in Runners \ {r} : run'[q] = run[q]
        /\ run'[r].pc # "submit" /\ RunKnows(r)'
    BY <1>1, <1>6, <2>3, EndKnows
  <2>5. Accounted(r, x0)
    <3>1. lost \in Nat /\ lost' = lost + 1
      BY <1>1, <1>6 DEF Kinds
    <3>2. lost < lost'
      BY <3>1
    <3> QED
      BY <3>2 DEF Accounted
  <2>6. ~SomeActive
    BY <1>6
  <2> QED
    BY <1>4, <2>1, <2>2, <2>4, <2>5, <2>6
<1> QED
  BY <1>3, <1>5, <1>6 DEF Submit

LEMMA SaveKeeps ==
  ASSUME CalibrationInv, NEW r \in Runners, Save(r)
  PROVE  CalibrationInv'
<1>1. /\ Kinds /\ jobs' = jobs /\ outcome' = outcome /\ result' = result
      /\ run[r].pc = "save" /\ RunKnows(r) /\ run[r] \in RunRecords /\ OneActive
  BY DEF Save, CalibrationInv, Kinds
<1>2. CountsStay /\ Len(jobs') \in Nat /\ lost' = lost
  BY <1>1, LenProperties, CountsSame DEF Save, Kinds
<1>3. PICK x0 \in Attempts : x0 = Attempt(r)
  BY <1>1 DEF RunRecords, Attempt, Attempts
<1>4. PICK j \in Nat : j = run[r].job /\ j \in DOMAIN jobs /\ j # 0 /\ jobs[j].of = x0
  BY <1>1, <1>3, LenProperties DEF RunKnows, RunRecords, Kinds
<1>5. CASE recorded[x0] # 0 /\ End(r) /\ UNCHANGED recorded
  BY <1>1, <1>2, <1>3, <1>5, EndKnows, NothingRecorded, QuietStep
<1>6. CASE recorded[x0] = 0 /\ recorded' = [recorded EXCEPT ![x0] = j] /\ Goto(r, "wait")
  <2> DEFINE entry == [run[r] EXCEPT !.pc = "wait"]
  <2>1. /\ entry \in RunRecords /\ entry.pc = "wait" /\ entry.job = j
        /\ entry.cell = run[r].cell /\ entry.attempt = run[r].attempt
        /\ entry.valid = run[r].valid
    BY <1>1, <1>4 DEF RunRecords
  <2>2. run' = [run EXCEPT ![r] = entry]
    BY <1>6 DEF Goto
  <2> HIDE DEF entry
  <2>3. /\ run' \in [Runners -> RunRecords] /\ run'[r] = entry
        /\ \A q \in Runners \ {r} : run'[q] = run[q]
        /\ Attempt(r)' = <<entry.cell, entry.attempt>>
    BY <1>1, <2>1, <2>2, GotoMoves
  <2>4. Attempt(r)' = x0
    BY <1>3, <2>1, <2>3 DEF Attempt
  <2>5. /\ recorded' \in [Attempts -> Nat] /\ recorded'[x0] = j
        /\ \A x \in Attempts : x # x0 => recorded'[x] = recorded[x]
    BY <1>1, <1>4, <1>6 DEF Kinds
  <2>6. Kinds'
    BY <1>1, <1>2, <2>3, <2>5 DEF Kinds, CountsStay
  <2>7. JobsGrow /\ OutcomesGrow
    BY <1>1, <1>2, JobsSame, NothingRecorded
  <2>8. RunKnows(r)'
    <3>1. /\ Reached(run[r].cell, run[r].attempt)
          /\ ~run[r].valid /\ j \in 0..Len(jobs)
      BY <1>1, <1>4 DEF RunKnows
    <3> QED
      BY <1>1, <1>4, <2>1, <2>3, <2>4, <2>5, <3>1 DEF RunKnows, Reached, Selected
  <2>9. \A q \in Runners : RunKnows(q)'
    BY <1>6, <2>3, <2>5, <2>7, <2>8, OthersKnow
  <2>10. \A x \in Attempts : Recorded(x)'
    <3>1. \A x \in Attempts : x # x0 => Recorded(x)'
      BY <1>1, <2>5, <2>7, RecordedKept DEF CalibrationInv
    <3>2. Reached(x0[1], x0[2])'
      <4>1. Reached(run[r].cell, run[r].attempt)
        BY <1>1 DEF RunKnows
      <4>2. x0[1] = run[r].cell /\ x0[2] = run[r].attempt
        BY <1>3 DEF Attempt
      <4> QED
        BY <1>1, <4>1, <4>2 DEF Reached, Selected
    <3>3. outcome'[x0] = None
      BY <1>1, <1>6 DEF CalibrationInv, Recorded
    <3>4. Recorded(x0)'
      BY <1>1, <1>4, <2>5, <3>2, <3>3 DEF Recorded
    <3> QED
      BY <3>1, <3>4
  <2>11. ASSUME NEW x \in Attempts, x # x0 PROVE Repeats(x)'
    <3>1. JobsOf(x)' = JobsOf(x)
      BY <1>1 DEF JobsOf
    <3>2. r \notin At("save", x) /\ r \notin At("submit", x)'
      BY <1>3, <2>1, <2>3, <2>11 DEF At
    <3> QED
      BY <1>1, <1>2, <2>3, <2>5, <2>6, <2>11, <3>1, <3>2, RepeatsKept
      DEF CalibrationInv, CountsStay
  <2>12. Repeats(x0)'
    <3> DEFINE S == At("save", x0)
               T == At("submit", x0)
               J == JobsOf(x0)
    <3>1. /\ Cardinality(J) \in Nat /\ Cardinality(S) \in Nat
          /\ IsFiniteSet(T) /\ Cardinality(T) \in Nat /\ Cardinality(Runners) \in Nat
          /\ Cardinality(S) + Cardinality(T) <= Cardinality(Runners)
      BY <1>1, Counts
    <3>2. T' \subseteq T
      BY <2>1, <2>3 DEF At, Attempt
    <3>3. IsFiniteSet(T') /\ Cardinality(T') <= Cardinality(T)
      BY <3>1, <3>2, FS_Subset
    <3>4. Cardinality(T') \in Nat
      BY <3>3, FS_CardinalityType
    <3>5. J' = J
      BY <1>1 DEF JobsOf
    <3>6. Cardinality(J) <= Cardinality(S) + lost /\ lost \in Nat
      BY <1>1, <1>6 DEF CalibrationInv, Repeats, Kinds
    <3> HIDE DEF S, T, J
    <3>7. Cardinality(J') + Cardinality(T') <= Cardinality(Runners) + lost
      BY <3>1, <3>3, <3>4, <3>5, <3>6
    <3> QED
      BY <1>2, <1>4, <2>5, <3>7 DEF Repeats, T, J
  <2>13. result' => \A c \in 1..Cells : Selected(c)' # None
    BY <1>1 DEF CalibrationInv, Selected
  <2>14. OneActive' /\ lost' <= stops'
    BY <1>1, <1>2, Parameters DEF OneActive, CountsStay, Kinds
  <2> QED
    BY <2>6, <2>9, <2>10, <2>11, <2>12, <2>13, <2>14 DEF CalibrationInv
<1> QED
  BY <1>3, <1>4, <1>5, <1>6 DEF Save

-----------------------------------------------------------------------------
(***************************************************************************)
(* The workbench.                                                          *)
(***************************************************************************)

\* Jobs that end, or whose end is replaced, disturb nothing that is recorded.
LEMMA WorkbenchKeeps ==
  ASSUME CalibrationInv, JobsGrow, OneActive', CountsStay, UNCHANGED <<files, run, lost>>,
         DOMAIN jobs' = DOMAIN jobs
  PROVE  CalibrationInv'
<1>1. /\ Kinds /\ recorded' = recorded /\ outcome' = outcome /\ result' = result /\ run' = run
      /\ OutcomesGrow /\ lost' = lost
  BY DEF CalibrationInv, files, OutcomesGrow
<1>2. Kinds'
  BY <1>1 DEF Kinds, CountsStay, JobsGrow
<1>3. \A x \in Attempts : Recorded(x)'
  BY <1>1, RecordedKept DEF CalibrationInv
<1>4. \A r \in Runners : RunKnows(r)'
  <2> TAKE r \in Runners
  <2>1. RunKnows(r) /\ run'[r] = run[r] /\ recorded'[Attempt(r)] = recorded[Attempt(r)]
    BY <1>1 DEF CalibrationInv
  <2> QED
    BY <1>1, <2>1, RunKept
<1>5. \A x \in Attempts : Repeats(x)'
  <2> TAKE x \in Attempts
  <2>1. JobsOf(x)' = JobsOf(x)
    BY DEF JobsOf, JobsGrow
  <2>2. At("save", x)' = At("save", x) /\ At("submit", x)' = At("submit", x)
    BY <1>1 DEF At, Attempt
  <2> QED
    BY <1>1, <2>1, <2>2 DEF CalibrationInv, Repeats
<1>6. result' => \A c \in 1..Cells : Selected(c)' # None
  BY <1>1 DEF CalibrationInv, Selected
<1> QED
  BY <1>2, <1>3, <1>4, <1>5, <1>6 DEF CalibrationInv, CountsStay

LEMMA FinishKeeps ==
  ASSUME CalibrationInv, Finish
  PROVE  CalibrationInv'
<1>1. Kinds /\ OneActive /\ jobs \in Seq(JobRecords) /\ faults \in Nat
  BY Parameters DEF CalibrationInv, Kinds
<1>2. PICK j \in DOMAIN jobs, s \in Terminal :
        /\ jobs[j].status = "active"
        /\ \/ jobs' = [jobs EXCEPT ![j].status = s] /\ UNCHANGED faults
           \/ /\ Fault
              /\ jobs' = [jobs EXCEPT ![j].status = s, ![j].kept = "memory"]
  BY DEF Finish
<1>3. /\ DOMAIN jobs = 1..Len(jobs) /\ Len(jobs) \in Nat
      /\ \A i \in DOMAIN jobs : jobs[i] \in JobRecords
  BY <1>1, LenProperties, ElementOfSeq
<1>4. CountsStay
  BY <1>1, <1>2, Parameters DEF Finish, Fault, CalibrationInv, Kinds, CountsStay
<1>5. UNCHANGED <<files, run, lost>>
  BY DEF Finish
<1>6. ASSUME NEW k \in {"written", "memory"}, k = "memory" => faults' > 0,
             jobs' = [jobs EXCEPT ![j] = [jobs[j] EXCEPT !.status = s, !.kept = k]]
      PROVE  CalibrationInv'
  <2> DEFINE e == [jobs[j] EXCEPT !.status = s, !.kept = k]
  <2>1. e \in JobRecords /\ e.of = jobs[j].of /\ e.status = s /\ e.kept = k
    BY <1>3 DEF JobRecords
  <2>2. jobs' = [jobs EXCEPT ![j] = e]
    BY <1>6
  <2> HIDE DEF e
  <2>3. /\ jobs' \in Seq(JobRecords) /\ Len(jobs') = Len(jobs) /\ DOMAIN jobs' = DOMAIN jobs
        /\ \A i \in DOMAIN jobs : jobs'[i] = IF i = j THEN e ELSE jobs[i]
    <3>1. \A i \in 1..Len(jobs) : jobs'[i] = IF i = j THEN e ELSE jobs[i]
      BY <1>1, <1>2, <1>3, <2>1, <2>2, ExceptSeq
    <3>2. jobs' \in Seq(JobRecords) /\ Len(jobs') = Len(jobs)
      BY <1>1, <1>2, <1>3, <2>1, <2>2, ExceptSeq
    <3> QED
      BY <1>3, <3>1, <3>2, LenProperties
  <2>4. jobs[j].kept = "written" /\ s # "active"
    BY <1>1, <1>2 DEF OneActive, Terminal
  <2>5. \A i \in DOMAIN jobs : i # j => jobs[i].status # "active"
    BY <1>1, <1>2 DEF OneActive
  <2>6. faults <= faults' /\ faults' \in Nat
    BY <1>1, <1>4, Parameters DEF CountsStay
  <2>7. ASSUME NEW i \in DOMAIN jobs
        PROVE  /\ jobs'[i].of = jobs[i].of
               /\ Proven(i) => Proven(i)'
               /\ \A status \in Terminal : Seen(i, status) => Seen(i, status)'
               /\ faults' = 0 /\ jobs[i].status = "completed" => jobs'[i].status = "completed"
    <3>1. CASE i # j
      BY <2>3, <3>1 DEF Proven, Seen
    <3>2. CASE i = j
      BY <1>2, <2>1, <2>3, <2>4, <3>2 DEF Proven, Seen, Terminal
    <3> QED
      BY <3>1, <3>2
  <2>8. JobsGrow
    BY <1>3, <2>3, <2>6, <2>7 DEF JobsGrow
  <2>9. OneActive'
    <3>1. \A i \in DOMAIN jobs' : jobs'[i].status # "active"
      BY <2>1, <2>3, <2>4, <2>5
    <3>2. ASSUME NEW i \in DOMAIN jobs', faults' = 0 PROVE jobs'[i].kept = "written"
      <4>1. faults = 0 /\ k = "written"
        BY <1>1, <1>6, <2>6, <3>2
      <4> QED
        BY <1>1, <2>1, <2>3, <4>1 DEF OneActive
    <3> QED
      BY <3>1, <3>2 DEF OneActive
  <2> QED
    BY <1>4, <1>5, <2>3, <2>8, <2>9, WorkbenchKeeps
<1>7. CASE jobs' = [jobs EXCEPT ![j].status = s] /\ UNCHANGED faults
  <2>1. jobs[j] \in JobRecords /\ jobs[j].kept = "written"
    BY <1>1, <1>2, <1>3 DEF OneActive
  <2>2. [jobs[j] EXCEPT !.status = s] = [jobs[j] EXCEPT !.status = s, !.kept = "written"]
    BY <2>1 DEF JobRecords
  <2>3. jobs' = [jobs EXCEPT ![j] = [jobs[j] EXCEPT !.status = s, !.kept = "written"]]
    BY <1>7, <2>2
  <2> QED
    BY <1>6, <2>3
<1>8. CASE Fault /\ jobs' = [jobs EXCEPT ![j].status = s, ![j].kept = "memory"]
  <2>1. faults' > 0
    BY <1>1, <1>8 DEF Fault
  <2>2. jobs' = [jobs EXCEPT ![j] = [jobs[j] EXCEPT !.status = s, !.kept = "memory"]]
    BY <1>8
  <2> QED
    BY <1>6, <2>1, <2>2
<1> QED
  BY <1>2, <1>7, <1>8

LEMMA RestartKeeps ==
  ASSUME CalibrationInv, Restart
  PROVE  CalibrationInv'
<1>1. Kinds /\ OneActive /\ jobs \in Seq(JobRecords) /\ faults \in Nat /\ faults' = faults
  BY Parameters DEF CalibrationInv, Kinds, Restart
<1>2. /\ DOMAIN jobs = 1..Len(jobs) /\ Len(jobs) \in Nat
      /\ \A i \in DOMAIN jobs : jobs[i] \in JobRecords
  BY <1>1, LenProperties, ElementOfSeq
<1>3. CountsStay
  BY <1>1, Parameters DEF Restart, Stop, CalibrationInv, Kinds, CountsStay
<1>4. \A i \in DOMAIN jobs : jobs'[i] = AfterRestart(jobs[i])
  BY DEF Restart
<1>5. ASSUME NEW x \in JobRecords, x.status = "active" => x.kept = "written"
      PROVE  /\ AfterRestart(x) \in JobRecords /\ AfterRestart(x).of = x.of
             /\ AfterRestart(x).status # "active"
             /\ x.status # "active" /\ x.kept = "written" => AfterRestart(x) = x
             /\ x.status # "active" /\ x.kept # "written" => AfterRestart(x).kept = "replaced"
             /\ x.status = "active" => AfterRestart(x).kept = x.kept
  <2>1. CASE x.status = "active"
    <3>1. AfterRestart(x) = [x EXCEPT !.status = "final"]
      BY <1>5, <2>1 DEF AfterRestart
    <3> QED
      BY <2>1, <3>1 DEF JobRecords, Terminal
  <2>2. CASE x.status # "active" /\ x.kept = "memory"
    BY <2>2 DEF AfterRestart, JobRecords, Terminal
  <2>3. CASE x.status # "active" /\ x.kept # "memory"
    BY <2>3 DEF AfterRestart, JobRecords, Terminal
  <2> QED
    BY <2>1, <2>2, <2>3
<1>6. jobs' \in [1..Len(jobs) -> JobRecords]
  BY <1>1, <1>2, <1>5 DEF Restart, OneActive
<1>7. jobs' \in Seq(JobRecords) /\ Len(jobs') = Len(jobs) /\ DOMAIN jobs' = DOMAIN jobs
  BY <1>2, <1>6, SeqDef
<1>8. ASSUME NEW i \in DOMAIN jobs
      PROVE  /\ jobs'[i].of = jobs[i].of
             /\ Proven(i) => Proven(i)'
             /\ \A status \in Terminal : Seen(i, status) => Seen(i, status)'
             /\ faults' = 0 /\ jobs[i].status = "completed" => jobs'[i].status = "completed"
             /\ jobs'[i].status # "active"
             /\ faults' = 0 => jobs'[i].kept = "written"
  <2>1. /\ jobs'[i] = AfterRestart(jobs[i]) /\ jobs[i] \in JobRecords
        /\ jobs[i].status = "active" => jobs[i].kept = "written"
        /\ faults = 0 => jobs[i].kept = "written"
    BY <1>1, <1>2, <1>4 DEF OneActive
  <2>2. CASE jobs[i].status = "active"
    BY <1>1, <1>5, <2>1, <2>2 DEF Proven, Seen, Terminal
  <2>3. CASE jobs[i].status # "active" /\ jobs[i].kept = "written"
    BY <1>1, <1>5, <2>1, <2>3 DEF Proven, Seen, Terminal
  <2>4. CASE jobs[i].status # "active" /\ jobs[i].kept # "written"
    BY <1>1, <1>5, <2>1, <2>4 DEF Proven, Seen, Terminal
  <2> QED
    BY <2>2, <2>3, <2>4
<1>9. JobsGrow /\ OneActive'
  BY <1>1, <1>2, <1>7, <1>8 DEF JobsGrow, OneActive
<1>10. UNCHANGED <<files, run, lost>>
  BY DEF Restart
<1> QED
  BY <1>3, <1>7, <1>9, <1>10, WorkbenchKeeps

-----------------------------------------------------------------------------
LEMMA CalibrationInvInit == Init => CalibrationInv
<1> SUFFICES ASSUME Init PROVE CalibrationInv
  OBVIOUS
<1>1. /\ jobs = <<>> /\ result = FALSE /\ lost = 0 /\ overlaps = 0 /\ stops = 0 /\ faults = 0
      /\ recorded = [x \in Attempts |-> 0] /\ outcome = [x \in Attempts |-> None]
      /\ run = [r \in Runners |-> Off]
  BY DEF Init
<1>2. jobs \in Seq(JobRecords) /\ DOMAIN jobs = {} /\ Len(jobs) = 0
  BY <1>1, EmptySeq, LenProperties
<1>3. Off \in RunRecords /\ Off.pc = "off" /\ Off.job = 0 /\ ~Off.valid
  <2>1. 1 \in 1..Cells
    BY Parameters
  <2> QED
    BY <2>1 DEF Off, RunRecords
<1>4. None \in Outcomes
  BY DEF None, Outcomes
<1>5. Kinds
  <2>1. recorded \in [Attempts -> Nat] /\ run \in [Runners -> RunRecords]
    BY <1>1, <1>3
  <2>2. outcome \in [Attempts -> Outcomes]
    BY <1>1, <1>4
  <2>3. /\ lost \in Nat /\ overlaps \in 0..MaxOverlaps /\ stops \in 0..MaxStops
        /\ faults \in 0..MaxFaults
    BY <1>1, Parameters
  <2> QED
    BY <1>1, <1>2, <2>1, <2>2, <2>3 DEF Kinds
<1>6. OneActive
  BY <1>2 DEF OneActive
<1>7. \A x \in Attempts : Recorded(x)
  BY <1>1 DEF Recorded
<1>8. \A r \in Runners : RunKnows(r)
  BY <1>1, <1>2, <1>3 DEF RunKnows
<1>9. \A x \in Attempts : Repeats(x)
  <2> TAKE x \in Attempts
  <2>1. JobsOf(x) = {}
    BY <1>2 DEF JobsOf
  <2>2. Cardinality(JobsOf(x)) = 0
    BY <2>1, FS_EmptySet
  <2>3. Cardinality(At("save", x)) \in Nat
    BY <1>5, Counts
  <2> QED
    BY <1>1, <2>2, <2>3 DEF Repeats
<1> QED
  BY <1>1, <1>5, <1>6, <1>7, <1>8, <1>9 DEF CalibrationInv

LEMMA CalibrationInvStep == CalibrationInv /\ [Next]_vars => CalibrationInv'
<1> SUFFICES ASSUME CalibrationInv, [Next]_vars PROVE CalibrationInv'
  OBVIOUS
<1>1. CASE Finish
  BY <1>1, FinishKeeps
<1>2. CASE Restart
  BY <1>2, RestartKeeps
<1>3. ASSUME NEW r \in Runners, Start(r) \/ Step(r) \/ Break(r) PROVE CalibrationInv'
  BY <1>3, StartKeeps, BreakKeeps, LookKeeps, SubmitKeeps, SaveKeeps, WaitKeeps,
     ReadEvidenceKeeps, RecordKeeps, PublishResultKeeps DEF Step
<1>4. CASE UNCHANGED vars
  <2>1. /\ jobs' = jobs /\ UNCHANGED <<files, run, lost>> /\ UNCHANGED lost /\ UNCHANGED counts
    BY <1>4 DEF vars
  <2>2. CountsStay /\ Kinds /\ OneActive
    BY <2>1, CountsSame DEF CalibrationInv
  <2>3. JobsGrow /\ OneActive'
    BY <2>1, <2>2, JobsSame, Parameters DEF OneActive, counts
  <2> QED
    BY <2>1, <2>2, <2>3, WorkbenchKeeps
<1> QED
  BY <1>1, <1>2, <1>3, <1>4 DEF Next

LEMMA CalibrationInvAlways == Spec => []CalibrationInv
<1> QED
  BY CalibrationInvInit, CalibrationInvStep, PTL DEF Spec

\* The files, the jobs and the runs keep the kinds their comments say, records name
\* jobs that exist, and the workbench never has two active jobs.
THEOREM CalibrationTypes == Spec => []TypeOK
<1>1. ASSUME CalibrationInv PROVE TypeOK
  <2>1. Kinds /\ OneActive /\ lost <= stops
    BY <1>1 DEF CalibrationInv
  <2>2. DOMAIN jobs = 1..Len(jobs) /\ Len(jobs) \in Nat
    BY <2>1, LenProperties DEF Kinds
  <2>3. Cardinality({j \in DOMAIN jobs : jobs[j].status = "active"}) <= 1
    <3> DEFINE A == {j \in DOMAIN jobs : jobs[j].status = "active"}
    <3>1. CASE A = {}
      BY <3>1, FS_EmptySet
    <3>2. CASE A # {}
      <4>1. PICK j : A = {j}
        BY <2>1, <3>2 DEF OneActive
      <4>2. Cardinality(A) = Cardinality({j})
        BY <4>1
      <4>3. Cardinality({j}) = 1
        BY FS_Singleton
      <4> HIDE DEF A
      <4>4. Cardinality(A) <= 1
        BY <4>2, <4>3
      <4> QED
        BY <4>4 DEF A
    <3> QED
      BY <3>1, <3>2
  <2>4. \A x \in Attempts : recorded[x] \in 0..Len(jobs) /\ outcome[x].job \in 0..Len(jobs)
    <3> TAKE x \in Attempts
    <3>1. recorded[x] \in 0..Len(jobs)
      BY <1>1, <2>1, <2>2 DEF CalibrationInv, Recorded, Kinds
    <3>2. outcome[x] = None \/ outcome[x].job = recorded[x]
      BY <1>1 DEF CalibrationInv, Recorded
    <3> QED
      BY <2>2, <3>1, <3>2 DEF None
  <2>5. recorded \in [Attempts -> 0..Len(jobs)]
    BY <2>1, <2>4 DEF Kinds
  <2>6. outcome \in [Attempts -> [status : Terminal \cup {"none"}, job : 0..Len(jobs),
                                  valid : BOOLEAN]]
    <3>1. \A x \in Attempts :
            outcome[x] \in [status : Terminal \cup {"none"}, job : 0..Len(jobs), valid : BOOLEAN]
      BY <2>1, <2>4 DEF Kinds, Outcomes
    <3> QED
      BY <2>1, <3>1 DEF Kinds
  <2>7. run \in [Runners -> [pc : {"off", "look", "submit", "save", "wait", "evidence",
                                   "record", "result"},
                             cell : 1..Cells, attempt : {1, 2}, job : 0..Len(jobs),
                             status : Terminal \cup {"none"}, valid : BOOLEAN]]
    <3>1. \A r \in Runners : run[r].job \in 0..Len(jobs)
      BY <1>1 DEF CalibrationInv, RunKnows
    <3>2. \A r \in Runners :
            run[r] \in [pc : {"off", "look", "submit", "save", "wait", "evidence",
                              "record", "result"},
                        cell : 1..Cells, attempt : {1, 2}, job : 0..Len(jobs),
                        status : Terminal \cup {"none"}, valid : BOOLEAN]
      BY <2>1, <3>1 DEF Kinds, RunRecords
    <3> QED
      BY <2>1, <3>2 DEF Kinds
  <2>8. lost \in 0..MaxStops
    BY <2>1, Parameters DEF Kinds
  <2> QED
    BY <2>1, <2>3, <2>5, <2>6, <2>7, <2>8 DEF TypeOK, Kinds, JobRecords
<1> QED
  BY <1>1, CalibrationInvAlways, PTL

\* Whatever runs overlap, break off and resume: the recorded outcomes are those of the
\* recorded jobs of the same attempt, second attempts and later cells follow from the
\* outcomes before them, and the result from them all (experiments/calibration.py).
THEOREM OutcomesAreFounded == Spec => []OutcomesAreOfTheRecordedJobs
<1>1. ASSUME CalibrationInv PROVE OutcomesAreOfTheRecordedJobs
  <2>1. ASSUME NEW x \in Attempts
        PROVE  LET j == recorded[x] IN
               /\ j # 0 => jobs[j].of = x
               /\ outcome[x] # None =>
                    /\ j # 0 /\ outcome[x].job = j
                    /\ outcome[x].status = jobs[j].status \/ jobs[j].kept = "replaced"
                    /\ outcome[x].valid => jobs[j].status = "completed" /\ jobs[j].kept = "written"
               /\ x[2] = 2 /\ j # 0 => outcome[<<x[1], 1>>].status = "retryable"
               /\ x[1] > 1 /\ j # 0 => Selected(x[1] - 1) # None
    <3>1. Recorded(x)
      BY <1>1 DEF CalibrationInv
    <3>2. x[1] \in 1..Cells
      BY DEF Attempts
    <3>3. recorded[x] # 0 => Reached(x[1], x[2])
      BY <3>1 DEF Recorded
    <3>4. x[1] > 1 => x[1] - 1 \in 1..(x[1] - 1)
      BY <3>2, Parameters
    <3> QED
      BY <3>1, <3>3, <3>4 DEF Recorded, Reached, Seen, Proven
  <2> QED
    BY <1>1, <2>1 DEF CalibrationInv, OutcomesAreOfTheRecordedJobs
<1> QED
  BY <1>1, CalibrationInvAlways, PTL

\* The evidence of a completed job counts, unless a write or a request failed or the
\* list has no room for it (completed_evidence, completed_runs_for_task).
THEOREM CompletedWorkIsKept == Spec => []CompletedWorkCounts
<1>1. ASSUME CalibrationInv PROVE CompletedWorkCounts
  <2> SUFFICES ASSUME NEW x \in Attempts, outcome[x].status = "completed",
                      Cardinality(CompletedSince(outcome[x].job)) < Page, ~outcome[x].valid
               PROVE  faults > 0
    BY DEF CompletedWorkCounts
  <2>1. Recorded(x) /\ outcome[x] # None /\ Kinds
    BY <1>1 DEF CalibrationInv, None
  <2>2. Discounted(outcome[x].job)
    BY <2>1 DEF Recorded
  <2>3. Cardinality(CompletedSince(outcome[x].job)) \in Nat
    <3>1. CompletedSince(outcome[x].job) \in SUBSET (1..Len(jobs)) /\ Len(jobs) \in Nat
      BY <2>1, LenProperties DEF Kinds, CompletedSince
    <3>2. IsFiniteSet(1..Len(jobs))
      BY <3>1, FS_Interval
    <3> QED
      BY <3>1, <3>2, FS_Subset, FS_CardinalityType
  <2> QED
    BY <2>2, <2>3, Parameters DEF Discounted
<1> QED
  BY <1>1, CalibrationInvAlways, PTL

\* However often the calibration is resumed, an attempt has no more jobs than there
\* are runs at once and identifiers that were lost (orchestrate_calibration).
THEOREM RepetitionIsBounded == Spec => []OnlyLostJobsRepeat
<1>1. ASSUME CalibrationInv PROVE OnlyLostJobsRepeat
  <2> SUFFICES ASSUME NEW x \in Attempts
               PROVE  Cardinality(JobsOf(x)) <= Cardinality(Runners) + lost
    BY DEF OnlyLostJobsRepeat, JobsOf
  <2>1. Kinds /\ Repeats(x)
    BY <1>1 DEF CalibrationInv
  <2>2. /\ Cardinality(JobsOf(x)) \in Nat /\ Cardinality(At("save", x)) \in Nat
        /\ Cardinality(At("submit", x)) \in Nat /\ Cardinality(Runners) \in Nat
        /\ Cardinality(At("save", x)) + Cardinality(At("submit", x)) <= Cardinality(Runners)
    BY <2>1, Counts
  <2>3. lost \in Nat
    BY <2>1 DEF Kinds
  <2> QED
    BY <2>1, <2>2, <2>3 DEF Repeats
<1> QED
  BY <1>1, CalibrationInvAlways, PTL
=============================================================================
