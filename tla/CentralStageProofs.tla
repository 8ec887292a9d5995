------------------------- MODULE CentralStageProofs -------------------------
(***************************************************************************)
(* What the runs of the central screen leave in their files, for every     *)
(* length of a segment and every number of runs and faults.                *)
(*                                                                         *)
(* A run carries its own copy of the checkpoints (cps) and of the failure  *)
(* receipts (seen), and others may change the files meanwhile.  Rooted     *)
(* says what of the copy the files still bear out, OnItsWay where a run    *)
(* can be with so many checkpoints, Counted why a receipt is never counted *)
(* twice.  As long as no two runs have overlapped the evidence without a   *)
(* checkpoint is that of the cell in hand (Alone), and if no error was     *)
(* raised of a published checkpoint the files are those of some number of  *)
(* finished cells (Whole), which is what the next run requires.            *)
(***************************************************************************)
EXTENDS CentralStage, FiniteSetTheorems, SequenceTheorems, TLAPS

Counts == {cps \in Seq(0..MaxFaults) : Len(cps) <= Total}

Steps == {"off", "survey", "adopt", "next", "execute", "publish evidence", "compare",
          "publish checkpoint", "record", "reread", "validate", "summary", "manifest",
          "publish manifest", "final"}

RunRecords ==
  [pc : Steps, cps : Counts, seen : [Positions -> 0..MaxFaults], loco : BOOLEAN]

Kinds ==
  /\ red \in BOOLEAN
  /\ sidecars \subseteq Positions
  /\ checkpoints \subseteq (Positions \X (0..MaxFaults))
  /\ failures \in [Positions -> 0..MaxFaults]
  /\ summaries \subseteq {"loco", "lectra"}
  /\ manifests \subseteq Counts
  /\ run \in [Runners -> RunRecords]
  /\ finished \in BOOLEAN /\ together \in BOOLEAN /\ lateError \in BOOLEAN
  /\ faults \in 0..MaxFaults

\* Every failure receipt stands for a fault of its own: of the runs about to write
\* one, those that have not fallen behind the receipts had a fault since the last.
Counted ==
  /\ \A p \in Positions : failures[p] <= faults
  /\ \A r \in Runners, p \in Positions :
       /\ run[r].seen[p] <= failures[p]
       /\ run[r].pc = "record" /\ Unchanged(r, TRUE) => failures[p] < faults

\* The cells of the second segment are touched only after a red first one.
Branched ==
  /\ \A p \in sidecars : p > Segment => red
  /\ \A c \in checkpoints : c[1] > Segment => red
  /\ \A p \in Positions : failures[p] > 0 /\ p > Segment => red
  /\ "lectra" \in summaries => red

\* The cells that the branch of the classification needs.
End == IF red THEN Total ELSE Segment

\* Where a run is with a cell in hand.
AtCell ==
  {"execute", "publish evidence", "compare", "publish checkpoint", "record", "reread"}

OnItsWay(r) ==
  /\ Len(run[r].cps) > Segment => red
  /\ run[r].loco => "loco" \in summaries
  /\ run[r].loco /\ run[r].pc \notin {"manifest", "publish manifest", "final"} => red
  /\ run[r].pc \in AtCell \cup {"adopt"} => Len(run[r].cps) < Total
  /\ run[r].pc \in AtCell /\ Len(run[r].cps) >= Segment => run[r].loco
  /\ run[r].pc \in {"validate", "summary"} =>
       Len(run[r].cps) >= Segment /\ (run[r].loco => Len(run[r].cps) = Total)
  /\ run[r].pc \in {"manifest", "publish manifest"} =>
       Len(run[r].cps) = End /\ Needed \subseteq summaries

Rooted(r) ==
  /\ \A p \in 1..Len(run[r].cps) : <<p, run[r].cps[p]>> \in checkpoints
  /\ run[r].pc # "survey" => 1..Len(run[r].cps) \subseteq sidecars
  /\ run[r].pc \in {"adopt", "compare", "publish checkpoint", "reread"} => Here(r) \in sidecars
  /\ run[r].pc = "reread" => Checkpoint(r) \in checkpoints

Founded(m) ==
  /\ Len(m) = End
  /\ \A p \in 1..Len(m) : <<p, m[p]>> \in checkpoints /\ p \in sidecars
  /\ summaries = Needed

\* Where the cell in hand has no evidence yet.
Bare == {"next", "execute", "publish evidence", "validate", "summary", "manifest",
         "publish manifest"}

InHand(r) ==
  /\ run[r].pc \in Bare => Unbound(run[r].cps) = {}
  /\ run[r].pc \in {"adopt", "compare", "publish checkpoint", "reread"} =>
       Unbound(run[r].cps) \subseteq {Here(r)}

Alone ==
  ~together =>
    /\ \A r, s \in Runners : run[r].pc # "off" /\ run[s].pc # "off" => r = s
    /\ \A r \in Runners : InHand(r)

\* A run by itself publishes the only manifest.
OneManifest ==
  ~together =>
    /\ Cardinality(manifests) <= 1
    /\ \A r \in Runners : run[r].pc = "publish manifest" => manifests = {}

\* The counts of the first n cells.
Reads(cps, n) == Len(cps) = n /\ \A p \in 1..n : cps[p] = failures[p]

\* The files are those of n finished cells, and of what is known of one more.
FilesOf(n) ==
  /\ checkpoints = {<<p, failures[p]>> : p \in 1..n}
  /\ \A p \in Positions : failures[p] > 0 => p <= n + 1
  /\ 1..n \subseteq sidecars /\ sidecars \subseteq 1..(n + 1)
  /\ manifests # {} =>
       /\ \A p \in Positions : failures[p] > 0 => p <= n
       /\ sidecars = 1..n
       /\ \A m \in manifests : Reads(m, n)
       /\ summaries = Needed

\* A run that is under way knows them.
Knows(r, n) ==
  /\ run[r].pc # "reread" => Reads(run[r].cps, n)
  /\ run[r].pc = "reread" => n > 0 /\ Reads(run[r].cps, n - 1)
  /\ run[r].pc # "survey" => run[r].seen = failures
  /\ run[r].pc \notin {"survey", "final"} => manifests = {}

Whole(n) == FilesOf(n) /\ \A r \in Runners : run[r].pc # "off" => Knows(r, n)

CentralInv ==
  /\ Kinds /\ Counted /\ Branched
  /\ \A r \in Runners : OnItsWay(r) /\ Rooted(r)
  /\ \A m \in manifests : Founded(m)
  /\ Alone /\ OneManifest
  /\ ~together /\ ~lateError => \E n \in 0..Total : Whole(n)

-----------------------------------------------------------------------------
(***************************************************************************)
(* The ways a run changes what it knows.                                   *)
(***************************************************************************)
LEMMA Sizes == Segment \in Nat \ {0} /\ MaxFaults \in Nat /\ Total \in Nat /\ Total = 2 * Segment
BY Parameters DEF Total

LEMMA RunsAre ==
  ASSUME Kinds, NEW r \in Runners
  PROVE  /\ run[r] \in RunRecords
         /\ run[r].cps \in Seq(0..MaxFaults)
         /\ Len(run[r].cps) \in 0..Total /\ Here(r) \in 1..(Total + 1)
         /\ \A p \in 1..Len(run[r].cps) : run[r].cps[p] \in 0..MaxFaults
<1>1. run[r] \in RunRecords
  BY DEF Kinds
<1>2. run[r].cps \in Seq(0..MaxFaults) /\ Len(run[r].cps) <= Total
  BY <1>1 DEF RunRecords, Counts
<1>3. Len(run[r].cps) \in Nat
  BY <1>2, LenProperties
<1> QED
  BY <1>1, <1>2, <1>3, Sizes, ElementOfSeq DEF Here

LEMMA OffIsRecord == Off \in RunRecords
<1>1. <<>> \in Counts
  BY Sizes, EmptySeq DEF Counts
<1>2. [p \in Positions |-> 0] \in [Positions -> 0..MaxFaults]
  BY Sizes
<1> QED
  BY <1>1, <1>2 DEF Off, RunRecords, Steps

\* The others stay as they are.
Only(r) == run' \in [Runners -> RunRecords] /\ \A s \in Runners \ {r} : run'[s] = run[s]

LEMMA Stopped ==
  ASSUME Kinds, NEW r \in Runners, Stop(r)
  PROVE  Only(r) /\ run'[r] = Off
BY OffIsRecord DEF Kinds, Stop, Only

LEMMA Went ==
  ASSUME Kinds, NEW r \in Runners, NEW step \in Steps, Goto(r, step)
  PROVE  /\ Only(r) /\ run'[r].pc = step /\ run'[r].cps = run[r].cps
         /\ run'[r].seen = run[r].seen /\ run'[r].loco = run[r].loco
<1>1. run[r] \in RunRecords
  BY RunsAre
<1>2. [run[r] EXCEPT !.pc = step] \in RunRecords
  BY <1>1 DEF RunRecords
<1>3. run' = [run EXCEPT ![r] = [run[r] EXCEPT !.pc = step]]
  BY DEF Goto
<1> QED
  BY <1>1, <1>2, <1>3 DEF Kinds, Only, RunRecords

LEMMA Extended ==
  ASSUME Kinds, NEW r \in Runners, NEW count \in 0..MaxFaults, Extend(r, count),
         Len(run[r].cps) < Total
  PROVE  /\ Only(r) /\ run'[r].pc = "next" /\ run'[r].cps = Append(run[r].cps, count)
         /\ Len(run'[r].cps) = Len(run[r].cps) + 1
         /\ \A p \in 1..Len(run[r].cps) : run'[r].cps[p] = run[r].cps[p]
         /\ run'[r].cps[Here(r)] = count
         /\ run'[r].seen = run[r].seen /\ run'[r].loco = run[r].loco
<1> DEFINE longer == Append(run[r].cps, count)
<1>1. run[r] \in RunRecords /\ run[r].cps \in Seq(0..MaxFaults) /\ Len(run[r].cps) \in 0..Total
  BY RunsAre
<1>2. /\ longer \in Seq(0..MaxFaults) /\ Len(longer) = Len(run[r].cps) + 1
      /\ \A p \in 1..Len(run[r].cps) : longer[p] = run[r].cps[p]
      /\ longer[Here(r)] = count
  BY <1>1, AppendProperties DEF Here
<1>3. longer \in Counts
  BY <1>1, <1>2, Sizes DEF Counts
<1> HIDE DEF longer
<1>4. [run[r] EXCEPT !.cps = longer, !.pc = "next"] \in RunRecords
  BY <1>1, <1>3 DEF RunRecords, Steps
<1>5. run' = [run EXCEPT ![r] = [run[r] EXCEPT !.cps = longer, !.pc = "next"]]
  BY <1>1 DEF Extend, longer, Kinds, RunRecords
<1>6. Only(r) /\ run'[r].pc = "next" /\ run'[r].cps = longer
      /\ run'[r].seen = run[r].seen /\ run'[r].loco = run[r].loco
  BY <1>1, <1>4, <1>5 DEF Kinds, Only, RunRecords
<1> QED
  BY <1>2, <1>6 DEF longer

\* The counts that a run finds when its checkpoints are those of the first cells.
LEMMA FoundOnDisk ==
  ASSUME Kinds, IsPrefix
  PROVE  /\ OnDisk \in Counts
         /\ Checkpointed = 1..Len(OnDisk)
         /\ \A p \in 1..Len(OnDisk) : <<p, OnDisk[p]>> \in checkpoints
<1> DEFINE n == Cardinality(Checkpointed)
<1>1. Checkpointed \subseteq Positions
  BY DEF Kinds, Checkpointed
<1>2. IsFiniteSet(Positions) /\ Cardinality(Positions) = Total
  BY FS_Interval, Sizes DEF Positions
<1>3. n \in Nat /\ n <= Total
  BY <1>1, <1>2, FS_Subset, FS_CardinalityType
<1>4. Checkpointed = 1..n
  BY DEF IsPrefix
<1> HIDE DEF n
<1>5. ASSUME NEW p \in Checkpointed
      PROVE  OnDisk[p] \in 0..MaxFaults /\ <<p, OnDisk[p]>> \in checkpoints
  <2>1. \E c \in checkpoints : c[1] = p
    BY DEF Checkpointed
  <2>2. PICK c \in checkpoints : c = (CHOOSE d \in checkpoints : d[1] = p) /\ c[1] = p
    BY <2>1
  <2>3. c \in Positions \X (0..MaxFaults)
    BY DEF Kinds
  <2>4. OnDisk[p] = c[2]
    BY <2>2 DEF OnDisk
  <2> QED
    BY <2>2, <2>3, <2>4
<1>6. OnDisk \in [1..n -> 0..MaxFaults]
  BY <1>4, <1>5 DEF OnDisk
<1>7. OnDisk \in Seq(0..MaxFaults)
  <2>1. [1..n -> 0..MaxFaults] \in {[1..m -> 0..MaxFaults] : m \in Nat}
    BY <1>3
  <2> QED
    BY <1>6, <2>1, SeqDef, Zenon
<1>8. Len(OnDisk) = n
  BY <1>3, <1>6, <1>7
<1> QED
  BY <1>3, <1>4, <1>5, <1>7, <1>8 DEF Counts

LEMMA Started ==
  ASSUME Kinds, NEW r \in Runners, Start(r)
  PROVE  /\ Only(r) /\ run[r].pc = "off"
         /\ \/ run'[r] = run[r]
            \/ /\ NoCompetitors /\ IsPrefix
               /\ run'[r].pc = "survey" /\ run'[r].cps = OnDisk
               /\ run'[r].seen = run[r].seen /\ run'[r].loco = run[r].loco
<1>1. run[r] \in RunRecords /\ run[r].pc = "off"
  BY RunsAre DEF Start
<1>2. CASE NoCompetitors /\ IsPrefix
  <2>1. [run[r] EXCEPT !.pc = "survey", !.cps = OnDisk] \in RunRecords
    BY <1>1, <1>2, FoundOnDisk DEF RunRecords, Steps
  <2>2. run' = [run EXCEPT ![r] = [run[r] EXCEPT !.pc = "survey", !.cps = OnDisk]]
    BY <1>1, <1>2 DEF Start, Kinds, RunRecords
  <2> QED
    BY <1>1, <1>2, <2>1, <2>2 DEF Kinds, Only, RunRecords
<1>3. CASE ~(NoCompetitors /\ IsPrefix)
  BY <1>1, <1>3 DEF Start, Kinds, Only
<1> QED
  BY <1>2, <1>3

\* The way from the survey: to the result, to an orphan, or to the next cell.
LEMMA Surveyed ==
  ASSUME Kinds, NEW r \in Runners, Survey(r), Accepts(run[r].cps)
  PROVE  /\ Only(r) /\ run'[r].cps = run[r].cps
         /\ run'[r].seen = failures /\ run'[r].loco = run[r].loco
         /\ \/ run'[r].pc = "final" /\ manifests # {}
            \/ /\ run'[r].pc = "adopt" /\ manifests = {}
               /\ Unbound(run[r].cps) = {Here(r)} /\ Len(run[r].cps) < Total
            \/ run'[r].pc = "next" /\ manifests = {} /\ Unbound(run[r].cps) = {}
<1> DEFINE step == IF manifests # {} THEN "final"
                   ELSE IF Unbound(run[r].cps) # {} THEN "adopt" ELSE "next"
<1>1. run[r] \in RunRecords
  BY RunsAre
<1>2. /\ \/ step = "final" /\ manifests # {}
         \/ step = "adopt" /\ manifests = {} /\ Unbound(run[r].cps) # {}
         \/ step = "next" /\ manifests = {} /\ Unbound(run[r].cps) = {}
      /\ step \in Steps
  BY DEF Steps
<1>3. run' = [run EXCEPT ![r].seen = failures, ![r].pc = step]
  BY DEF Survey
<1> HIDE DEF step
<1>4. [run[r] EXCEPT !.seen = failures, !.pc = step] \in RunRecords
  BY <1>1, <1>2 DEF RunRecords, Kinds
<1>5. run' = [run EXCEPT ![r] = [run[r] EXCEPT !.seen = failures, !.pc = step]]
  BY <1>1, <1>3 DEF Kinds, RunRecords
<1>6. /\ Only(r) /\ run'[r].cps = run[r].cps /\ run'[r].pc = step
      /\ run'[r].seen = failures /\ run'[r].loco = run[r].loco
  BY <1>1, <1>4, <1>5 DEF Kinds, Only, RunRecords
<1>7. Unbound(run[r].cps) # {} => Len(run[r].cps) < Total /\ Unbound(run[r].cps) = {Here(r)}
  BY DEF Accepts, Here
<1> QED
  BY <1>2, <1>6, <1>7

\* The same run one step further, the run with one more cell, and the run that ended.
Walks(r, from, to) ==
  /\ Only(r) /\ run[r].pc = from /\ run'[r].pc \in to
  /\ run'[r].cps = run[r].cps /\ run'[r].seen = run[r].seen /\ run'[r].loco = run[r].loco

Adds(r) ==
  /\ Only(r) /\ run'[r].pc = "next"
  /\ Len(run'[r].cps) = Len(run[r].cps) + 1
  /\ \A p \in 1..Len(run[r].cps) : run'[r].cps[p] = run[r].cps[p]
  /\ run'[r].cps[Here(r)] = run[r].seen[Here(r)]
  /\ run'[r].cps = Append(run[r].cps, run[r].seen[Here(r)])
  /\ run'[r].seen = run[r].seen /\ run'[r].loco = run[r].loco

Leaves(r) == Only(r) /\ run'[r] = Off

LEMMA SeenIs ==
  ASSUME Kinds, NEW r \in Runners
  PROVE  run[r].seen \in [Positions -> 0..MaxFaults] /\ run[r].loco \in BOOLEAN
BY RunsAre DEF RunRecords

LEMMA HereIs ==
  ASSUME Kinds, NEW r \in Runners, Len(run[r].cps) < Total
  PROVE  Here(r) \in Positions /\ run[r].seen[Here(r)] \in 0..MaxFaults
<1>1. Here(r) \in Positions
  BY RunsAre, Sizes DEF Here, Positions
<1> QED
  BY <1>1, SeenIs

LEMMA AddsOne ==
  ASSUME Kinds, NEW r \in Runners, Len(run[r].cps) < Total, Extend(r, run[r].seen[Here(r)])
  PROVE  Adds(r)
<1>1. run[r].seen[Here(r)] \in 0..MaxFaults
  BY HereIs
<1> QED
  BY <1>1, Extended DEF Adds

LEMMA GoesOn ==
  ASSUME Kinds, NEW r \in Runners, NEW from, run[r].pc = from, NEW to \in Steps, Goto(r, to)
  PROVE  Walks(r, from, {to})
BY Went DEF Walks

LEMMA AdoptMoves ==
  ASSUME Kinds, NEW r \in Runners, OnItsWay(r), Adopt(r)
  PROVE  Adds(r) \/ Leaves(r)
<1>1. Len(run[r].cps) < Total
  BY DEF Adopt, OnItsWay
<1> QED
  BY <1>1, AddsOne, Stopped DEF Adopt, Leaves

LEMMA RereadMoves ==
  ASSUME Kinds, NEW r \in Runners, OnItsWay(r), Reread(r)
  PROVE  Adds(r) \/ Leaves(r)
<1>1. Len(run[r].cps) < Total
  BY DEF Reread, OnItsWay, AtCell
<1> QED
  BY <1>1, AddsOne, Stopped DEF Reread, Leaves

LEMMA NextStepMoves ==
  ASSUME Kinds, NEW r \in Runners, NextStep(r)
  PROVE  \/ /\ Walks(r, "next", {"execute"})
            /\ Len(run[r].cps) < Segment \/ (run[r].loco /\ Len(run[r].cps) < Total)
         \/ /\ Walks(r, "next", {"validate"})
            /\ Len(run[r].cps) >= Segment /\ (run[r].loco => Len(run[r].cps) = Total)
<1>1. Len(run[r].cps) \in 0..Total
  BY RunsAre
<1>2. CASE Len(run[r].cps) < Segment \/ (run[r].loco /\ Len(run[r].cps) < Total)
  BY <1>2, GoesOn DEF NextStep, Steps
<1>3. CASE ~(Len(run[r].cps) < Segment \/ (run[r].loco /\ Len(run[r].cps) < Total))
  <2>1. Walks(r, "next", {"validate"})
    BY <1>3, GoesOn DEF NextStep, Steps
  <2> QED
    BY <1>1, <1>3, <2>1, Sizes
<1> QED
  BY <1>2, <1>3

LEMMA ExecuteMoves ==
  ASSUME Kinds, NEW r \in Runners, Execute(r)
  PROVE  \/ Walks(r, "execute", {"publish evidence"}) /\ UNCHANGED faults
         \/ Walks(r, "execute", {"record"}) /\ Fault
BY GoesOn DEF Execute, Steps

LEMMA PublishEvidenceMoves ==
  ASSUME Kinds, NEW r \in Runners, PublishEvidence(r)
  PROVE  \/ /\ Walks(r, "publish evidence", {"compare"})
            /\ UNCHANGED faults /\ sidecars' = sidecars \cup {Here(r)}
         \/ Walks(r, "publish evidence", {"record"}) /\ Fault
BY GoesOn DEF PublishEvidence, Steps

LEMMA CompareMoves ==
  ASSUME Kinds, NEW r \in Runners, CompareFailures(r)
  PROVE  \/ Walks(r, "compare", {"publish checkpoint"}) /\ Unchanged(r, TRUE)
         \/ Walks(r, "compare", {"record"}) /\ ~Unchanged(r, TRUE)
BY GoesOn DEF CompareFailures, Steps

LEMMA PublishCheckpointMoves ==
  ASSUME Kinds, NEW r \in Runners, PublishCheckpoint(r)
  PROVE  \/ /\ Walks(r, "publish checkpoint", {"reread"})
            /\ UNCHANGED <<faults, lateError>>
            /\ checkpoints' = checkpoints \cup {Checkpoint(r)}
         \/ /\ Walks(r, "publish checkpoint", {"record"}) /\ Fault
            /\ checkpoints' = checkpoints \/ lateError'
BY GoesOn DEF PublishCheckpoint, Steps

LEMMA ValidateMoves ==
  ASSUME Kinds, NEW r \in Runners, Validate(r)
  PROVE  Walks(r, "validate", {"summary"}) \/ Leaves(r)
BY GoesOn, Stopped DEF Validate, Steps, Leaves

LEMMA FindManifestMoves ==
  ASSUME Kinds, NEW r \in Runners, FindManifest(r)
  PROVE  \/ Walks(r, "manifest", {"publish manifest"}) /\ manifests = {}
         \/ Walks(r, "manifest", {"final"})
         \/ Leaves(r)
BY GoesOn, Stopped DEF FindManifest, Steps, Leaves

LEMMA PublishManifestMoves ==
  ASSUME Kinds, NEW r \in Runners, PublishManifest(r)
  PROVE  \/ /\ Walks(r, "publish manifest", {"final"})
            /\ manifests' = manifests \cup {run[r].cps}
         \/ /\ Leaves(r)
            /\ manifests' \in {manifests, manifests \cup {run[r].cps}}
BY GoesOn, Stopped DEF PublishManifest, Steps, Leaves

LEMMA SummariseMoves ==
  ASSUME Kinds, NEW r \in Runners, Summarise(r)
  PROVE  \/ Leaves(r)
         \/ /\ Only(r) /\ run'[r].loco = TRUE
            /\ run'[r].cps = run[r].cps /\ run'[r].seen = run[r].seen
            /\ \/ ~run[r].loco /\ red /\ run'[r].pc = "next"
               \/ (run[r].loco \/ ~red) /\ run'[r].pc = "manifest"
            /\ summaries' = summaries \cup {IF run[r].loco THEN "lectra" ELSE "loco"}
<1> DEFINE segment == IF run[r].loco THEN "lectra" ELSE "loco"
           step == IF segment = "loco" /\ NeedsLectra THEN "next" ELSE "manifest"
<1>1. run[r] \in RunRecords
  BY RunsAre
<1>2. CASE run' = [run EXCEPT ![r].loco = TRUE, ![r].pc = step]
           /\ summaries' = summaries \cup {segment}
  <2>1. /\ step \in Steps
        /\ \/ ~run[r].loco /\ red /\ step = "next"
           \/ (run[r].loco \/ ~red) /\ step = "manifest"
    BY DEF Steps, NeedsLectra
  <2> HIDE DEF step
  <2>2. [run[r] EXCEPT !.loco = TRUE, !.pc = step] \in RunRecords
    BY <1>1, <2>1 DEF RunRecords
  <2>3. run' = [run EXCEPT ![r] = [run[r] EXCEPT !.loco = TRUE, !.pc = step]]
    BY <1>1, <1>2 DEF Kinds, RunRecords
  <2>4. /\ Only(r) /\ run'[r].cps = run[r].cps /\ run'[r].pc = step
        /\ run'[r].seen = run[r].seen /\ run'[r].loco = TRUE
    BY <1>1, <2>2, <2>3 DEF Kinds, Only, RunRecords
  <2> QED
    BY <1>2, <2>1, <2>4
<1>3. CASE Stop(r)
  BY <1>3, Stopped DEF Leaves
<1> QED
  BY <1>2, <1>3 DEF Summarise

-----------------------------------------------------------------------------
(***************************************************************************)
(* What every step does: types stay, files only grow, the others stay.     *)
(***************************************************************************)
Does(r) == Start(r) \/ Step(r) \/ Crash(r)

LEMMA FaultsBounded ==
  ASSUME Kinds, Fault \/ UNCHANGED faults
  PROVE  faults' \in 0..MaxFaults /\ faults <= faults'
BY Sizes DEF Kinds, Fault

Grows(r) ==
  /\ red' = red /\ sidecars \subseteq sidecars' /\ checkpoints \subseteq checkpoints'
  /\ summaries \subseteq summaries' /\ faults <= faults'
  /\ (together => together') /\ (lateError => lateError')
  /\ Only(r)

LEMMA CheckpointIs ==
  ASSUME Kinds, NEW r \in Runners, Len(run[r].cps) < Total
  PROVE  Checkpoint(r) \in Positions \X (0..MaxFaults)
BY HereIs DEF Checkpoint

LEMMA StepGrows ==
  ASSUME Kinds, Counted, NEW r \in Runners, OnItsWay(r), Does(r)
  PROVE  Kinds' /\ Grows(r)
<1> USE DEF Kinds, Grows
<1>1. CASE Start(r)
  <2>1. Only(r)
    BY <1>1, Started
  <2>2. together' \in BOOLEAN /\ (together => together')
    BY <1>1 DEF Start
  <2> QED
    BY <1>1, <2>1, <2>2 DEF Start, files, Only
<1>2. CASE Survey(r)
  <2>1. Only(r)
    BY <1>2, Surveyed, Stopped DEF Survey
  <2> QED
    BY <1>2, <2>1 DEF Survey, files, history, Only
<1>3. CASE Adopt(r)
  <2>1. Only(r)
    BY <1>3, AdoptMoves DEF Adds, Leaves
  <2>2. Checkpoint(r) \in Positions \X (0..MaxFaults)
    BY <1>3, CheckpointIs DEF Adopt, OnItsWay
  <2>3. /\ checkpoints \subseteq checkpoints'
        /\ checkpoints' \subseteq checkpoints \cup {Checkpoint(r)}
    BY <1>3 DEF Adopt
  <2>4. faults' \in 0..MaxFaults /\ faults <= faults'
    BY <1>3, FaultsBounded DEF Adopt
  <2> QED
    BY <1>3, <2>1, <2>2, <2>3, <2>4 DEF Adopt, history, Only
<1>4. CASE NextStep(r)
  <2>1. Only(r)
    BY <1>4, NextStepMoves DEF Walks
  <2> QED
    BY <1>4, <2>1 DEF NextStep, files, history, Only
<1>5. CASE Execute(r)
  <2>1. Only(r)
    BY <1>5, ExecuteMoves DEF Walks
  <2>2. faults' \in 0..MaxFaults /\ faults <= faults'
    BY <1>5, FaultsBounded DEF Execute
  <2> QED
    BY <1>5, <2>1, <2>2 DEF Execute, files, history, Only
<1>6. CASE PublishEvidence(r)
  <2>1. Only(r)
    BY <1>6, PublishEvidenceMoves DEF Walks
  <2>2. faults' \in 0..MaxFaults /\ faults <= faults'
    BY <1>6, FaultsBounded DEF PublishEvidence
  <2>3. Here(r) \in Positions
    BY <1>6, HereIs DEF PublishEvidence, OnItsWay, AtCell
  <2>4. sidecars \subseteq sidecars' /\ sidecars' \subseteq sidecars \cup {Here(r)}
    BY <1>6 DEF PublishEvidence
  <2> QED
    BY <1>6, <2>1, <2>2, <2>3, <2>4 DEF PublishEvidence, history, Only
<1>7. CASE CompareFailures(r)
  <2>1. Only(r)
    BY <1>7, CompareMoves DEF Walks
  <2>2. UNCHANGED <<red, files, history, faults>>
    BY <1>7 DEF CompareFailures
  <2> QED
    BY <2>1, <2>2 DEF files, history, Only
<1>8. CASE PublishCheckpoint(r)
  <2>1. Only(r)
    BY <1>8, PublishCheckpointMoves DEF Walks
  <2>2. faults' \in 0..MaxFaults /\ faults <= faults'
    BY <1>8, FaultsBounded DEF PublishCheckpoint
  <2>3. Checkpoint(r) \in Positions \X (0..MaxFaults)
    BY <1>8, CheckpointIs DEF PublishCheckpoint, OnItsWay, AtCell
  <2>4. /\ checkpoints \subseteq checkpoints'
        /\ checkpoints' \subseteq checkpoints \cup {Checkpoint(r)}
    BY <1>8 DEF PublishCheckpoint
  <2>5. lateError' \in BOOLEAN /\ (lateError => lateError')
    BY <1>8 DEF PublishCheckpoint
  <2> QED
    BY <1>8, <2>1, <2>2, <2>3, <2>4, <2>5 DEF PublishCheckpoint, Only
<1>9. CASE RecordFailure(r)
  <2>1. Only(r)
    BY <1>9, Stopped DEF RecordFailure
  <2>2. faults' \in 0..MaxFaults /\ faults <= faults'
    BY <1>9, FaultsBounded DEF RecordFailure
  <2>3. failures' \in [Positions -> 0..MaxFaults]
    <3>1. CASE Unchanged(r, TRUE) /\ failures' = [failures EXCEPT ![Here(r)] = @ + 1]
      <4>1. Here(r) \in Positions
        BY <1>9, HereIs DEF RecordFailure, OnItsWay, AtCell
      <4>2. failures[Here(r)] < faults
        BY <1>9, <3>1, <4>1 DEF Counted, RecordFailure
      <4>3. failures[Here(r)] + 1 \in 0..MaxFaults
        BY <4>1, <4>2, Sizes
      <4> QED
        BY <3>1, <4>1, <4>3
    <3> QED
      BY <1>9, <3>1 DEF RecordFailure
  <2> QED
    BY <1>9, <2>1, <2>2, <2>3 DEF RecordFailure, history, Only
<1>10. CASE Reread(r)
  <2>1. Only(r)
    BY <1>10, RereadMoves DEF Adds, Leaves
  <2> QED
    BY <1>10, <2>1 DEF Reread, files, history, Only
<1>11. CASE Validate(r)
  <2>1. Only(r)
    BY <1>11, ValidateMoves DEF Walks, Leaves
  <2> QED
    BY <1>11, <2>1 DEF Validate, files, history, Only
<1>12. CASE Summarise(r)
  <2>1. Only(r)
    BY <1>12, SummariseMoves DEF Leaves
  <2>2. faults' \in 0..MaxFaults /\ faults <= faults'
    BY <1>12, FaultsBounded DEF Summarise
  <2>3. summaries \subseteq summaries' /\ summaries' \subseteq {"loco", "lectra"}
    BY <1>12 DEF Summarise
  <2> QED
    BY <1>12, <2>1, <2>2, <2>3 DEF Summarise, history, Only
<1>13. CASE PublishManifest(r)
  <2>1. Only(r)
    BY <1>13, PublishManifestMoves DEF Walks, Leaves
  <2>2. faults' \in 0..MaxFaults /\ faults <= faults'
    BY <1>13, FaultsBounded DEF PublishManifest
  <2>3. run[r].cps \in Counts
    BY RunsAre DEF RunRecords
  <2>4. manifests' \subseteq manifests \cup {run[r].cps}
    BY <1>13 DEF PublishManifest
  <2> QED
    BY <1>13, <2>1, <2>2, <2>3, <2>4 DEF PublishManifest, history, Only
<1>16. CASE FindManifest(r)
  <2>1. Only(r)
    BY <1>16, FindManifestMoves DEF Walks, Leaves
  <2>2. UNCHANGED <<red, files, history, faults>>
    BY <1>16 DEF FindManifest
  <2> QED
    BY <2>1, <2>2 DEF files, history, Only
<1>14. CASE Final(r)
  <2>1. Only(r)
    BY <1>14, Stopped DEF Final
  <2>2. finished' \in BOOLEAN
    BY <1>14 DEF Final
  <2> QED
    BY <1>14, <2>1, <2>2 DEF Final, files, Only
<1>15. CASE Crash(r)
  <2>1. Only(r)
    BY <1>15, Stopped DEF Crash
  <2>2. faults' \in 0..MaxFaults /\ faults <= faults'
    BY <1>15, FaultsBounded DEF Crash
  <2> QED
    BY <1>15, <2>1, <2>2 DEF Crash, files, history, Only
<1> QED
  BY <1>1, <1>2, <1>3, <1>4, <1>5, <1>6, <1>7, <1>8, <1>9, <1>10, <1>11, <1>12, <1>13,
     <1>14, <1>15, <1>16 DEF Does, Step

-----------------------------------------------------------------------------
(***************************************************************************)
(* The failure receipts.                                                   *)
(***************************************************************************)
LEMMA Receipts ==
  ASSUME Kinds, NEW r \in Runners, OnItsWay(r), Does(r)
  PROVE  \/ failures' = failures
         \/ /\ run[r].pc = "record" /\ Unchanged(r, TRUE) /\ Leaves(r) /\ faults' = faults
            /\ Here(r) \in Positions
            /\ failures' = [failures EXCEPT ![Here(r)] = @ + 1]
<1>1. CASE RecordFailure(r)
  <2>1. Leaves(r)
    BY <1>1, Stopped DEF RecordFailure, Leaves
  <2>2. Here(r) \in Positions
    BY <1>1, HereIs DEF RecordFailure, OnItsWay, AtCell
  <2> QED
    BY <1>1, <2>1, <2>2 DEF RecordFailure
<1>2. CASE ~RecordFailure(r)
  BY <1>2 DEF Does, Step, Start, Survey, Adopt, NextStep, Execute, PublishEvidence,
     CompareFailures, PublishCheckpoint, Reread, Validate, Summarise,
     FindManifest, PublishManifest, Final,
     Crash, files
<1> QED
  BY <1>1, <1>2

LEMMA ToRecord ==
  ASSUME Kinds, NEW r \in Runners, OnItsWay(r), Does(r), run'[r].pc = "record"
  PROVE  \/ Fault
         \/ ~Unchanged(r, TRUE) /\ failures' = failures
            /\ run'[r].cps = run[r].cps /\ run'[r].seen = run[r].seen
<1>1. run'[r] # Off
  BY DEF Off
<1>2. ~Leaves(r) /\ ~Adds(r)
  BY <1>1 DEF Leaves, Adds
<1>3. CASE CompareFailures(r)
  <2>1. Walks(r, "compare", {"record"}) /\ ~Unchanged(r, TRUE)
    BY <1>3, CompareMoves DEF Walks
  <2>2. failures' = failures
    BY <1>3 DEF CompareFailures, files
  <2> QED
    BY <2>1, <2>2 DEF Walks
<1>4. CASE Start(r) \/ Survey(r)
  <2>1. ~Start(r)
    BY Started
  <2>2. Survey(r) => Accepts(run[r].cps) \/ Leaves(r)
    BY Stopped DEF Survey, Leaves
  <2> QED
    BY <1>2, <1>4, <2>1, <2>2, Surveyed
<1>5. CASE Execute(r) \/ PublishEvidence(r) \/ PublishCheckpoint(r)
  BY <1>5, ExecuteMoves, PublishEvidenceMoves, PublishCheckpointMoves DEF Walks
<1>6. ~Adopt(r) /\ ~Reread(r)
  BY <1>2, AdoptMoves, RereadMoves
<1>7. ~NextStep(r) /\ ~Validate(r) /\ ~Summarise(r) /\ ~FindManifest(r) /\ ~PublishManifest(r)
  BY <1>2, NextStepMoves, ValidateMoves, SummariseMoves, FindManifestMoves,
     PublishManifestMoves DEF Walks
<1>8. ~RecordFailure(r) /\ ~Final(r) /\ ~Crash(r)
  BY <1>1, Stopped DEF RecordFailure, Final, Crash
<1> QED
  BY <1>3, <1>4, <1>5, <1>6, <1>7, <1>8 DEF Does, Step

\* What a run has seen of the receipts, one step later.
LEMMA SeenMoves ==
  ASSUME Kinds, NEW r \in Runners, OnItsWay(r), Does(r)
  PROVE  run'[r].seen \in {run[r].seen, failures, Off.seen}
<1>1. Leaves(r) => run'[r].seen = Off.seen
  BY DEF Leaves
<1>2. Adds(r) => run'[r].seen = run[r].seen
  BY DEF Adds
<1>3. CASE Start(r) \/ Survey(r)
  <2>1. Start(r) => run'[r].seen = run[r].seen
    BY Started
  <2>2. Survey(r) => Accepts(run[r].cps) \/ Leaves(r)
    BY Stopped DEF Survey, Leaves
  <2> QED
    BY <1>1, <1>3, <2>1, <2>2, Surveyed
<1>4. CASE Adopt(r) \/ Reread(r)
  BY <1>1, <1>2, <1>4, AdoptMoves, RereadMoves
<1>5. CASE NextStep(r) \/ Execute(r) \/ PublishEvidence(r) \/ CompareFailures(r)
           \/ PublishCheckpoint(r)
  BY <1>5, NextStepMoves, ExecuteMoves, PublishEvidenceMoves, CompareMoves,
     PublishCheckpointMoves DEF Walks
<1>6. CASE Validate(r) \/ Summarise(r) \/ FindManifest(r) \/ PublishManifest(r)
  BY <1>1, <1>6, ValidateMoves, SummariseMoves, FindManifestMoves, PublishManifestMoves
     DEF Walks
<1>7. CASE RecordFailure(r) \/ Final(r) \/ Crash(r)
  BY <1>7, Stopped DEF RecordFailure, Final, Crash
<1> QED
  BY <1>3, <1>4, <1>5, <1>6, <1>7 DEF Does, Step

LEMMA CountedStep ==
  ASSUME Kinds, Counted, NEW r \in Runners, OnItsWay(r), Does(r)
  PROVE  Counted'
<1>1. Kinds' /\ Only(r) /\ faults <= faults' /\ faults \in Nat /\ faults' \in Nat
  BY StepGrows, Sizes DEF Grows, Kinds
<1>2. \A p \in Positions : failures[p] \in Nat /\ failures'[p] \in Nat
  BY <1>1, Sizes DEF Kinds
<1>3. \A p \in Positions : failures[p] <= faults
  BY DEF Counted
<1>4. \A s \in Runners : run[s].seen \in [Positions -> 0..MaxFaults]
  BY SeenIs
<1>5. \A s \in Runners, p \in Positions : run[s].seen[p] <= failures[p]
  BY DEF Counted
<1>6. \A p \in Positions : failures[p] <= failures'[p] /\ failures'[p] <= faults'
  <2>1. CASE failures' = failures
    BY <1>1, <1>2, <1>3, <2>1
  <2>2. CASE /\ run[r].pc = "record" /\ Unchanged(r, TRUE) /\ faults' = faults
             /\ failures' = [failures EXCEPT ![Here(r)] = @ + 1]
    <3>1. \A p \in Positions : failures[p] < faults
      BY <2>2 DEF Counted
    <3> QED
      BY <1>1, <1>2, <2>2, <3>1 DEF Kinds
  <2> QED
    BY <2>1, <2>2, Receipts
<1>7. ASSUME NEW s \in Runners, NEW p \in Positions
      PROVE  run'[s].seen[p] <= failures'[p]
  <2>1. run[s].seen[p] \in Nat /\ run[s].seen[p] <= failures[p]
    BY <1>4, <1>5, Sizes
  <2>2. CASE s # r
    BY <1>1, <1>2, <1>6, <2>1, <2>2 DEF Only
  <2>3. CASE s = r
    <3>1. Off.seen[p] = 0
      BY DEF Off
    <3> QED
      BY <1>2, <1>6, <2>1, <2>3, <3>1, SeenMoves
  <2> QED
    BY <2>2, <2>3
<1>8. ASSUME NEW s \in Runners, NEW p \in Positions, run'[s].pc = "record", Unchanged(s, TRUE)'
      PROVE  failures'[p] < faults'
  <2>1. CASE failures' = failures
    <3>1. CASE s # r
      <4>1. run'[s] = run[s]
        BY <1>1, <3>1 DEF Only
      <4>2. Unchanged(s, TRUE)
        BY <1>8, <2>1, <4>1 DEF Unchanged, FailureHistory
      <4>3. failures[p] < faults
        BY <1>8, <4>1, <4>2 DEF Counted
      <4> QED
        BY <1>1, <1>2, <2>1, <4>3
    <3>2. CASE s = r
      <4>1. CASE Fault
        BY <1>1, <1>2, <1>3, <2>1, <4>1 DEF Fault
      <4>2. CASE ~Unchanged(r, TRUE) /\ run'[r].cps = run[r].cps /\ run'[r].seen = run[r].seen
        BY <1>8, <2>1, <3>2, <4>2 DEF Unchanged, FailureHistory
      <4> QED
        BY <1>8, <3>2, <4>1, <4>2, ToRecord
    <3> QED
      BY <3>1, <3>2
  <2>2. CASE /\ Leaves(r) /\ Here(r) \in Positions
             /\ failures' = [failures EXCEPT ![Here(r)] = @ + 1]
    <3>1. s # r
      BY <1>8, <2>2 DEF Leaves, Off
    <3>2. run'[s] = run[s]
      BY <1>1, <3>1 DEF Only
    <3>3. failures' = run[s].seen
      BY <1>8, <3>2 DEF Unchanged
    <3>4. run[s].seen[Here(r)] <= failures[Here(r)]
      BY <1>5, <2>2
    <3>5. failures'[Here(r)] = failures[Here(r)] + 1
      BY <2>2 DEF Kinds
    <3> QED
      BY <1>2, <2>2, <3>3, <3>4, <3>5
  <2> QED
    BY <2>1, <2>2, Receipts
<1> QED
  BY <1>6, <1>7, <1>8 DEF Counted

-----------------------------------------------------------------------------
(***************************************************************************)
(* The two segments.                                                       *)
(***************************************************************************)
LEMMA SecondIsRed ==
  ASSUME Kinds, NEW r \in Runners, OnItsWay(r), run[r].pc \in AtCell, Here(r) > Segment
  PROVE  red
<1>1. Len(run[r].cps) >= Segment
  BY RunsAre, Sizes DEF Here
<1> QED
  BY <1>1 DEF OnItsWay, AtCell

LEMMA BranchedStep ==
  ASSUME Kinds, Branched, Counted, NEW r \in Runners, OnItsWay(r), Rooted(r), Does(r)
  PROVE  Branched'
<1>1. red' = red
  BY StepGrows DEF Grows
<1>2. ASSUME NEW p \in sidecars', p > Segment
      PROVE  red
  <2>1. CASE PublishEvidence(r) /\ p \notin sidecars
    <3>1. p = Here(r) /\ run[r].pc \in AtCell
      BY <2>1 DEF PublishEvidence, AtCell
    <3> QED
      BY <1>2, <3>1, SecondIsRed
  <2>2. CASE ~PublishEvidence(r)
    <3>1. sidecars' = sidecars
      BY <2>2 DEF Does, Step, Start, Survey, Adopt, NextStep, Execute, CompareFailures,
         PublishCheckpoint, RecordFailure, Reread, Validate, Summarise,
     FindManifest, PublishManifest, Final,
         Crash, files
    <3> QED
      BY <1>2, <3>1 DEF Branched
  <2> QED
    BY <1>2, <2>1, <2>2 DEF Branched
<1>3. ASSUME NEW c \in checkpoints', c[1] > Segment
      PROVE  red
  <2>1. CASE c \in checkpoints
    BY <1>3, <2>1 DEF Branched
  <2>2. CASE c \notin checkpoints
    <3>1. \/ run[r].pc \in {"adopt"} /\ c = Checkpoint(r)
          \/ run[r].pc \in AtCell /\ c = Checkpoint(r)
      BY <2>2 DEF Does, Step, Start, Survey, Adopt, NextStep, Execute, CompareFailures,
         PublishEvidence, PublishCheckpoint, RecordFailure, Reread, Validate, Summarise,
         FindManifest, PublishManifest, Final, Crash, files, AtCell
    <3>2. c[1] = Here(r)
      BY <3>1 DEF Checkpoint
    <3>3. CASE run[r].pc = "adopt"
      <4>1. Here(r) \in sidecars
        BY <3>3 DEF Rooted
      <4> QED
        BY <1>3, <3>2, <4>1 DEF Branched
    <3> QED
      BY <1>3, <3>1, <3>2, <3>3, SecondIsRed
  <2> QED
    BY <2>1, <2>2
<1>4. ASSUME NEW p \in Positions, failures'[p] > 0, p > Segment
      PROVE  red
  <2>1. CASE failures' = failures
    BY <1>4, <2>1 DEF Branched
  <2>2. CASE /\ run[r].pc = "record" /\ Here(r) \in Positions
             /\ failures' = [failures EXCEPT ![Here(r)] = @ + 1]
    <3>1. CASE p = Here(r)
      BY <1>4, <2>2, <3>1, SecondIsRed DEF AtCell
    <3>2. CASE p # Here(r)
      BY <1>4, <2>2, <3>2 DEF Branched, Kinds
    <3> QED
      BY <3>1, <3>2
  <2> QED
    BY <2>1, <2>2, Receipts
<1>5. ASSUME "lectra" \in summaries', "lectra" \notin summaries
      PROVE  red
  <2>1. CASE Summarise(r)
    <3>1. run[r].pc = "summary" /\ run[r].loco
      BY <1>5, <2>1 DEF Summarise
    <3> QED
      BY <3>1 DEF OnItsWay
  <2>2. CASE ~Summarise(r)
    BY <1>5, <2>2 DEF Does, Step, Start, Survey, Adopt, NextStep, Execute, CompareFailures,
       PublishEvidence, PublishCheckpoint, RecordFailure, Reread, Validate,
       FindManifest, PublishManifest, Final, Crash, files
  <2> QED
    BY <2>1, <2>2
<1> QED
  BY <1>1, <1>2, <1>3, <1>4, <1>5 DEF Branched

LEMMA NeededKept ==
  ASSUME red' = red
  PROVE  Needed' = Needed /\ End' = End
BY DEF Needed, NeedsLectra, End

\* A run that is off, or goes on with the cells it has.
LEMMA OffIsOnItsWay ==
  ASSUME Kinds, NEW r \in Runners, Leaves(r)
  PROVE  OnItsWay(r)'
<1>1. run'[r].pc = "off" /\ run'[r].cps = <<>> /\ run'[r].loco = FALSE
  BY DEF Leaves, Off
<1>2. Len(<<>>) = 0
  BY EmptySeq
<1> QED
  BY <1>1, <1>2, Sizes DEF OnItsWay, AtCell

LEMMA OnItsWayStep ==
  ASSUME Kinds, Branched, Counted, NEW r \in Runners, OnItsWay(r), Rooted(r), Does(r),
         NEW s \in Runners, OnItsWay(s)
  PROVE  OnItsWay(s)'
<1>1. red' = red /\ summaries \subseteq summaries' /\ Only(r)
  BY StepGrows DEF Grows
<1>2. Needed' = Needed /\ End' = End
  BY <1>1, NeededKept
<1>3. Len(run[r].cps) \in 0..Total /\ Segment \in Nat /\ Total \in Nat /\ Segment <= Total
  BY RunsAre, Sizes
<1>4. CASE s # r
  <2>1. run'[s] = run[s]
    BY <1>1, <1>4 DEF Only
  <2> QED
    BY <1>1, <1>2, <2>1 DEF OnItsWay
<1> SUFFICES OnItsWay(r)'
  BY <1>4
<1>5. Leaves(r) => OnItsWay(r)'
  BY OffIsOnItsWay
<1>6. ASSUME Adds(r), run[r].pc \in {"adopt", "reread"} PROVE OnItsWay(r)'
  <2>1. Here(r) \in sidecars
    BY <1>6 DEF Rooted
  <2>2. Len(run'[r].cps) = Here(r)
    BY <1>6 DEF Adds, Here
  <2>3. Len(run'[r].cps) > Segment => red
    BY <2>1, <2>2 DEF Branched
  <2> QED
    BY <1>1, <1>6, <2>3 DEF Adds, OnItsWay, AtCell
<1>7. CASE Start(r)
  <2>1. CASE run'[r] = run[r]
    BY <1>1, <1>2, <2>1 DEF OnItsWay
  <2>2. CASE IsPrefix /\ run'[r].pc = "survey" /\ run'[r].cps = OnDisk
             /\ run'[r].loco = run[r].loco
    <3>1. OnDisk \in Counts /\ Checkpointed = 1..Len(OnDisk)
      BY <2>2, FoundOnDisk
    <3>2. Len(OnDisk) \in Nat
      BY <3>1, LenProperties DEF Counts
    <3>3. Len(OnDisk) > Segment => red
      <4> SUFFICES ASSUME Len(OnDisk) > Segment PROVE red
        OBVIOUS
      <4>1. Len(OnDisk) \in Checkpointed
        BY <1>3, <3>1, <3>2
      <4>2. PICK c \in checkpoints : c[1] = Len(OnDisk)
        BY <4>1 DEF Checkpointed
      <4> QED
        BY <4>2 DEF Branched
    <3>4. run[r].pc = "off"
      BY <1>7, Started
    <3>5. run[r].loco => red /\ "loco" \in summaries
      BY <3>4 DEF OnItsWay
    <3> QED
      BY <1>1, <2>2, <3>3, <3>5 DEF OnItsWay, AtCell
  <2> QED
    BY <1>7, <2>1, <2>2, Started
<1>8. CASE Survey(r)
  <2>1. CASE Accepts(run[r].cps)
    <3>1. run[r].pc = "survey"
      BY <1>8 DEF Survey
    <3>2. /\ run'[r].cps = run[r].cps /\ run'[r].loco = run[r].loco
          /\ run'[r].pc \in {"adopt", "next", "final"}
          /\ run'[r].pc = "adopt" => Len(run[r].cps) < Total
      BY <1>8, <2>1, Surveyed
    <3> QED
      BY <1>1, <3>1, <3>2 DEF OnItsWay, AtCell
  <2>2. CASE ~Accepts(run[r].cps)
    BY <1>5, <1>8, <2>2, Stopped DEF Survey, Leaves
  <2> QED
    BY <2>1, <2>2
<1>9. CASE Adopt(r)
  BY <1>5, <1>6, <1>9, AdoptMoves DEF Adopt
<1>10. CASE NextStep(r)
  <2>1. CASE /\ Walks(r, "next", {"execute"})
             /\ Len(run[r].cps) < Segment \/ (run[r].loco /\ Len(run[r].cps) < Total)
    <3>1. Len(run[r].cps) < Total /\ (Len(run[r].cps) >= Segment => run[r].loco)
      BY <1>3, <2>1
    <3> QED
      BY <1>1, <2>1, <3>1 DEF Walks, OnItsWay, AtCell
  <2>2. CASE /\ Walks(r, "next", {"validate"})
             /\ Len(run[r].cps) >= Segment /\ (run[r].loco => Len(run[r].cps) = Total)
    BY <1>1, <2>2 DEF Walks, OnItsWay, AtCell
  <2> QED
    BY <1>10, <2>1, <2>2, NextStepMoves
<1>11. ASSUME NEW from \in AtCell, Walks(r, from, AtCell)
       PROVE  OnItsWay(r)'
  BY <1>1, <1>11 DEF Walks, OnItsWay, AtCell
<1>12. CASE Execute(r)
  <2>1. Walks(r, "execute", AtCell)
    BY <1>12, ExecuteMoves DEF Walks, AtCell
  <2> QED
    BY <1>11, <2>1 DEF AtCell
<1>13. CASE PublishEvidence(r)
  <2>1. Walks(r, "publish evidence", AtCell)
    BY <1>13, PublishEvidenceMoves DEF Walks, AtCell
  <2> QED
    BY <1>11, <2>1 DEF AtCell
<1>14. CASE CompareFailures(r)
  <2>1. Walks(r, "compare", AtCell)
    BY <1>14, CompareMoves DEF Walks, AtCell
  <2> QED
    BY <1>11, <2>1 DEF AtCell
<1>15. CASE PublishCheckpoint(r)
  <2>1. Walks(r, "publish checkpoint", AtCell)
    BY <1>15, PublishCheckpointMoves DEF Walks, AtCell
  <2> QED
    BY <1>11, <2>1 DEF AtCell
<1>16. CASE Reread(r)
  BY <1>5, <1>6, <1>16, RereadMoves DEF Reread
<1>17. CASE Validate(r)
  <2>1. CASE Walks(r, "validate", {"summary"})
    BY <1>1, <2>1 DEF Walks, OnItsWay, AtCell
  <2> QED
    BY <1>5, <1>17, <2>1, ValidateMoves
<1>18. CASE Summarise(r)
  <2>1. run[r].pc = "summary" /\ Len(run[r].cps) >= Segment
        /\ (run[r].loco => Len(run[r].cps) = Total /\ red /\ "loco" \in summaries)
        /\ (Len(run[r].cps) > Segment => red)
    BY <1>18 DEF Summarise, OnItsWay
  <2>2. CASE /\ run'[r].loco = TRUE /\ run'[r].cps = run[r].cps
             /\ ~run[r].loco /\ red /\ run'[r].pc = "next"
             /\ "loco" \in summaries'
    BY <1>1, <2>1, <2>2 DEF OnItsWay, AtCell
  <2>3. CASE /\ run'[r].loco = TRUE /\ run'[r].cps = run[r].cps
             /\ run[r].loco \/ ~red
             /\ run'[r].pc = "manifest"
             /\ summaries' = summaries \cup {IF run[r].loco THEN "lectra" ELSE "loco"}
    <3>1. Len(run[r].cps) = End
      BY <1>3, <2>1, <2>3 DEF End
    <3>2. "loco" \in summaries' /\ (red => "lectra" \in summaries')
      BY <2>1, <2>3
    <3>3. Needed \subseteq summaries'
      BY <3>2 DEF Needed, NeedsLectra
    <3> QED
      BY <1>1, <1>2, <2>1, <2>3, <3>1, <3>2, <3>3 DEF OnItsWay, AtCell
  <2>4. run[r].loco \in BOOLEAN
    BY SeenIs
  <2> QED
    BY <1>5, <1>18, <2>2, <2>3, <2>4, SummariseMoves
<1>19. CASE PublishManifest(r)
  <2>1. CASE Walks(r, "publish manifest", {"final"})
    BY <1>1, <2>1 DEF Walks, OnItsWay, AtCell
  <2> QED
    BY <1>5, <1>19, <2>1, PublishManifestMoves
<1>21. CASE FindManifest(r)
  <2>1. CASE Walks(r, "manifest", {"publish manifest"}) \/ Walks(r, "manifest", {"final"})
    BY <1>1, <1>2, <2>1 DEF Walks, OnItsWay, AtCell
  <2> QED
    BY <1>5, <1>21, <2>1, FindManifestMoves
<1>20. CASE RecordFailure(r) \/ Final(r) \/ Crash(r)
  BY <1>5, <1>20, Stopped DEF RecordFailure, Final, Crash, Leaves
<1> QED
  BY <1>7, <1>8, <1>9, <1>10, <1>12, <1>13, <1>14, <1>15, <1>16, <1>17, <1>18, <1>19, <1>20,
     <1>21 DEF Does, Step

-----------------------------------------------------------------------------
(***************************************************************************)
(* What a run relies on is in the files.                                   *)
(***************************************************************************)
LEMMA OffIsRooted ==
  ASSUME NEW r \in Runners, Leaves(r)
  PROVE  Rooted(r)'
<1>1. run'[r].pc = "off" /\ run'[r].cps = <<>>
  BY DEF Leaves, Off
<1>2. Len(<<>>) = 0
  BY EmptySeq
<1>3. 1..Len(run'[r].cps) = {}
  BY <1>1, <1>2
<1> QED
  BY <1>1, <1>3 DEF Rooted

\* A run with the cells it had relies on no more than before, unless it says so.
LEMMA SameIsRooted ==
  ASSUME Kinds, NEW r \in Runners, Rooted(r), run[r].pc # "survey",
         run'[r].cps = run[r].cps, run'[r].seen = run[r].seen,
         sidecars \subseteq sidecars', checkpoints \subseteq checkpoints',
         run'[r].pc \in {"adopt", "compare", "publish checkpoint", "reread"} =>
           Here(r) \in sidecars',
         run'[r].pc = "reread" => Checkpoint(r) \in checkpoints'
  PROVE  Rooted(r)'
<1>1. Here(r)' = Here(r) /\ Checkpoint(r)' = Checkpoint(r)
  BY DEF Here, Checkpoint
<1> QED
  BY <1>1 DEF Rooted

LEMMA RootedStep ==
  ASSUME Kinds, Counted, NEW r \in Runners, OnItsWay(r), Rooted(r), Does(r),
         NEW s \in Runners, Rooted(s)
  PROVE  Rooted(s)'
<1>1. Only(r) /\ sidecars \subseteq sidecars' /\ checkpoints \subseteq checkpoints'
  BY StepGrows DEF Grows
<1>2. CASE s # r
  <2>1. run'[s] = run[s]
    BY <1>1, <1>2 DEF Only
  <2>2. Here(s)' = Here(s) /\ Checkpoint(s)' = Checkpoint(s)
    BY <2>1 DEF Here, Checkpoint
  <2> QED
    BY <1>1, <2>1, <2>2 DEF Rooted
<1> SUFFICES Rooted(r)'
  BY <1>2
<1>3. Leaves(r) => Rooted(r)'
  BY OffIsRooted
<1>4. ASSUME Adds(r), run[r].pc \in {"adopt", "reread"}, Checkpoint(r) \in checkpoints'
      PROVE  Rooted(r)'
  <2>1. Len(run[r].cps) \in Nat
    BY RunsAre
  <2>2. 1..Len(run'[r].cps) = (1..Len(run[r].cps)) \cup {Here(r)}
    BY <1>4, <2>1 DEF Adds, Here
  <2>3. <<Here(r), run'[r].cps[Here(r)]>> \in checkpoints'
    BY <1>4 DEF Adds, Checkpoint
  <2>4. \A p \in 1..Len(run[r].cps) : <<p, run'[r].cps[p]>> \in checkpoints'
    BY <1>1, <1>4 DEF Adds, Rooted
  <2>5. (1..Len(run[r].cps)) \cup {Here(r)} \subseteq sidecars'
    BY <1>1, <1>4 DEF Rooted
  <2>6. run'[r].pc = "next"
    BY <1>4 DEF Adds
  <2> QED
    BY <2>2, <2>3, <2>4, <2>5, <2>6 DEF Rooted
<1>5. CASE Start(r)
  <2>1. CASE run'[r] = run[r]
    <3>1. Here(r)' = Here(r) /\ Checkpoint(r)' = Checkpoint(r)
      BY <2>1 DEF Here, Checkpoint
    <3> QED
      BY <1>1, <2>1, <3>1 DEF Rooted
  <2>2. CASE IsPrefix /\ run'[r].pc = "survey" /\ run'[r].cps = OnDisk
    <3>1. \A p \in 1..Len(OnDisk) : <<p, OnDisk[p]>> \in checkpoints
      BY <2>2, FoundOnDisk
    <3> QED
      BY <1>1, <2>2, <3>1 DEF Rooted
  <2> QED
    BY <1>5, <2>1, <2>2, Started
<1>6. CASE Survey(r)
  <2>1. CASE Accepts(run[r].cps)
    <3>1. /\ run'[r].cps = run[r].cps /\ run'[r].pc \in {"adopt", "next", "final"}
          /\ run'[r].pc = "adopt" => Unbound(run[r].cps) = {Here(r)}
      BY <1>6, <2>1, Surveyed
    <3>2. 1..Len(run[r].cps) \subseteq sidecars
      BY <2>1 DEF Accepts, Census
    <3>3. Here(r)' = Here(r)
      BY <3>1 DEF Here
    <3>4. run'[r].pc = "adopt" => Here(r) \in sidecars
      BY <3>1 DEF Unbound
    <3> QED
      BY <1>1, <3>1, <3>2, <3>3, <3>4 DEF Rooted
  <2>2. CASE ~Accepts(run[r].cps)
    BY <1>3, <1>6, <2>2, Stopped DEF Survey, Leaves
  <2> QED
    BY <2>1, <2>2
<1>7. CASE Adopt(r)
  <2>1. Adds(r) => run'[r] # Off
    BY DEF Adds, Off
  <2>2. Adds(r) => Checkpoint(r) \in checkpoints'
    BY <1>7, <2>1, Stopped DEF Adopt
  <2> QED
    BY <1>3, <1>4, <1>7, <2>2, AdoptMoves DEF Adopt
<1>8. CASE Reread(r)
  <2>1. run[r].pc = "reread" /\ Checkpoint(r) \in checkpoints'
    BY <1>1, <1>8 DEF Reread, Rooted
  <2> QED
    BY <1>3, <1>4, <1>8, <2>1, RereadMoves
<1>9. CASE NextStep(r)
  BY <1>1, <1>9, NextStepMoves, SameIsRooted DEF Walks
<1>10. CASE Execute(r)
  BY <1>1, <1>10, ExecuteMoves, SameIsRooted DEF Walks
<1>11. CASE PublishEvidence(r)
  BY <1>1, <1>11, PublishEvidenceMoves, SameIsRooted DEF Walks
<1>12. CASE CompareFailures(r)
  <2>1. Here(r) \in sidecars'
    BY <1>1, <1>12 DEF Rooted, CompareFailures
  <2> QED
    BY <1>1, <1>12, <2>1, CompareMoves, SameIsRooted DEF Walks
<1>13. CASE PublishCheckpoint(r)
  <2>1. Here(r) \in sidecars'
    BY <1>1, <1>13 DEF Rooted, PublishCheckpoint
  <2> QED
    BY <1>1, <1>13, <2>1, PublishCheckpointMoves, SameIsRooted DEF Walks
<1>14. CASE Validate(r)
  BY <1>1, <1>3, <1>14, ValidateMoves, SameIsRooted DEF Walks
<1>15. CASE Summarise(r)
  <2>1. run[r].pc = "summary"
    BY <1>15 DEF Summarise
  <2> QED
    BY <1>1, <1>3, <1>15, <2>1, SummariseMoves, SameIsRooted
<1>16. CASE FindManifest(r) \/ PublishManifest(r)
  BY <1>1, <1>3, <1>16, FindManifestMoves, PublishManifestMoves, SameIsRooted DEF Walks
<1>17. CASE RecordFailure(r) \/ Final(r) \/ Crash(r)
  BY <1>3, <1>17, Stopped DEF RecordFailure, Final, Crash, Leaves
<1> QED
  BY <1>5, <1>6, <1>7, <1>8, <1>9, <1>10, <1>11, <1>12, <1>13, <1>14, <1>15, <1>16, <1>17
     DEF Does, Step

-----------------------------------------------------------------------------
(***************************************************************************)
(* The manifest.                                                           *)
(***************************************************************************)
ManifestHolds == \A m \in manifests : Founded(m)

LEMMA ManifestStep ==
  ASSUME Kinds, Counted, Branched, ManifestHolds,
         NEW r \in Runners, OnItsWay(r), Rooted(r), Does(r)
  PROVE  ManifestHolds'
<1>1. /\ Kinds' /\ Branched' /\ red' = red
      /\ sidecars \subseteq sidecars' /\ checkpoints \subseteq checkpoints'
      /\ summaries \subseteq summaries'
  BY StepGrows, BranchedStep DEF Grows
<1>2. Needed' = Needed /\ End' = End
  BY <1>1, NeededKept
<1>3. ASSUME NEW m, Founded(m)
      PROVE  Founded(m)'
  <2>1. summaries' = Needed
    <3>1. "loco" \in summaries /\ (red => "lectra" \in summaries)
      BY <1>3 DEF Founded, Needed, NeedsLectra
    <3>2. summaries' \subseteq {"loco", "lectra"} /\ ("lectra" \in summaries' => red)
      BY <1>1 DEF Kinds, Branched
    <3> QED
      BY <1>1, <3>1, <3>2 DEF Needed, NeedsLectra
  <2> QED
    BY <1>1, <1>2, <1>3, <2>1 DEF Founded
<1>4. CASE manifests' = manifests
  BY <1>3, <1>4 DEF ManifestHolds
<1>5. CASE run[r].pc = "publish manifest" /\ manifests' = manifests \cup {run[r].cps}
  <2>3. Len(run[r].cps) = End /\ Needed \subseteq summaries
    BY <1>5 DEF OnItsWay
  <2>4. summaries \subseteq Needed
    BY DEF Kinds, Branched, Needed, NeedsLectra
  <2>5. \A p \in 1..Len(run[r].cps) : <<p, run[r].cps[p]>> \in checkpoints /\ p \in sidecars
    BY <1>5 DEF Rooted
  <2>6. Founded(run[r].cps)
    BY <2>3, <2>4, <2>5 DEF Founded
  <2>7. PICK c : c = run[r].cps
    OBVIOUS
  <2>8. Founded(c)' /\ manifests' = manifests \cup {c}
    BY <1>3, <1>5, <2>6, <2>7
  <2>9. \A m \in manifests : Founded(m)'
    BY <1>3 DEF ManifestHolds
  <2> QED
    BY <2>8, <2>9 DEF ManifestHolds
<1>6. CASE PublishManifest(r)
  BY <1>4, <1>5, <1>6, PublishManifestMoves DEF PublishManifest
<1>7. CASE ~PublishManifest(r)
  <2>1. manifests' = manifests
    BY <1>7 DEF Does, Step, Start, Survey, Adopt, NextStep, Execute, CompareFailures,
       PublishEvidence, PublishCheckpoint, RecordFailure, Reread, Validate, Summarise,
       FindManifest, Final, Crash, files
  <2> QED
    BY <1>4, <2>1
<1> QED
  BY <1>6, <1>7

-----------------------------------------------------------------------------
(***************************************************************************)
(* Runs that have not overlapped.                                          *)
(***************************************************************************)
LEMMA OthersAreOff ==
  ASSUME Kinds, Counted, Alone, NEW r \in Runners, OnItsWay(r), Does(r), ~together'
  PROVE  ~together /\ \A s \in Runners \ {r} : run[s].pc = "off" /\ run'[s] = run[s]
<1>1. ~together /\ Only(r)
  BY StepGrows DEF Grows
<1>2. CASE Start(r)
  BY <1>1, <1>2 DEF Start, Only
<1>3. CASE ~Start(r)
  <2>1. run[r].pc # "off"
    BY <1>3 DEF Does, Step, Survey, Adopt, NextStep, Execute, CompareFailures,
       PublishEvidence, PublishCheckpoint, RecordFailure, Reread, Validate, Summarise,
       FindManifest, PublishManifest, Final, Crash
  <2> QED
    BY <1>1, <2>1 DEF Alone, Only
<1> QED
  BY <1>2, <1>3

LEMMA OneManifestStep ==
  ASSUME Kinds, Counted, Alone, OneManifest, NEW r \in Runners, OnItsWay(r), Does(r)
  PROVE  OneManifest'
<1> SUFFICES ASSUME ~together'
             PROVE  /\ Cardinality(manifests') <= 1
                    /\ \A s \in Runners : run'[s].pc = "publish manifest" => manifests' = {}
  BY DEF OneManifest
<1>1. /\ ~together /\ Cardinality(manifests) <= 1
      /\ \A s \in Runners \ {r} : run'[s].pc = "off"
  BY OthersAreOff DEF OneManifest
<1>4. Leaves(r) => run'[r].pc = "off"
  BY DEF Leaves, Off
<1>2. CASE PublishManifest(r)
  <2>1. manifests = {}
    BY <1>1, <1>2 DEF PublishManifest, OneManifest
  <2>2. manifests' = {} \/ manifests' = {run[r].cps}
    BY <1>2, <2>1 DEF PublishManifest
  <2>3. Cardinality(manifests') <= 1
    <3>1. manifests' = {} => Cardinality(manifests') = 0
      BY FS_EmptySet
    <3>2. ASSUME NEW m, manifests' = {m} PROVE Cardinality(manifests') = 1
      BY <3>2, FS_Singleton
    <3> QED
      BY <2>2, <3>1, <3>2
  <2>4. run'[r].pc # "publish manifest"
    BY <1>2, <1>4, PublishManifestMoves DEF Walks
  <2> QED
    BY <1>1, <2>3, <2>4
<1>3. CASE ~PublishManifest(r)
  <2>1. manifests' = manifests
    BY <1>3 DEF Does, Step, Start, Survey, Adopt, NextStep, Execute, CompareFailures,
       PublishEvidence, PublishCheckpoint, RecordFailure, Reread, Validate, Summarise,
       FindManifest, Final, Crash, files
  <2>2. run'[r].pc = "publish manifest" => manifests = {}
    <3>1. CASE FindManifest(r)
      BY <1>4, <3>1, FindManifestMoves DEF Walks
    <3>2. CASE Start(r) \/ Survey(r)
      <4>1. Start(r) => run'[r].pc # "publish manifest"
        BY Started
      <4>2. Survey(r) => Accepts(run[r].cps) \/ Leaves(r)
        BY Stopped DEF Survey, Leaves
      <4> QED
        BY <1>4, <3>2, <4>1, <4>2, Surveyed
    <3>3. CASE ~(FindManifest(r) \/ Start(r) \/ Survey(r))
      <4>1. Adopt(r) \/ Reread(r) => Adds(r) \/ Leaves(r)
        BY AdoptMoves, RereadMoves
      <4>2. RecordFailure(r) \/ Final(r) \/ Crash(r) => Leaves(r)
        BY Stopped DEF RecordFailure, Final, Crash, Leaves
      <4>3. NextStep(r) \/ Execute(r) \/ PublishEvidence(r) \/ CompareFailures(r)
              \/ PublishCheckpoint(r) \/ Validate(r) =>
              Leaves(r) \/ run'[r].pc # "publish manifest"
        BY NextStepMoves, ExecuteMoves, PublishEvidenceMoves, CompareMoves,
           PublishCheckpointMoves, ValidateMoves DEF Walks
      <4>4. Summarise(r) => Leaves(r) \/ run'[r].pc # "publish manifest"
        BY SummariseMoves
      <4> QED
        BY <1>3, <1>4, <3>3, <4>1, <4>2, <4>3, <4>4 DEF Does, Step, Adds
    <3> QED
      BY <3>1, <3>2, <3>3
  <2> QED
    BY <1>1, <2>1, <2>2
<1> QED
  BY <1>2, <1>3

LEMMA InHandStep ==
  ASSUME Kinds, NEW r \in Runners, OnItsWay(r), InHand(r), Does(r)
  PROVE  InHand(r)'
<1> DEFINE held == sidecars \ (1..Len(run[r].cps))
           later == sidecars' \ (1..Len(run'[r].cps))
<1>1. /\ Unbound(run[r].cps) = held
      /\ InHand(r)' =
           ((run'[r].pc \in Bare => later = {})
            /\ (run'[r].pc \in {"adopt", "compare", "publish checkpoint", "reread"} =>
                  later \subseteq {Here(r)'}))
  BY DEF Unbound, InHand
<1>2. run'[r].cps = run[r].cps => Here(r)' = Here(r)
  BY DEF Here
<1>3. ~PublishEvidence(r) => sidecars' = sidecars
  BY DEF Does, Step, Start, Survey, Adopt, NextStep, Execute, CompareFailures,
     PublishCheckpoint, RecordFailure, Reread, Validate, Summarise,
     FindManifest, PublishManifest, Final,
     Crash, files
<1>4. ASSUME run'[r].pc \notin Bare,
             run'[r].pc \notin {"adopt", "compare", "publish checkpoint", "reread"}
      PROVE  InHand(r)'
  BY <1>1, <1>4
<1>5. Leaves(r) => InHand(r)'
  BY <1>4 DEF Leaves, Off, Bare
<1>6. ASSUME Adds(r), run[r].pc \in {"adopt", "reread"}, sidecars' = sidecars
      PROVE  InHand(r)'
  <2>1. held \subseteq {Here(r)}
    BY <1>1, <1>6 DEF InHand
  <2>2. Len(run[r].cps) \in Nat /\ Len(run'[r].cps) = Here(r) /\ Here(r) = Len(run[r].cps) + 1
    BY <1>6, RunsAre DEF Adds, Here
  <2>3. sidecars \subseteq Int
    BY Sizes DEF Kinds, Positions
  <2>4. later = {}
    BY <1>6, <2>1, <2>2, <2>3
  <2>5. run'[r].pc = "next"
    BY <1>6 DEF Adds
  <2> QED
    BY <1>1, <2>4, <2>5
<1>7. ASSUME run'[r].cps = run[r].cps, sidecars' = sidecars, run[r].pc \in Bare
      PROVE  InHand(r)'
  <2>1. later = {}
    BY <1>1, <1>7 DEF InHand
  <2> QED
    BY <1>1, <2>1
<1>8. CASE Start(r)
  <2>1. run'[r].pc \in {"off", "survey"}
    BY <1>8, Started
  <2> QED
    BY <1>4, <2>1 DEF Bare
<1>9. CASE Survey(r)
  <2>1. CASE Accepts(run[r].cps)
    <3>1. /\ run'[r].cps = run[r].cps
          /\ \/ run'[r].pc = "final"
             \/ run'[r].pc = "adopt" /\ held = {Here(r)}
             \/ run'[r].pc = "next" /\ held = {}
      BY <1>1, <1>9, <2>1, Surveyed
    <3>2. later = held
      BY <1>3, <1>9, <3>1 DEF Survey, PublishEvidence
    <3> HIDE DEF later, held
    <3> QED
      BY <1>1, <1>2, <3>1, <3>2 DEF Bare
  <2>2. CASE ~Accepts(run[r].cps)
    BY <1>5, <1>9, <2>2, Stopped DEF Survey, Leaves
  <2> QED
    BY <2>1, <2>2
<1>10. CASE Adopt(r)
  BY <1>3, <1>5, <1>6, <1>10, AdoptMoves DEF Adopt, PublishEvidence
<1>11. CASE Reread(r)
  BY <1>3, <1>5, <1>6, <1>11, RereadMoves DEF Reread, PublishEvidence
<1>12. CASE NextStep(r)
  BY <1>3, <1>7, <1>12, NextStepMoves DEF Walks, Bare, PublishEvidence
<1>13. CASE Execute(r)
  BY <1>3, <1>7, <1>13, ExecuteMoves DEF Walks, Bare, PublishEvidence
<1>14. CASE PublishEvidence(r)
  <2>1. CASE Walks(r, "publish evidence", {"compare"}) /\ sidecars' = sidecars \cup {Here(r)}
    <3>1. held = {}
      BY <1>1, <2>1 DEF InHand, Walks, Bare
    <3>2. run'[r].cps = run[r].cps /\ run'[r].pc = "compare"
      BY <2>1 DEF Walks
    <3>3. later \subseteq {Here(r)}
      BY <2>1, <3>1, <3>2
    <3> HIDE DEF later, held
    <3> QED
      BY <1>1, <1>2, <3>2, <3>3 DEF Bare
  <2>2. CASE Walks(r, "publish evidence", {"record"})
    BY <1>4, <2>2 DEF Walks, Bare
  <2> QED
    BY <1>14, <2>1, <2>2, PublishEvidenceMoves
<1>15. CASE CompareFailures(r) \/ PublishCheckpoint(r)
  <2>1. /\ run[r].pc \in {"compare", "publish checkpoint"} /\ sidecars' = sidecars
        /\ run'[r].pc \in {"publish checkpoint", "record", "reread"}
        /\ run'[r].cps = run[r].cps
    BY <1>3, <1>15, CompareMoves, PublishCheckpointMoves DEF Walks, PublishEvidence
  <2>2. held \subseteq {Here(r)} /\ later = held
    BY <1>1, <2>1 DEF InHand
  <2> HIDE DEF later, held
  <2> QED
    BY <1>1, <1>2, <2>1, <2>2 DEF Bare
<1>16. CASE Validate(r)
  BY <1>3, <1>5, <1>7, <1>16, ValidateMoves DEF Walks, Bare, PublishEvidence
<1>17. CASE Summarise(r)
  <2>1. run[r].pc = "summary"
    BY <1>17 DEF Summarise
  <2> QED
    BY <1>3, <1>5, <1>7, <1>17, <2>1, SummariseMoves DEF Bare, PublishEvidence
<1>18. CASE FindManifest(r) \/ PublishManifest(r)
  BY <1>3, <1>5, <1>7, <1>18, FindManifestMoves, PublishManifestMoves
     DEF Walks, Bare, PublishEvidence
<1>19. CASE RecordFailure(r) \/ Final(r) \/ Crash(r)
  BY <1>5, <1>19, Stopped DEF RecordFailure, Final, Crash, Leaves
<1> QED
  BY <1>8, <1>9, <1>10, <1>11, <1>12, <1>13, <1>14, <1>15, <1>16, <1>17, <1>18, <1>19
     DEF Does, Step

LEMMA AloneStep ==
  ASSUME Kinds, Counted, Alone, NEW r \in Runners, OnItsWay(r), Does(r)
  PROVE  Alone'
<1> SUFFICES ASSUME ~together'
             PROVE  /\ \A s, t \in Runners : run'[s].pc # "off" /\ run'[t].pc # "off" => s = t
                    /\ \A s \in Runners : InHand(s)'
  BY DEF Alone
<1>1. ~together /\ \A s \in Runners \ {r} : run[s].pc = "off" /\ run'[s] = run[s]
  BY OthersAreOff
<1>2. \A s \in Runners \ {r} : InHand(s)'
  BY <1>1 DEF InHand, Bare
<1>3. InHand(r)'
  BY <1>1, InHandStep DEF Alone
<1> QED
  BY <1>1, <1>2, <1>3

-----------------------------------------------------------------------------
(***************************************************************************)
(* The files of runs that have not overlapped, and had no late error.      *)
(***************************************************************************)
LEMMA DiskReads ==
  ASSUME Kinds, NEW n \in 0..Total, FilesOf(n)
  PROVE  /\ Checkpointed = 1..n /\ Reads(OnDisk, n)
         /\ NoCompetitors /\ IsPrefix
<1>1. n \in Nat /\ n <= Total
  BY Sizes
<1>2. checkpoints = {<<p, failures[p]>> : p \in 1..n}
  BY DEF FilesOf
<1>3. Checkpointed = 1..n
  <2>1. \A c \in checkpoints : c[1] \in 1..n
    BY <1>2
  <2>2. ASSUME NEW p \in 1..n PROVE p \in Checkpointed
    <3>1. <<p, failures[p]>> \in checkpoints /\ <<p, failures[p]>>[1] = p
      BY <1>2
    <3> QED
      BY <3>1 DEF Checkpointed
  <2> QED
    BY <2>1, <2>2 DEF Checkpointed
<1>4. IsFiniteSet(1..n) /\ Cardinality(1..n) = n
  BY <1>1, FS_Interval
<1>5. IsPrefix
  BY <1>3, <1>4 DEF IsPrefix
<1>6. NoCompetitors
  <2> DEFINE pair == [p \in 1..n |-> <<p, failures[p]>>]
  <2>1. pair \in Bijection(1..n, checkpoints)
    BY <1>2 DEF Bijection, Injection, IsInjective, Surjection
  <2>2. Cardinality(checkpoints) = n
    BY <1>4, <2>1, FS_Bijection DEF ExistsBijection
  <2> QED
    BY <1>3, <1>4, <2>2 DEF NoCompetitors
<1>7. OnDisk \in Counts /\ Checkpointed = 1..Len(OnDisk)
      /\ \A p \in 1..Len(OnDisk) : <<p, OnDisk[p]>> \in checkpoints
  BY <1>5, FoundOnDisk
<1>8. Len(OnDisk) = n
  <2>1. Len(OnDisk) \in Nat
    BY <1>7, LenProperties DEF Counts
  <2>2. PICK k \in Nat : k = Len(OnDisk)
    BY <2>1
  <2>3. Cardinality(1..k) = k
    BY FS_Interval
  <2> QED
    BY <1>3, <1>4, <1>7, <2>2, <2>3
<1>9. \A p \in 1..n : OnDisk[p] = failures[p]
  BY <1>2, <1>7, <1>8
<1> QED
  BY <1>3, <1>5, <1>6, <1>8, <1>9 DEF Reads

\* With unchanged receipts, cells and manifests the files are of as many cells.
LEMMA FilesKept ==
  ASSUME NEW n, FilesOf(n), red' = red, checkpoints' = checkpoints, failures' = failures,
         sidecars' = sidecars, manifests' = manifests,
         summaries' = summaries \/ manifests = {}
  PROVE  FilesOf(n)'
<1>1. Needed' = Needed
  BY NeededKept
<1>2. \A m : Reads(m, n)' = Reads(m, n)
  BY DEF Reads
<1> QED
  BY <1>1, <1>2 DEF FilesOf

LEMMA OneMore ==
  ASSUME Kinds, NEW n \in 0..Total, FilesOf(n), n < Total, n + 1 \in sidecars,
         manifests = {}, manifests' = {}, failures' = failures, sidecars' = sidecars,
         checkpoints' = checkpoints \cup {<<n + 1, failures[n + 1]>>}
  PROVE  n + 1 \in 0..Total /\ FilesOf(n + 1)'
<1>1. n \in Nat /\ n + 1 \in 0..Total
  BY Sizes
<1>2. 1..(n + 1) = (1..n) \cup {n + 1}
  BY <1>1
<1>3. checkpoints' = {<<p, failures'[p]>> : p \in 1..(n + 1)}
  BY <1>2 DEF FilesOf
<1>4. 1..(n + 1) \subseteq sidecars' /\ sidecars' \subseteq 1..(n + 1 + 1)
  BY <1>1, <1>2 DEF FilesOf
<1>5. \A p \in Positions : failures'[p] > 0 => p <= n + 1 + 1
  BY <1>1, Sizes DEF FilesOf, Positions
<1> QED
  BY <1>1, <1>3, <1>4, <1>5 DEF FilesOf

LEMMA WholeStep ==
  ASSUME Kinds, Counted, Branched, Alone, ManifestHolds, NEW n \in 0..Total, Whole(n),
         NEW r \in Runners, OnItsWay(r), Rooted(r), Does(r), ~together', ~lateError'
  PROVE  \E k \in 0..Total : Whole(k)'
<1>1. /\ ~together /\ \A s \in Runners \ {r} : run'[s].pc = "off"
      /\ red' = red
  BY OthersAreOff, StepGrows DEF Grows
<1>2. FilesOf(n) /\ (run[r].pc # "off" => Knows(r, n))
  BY DEF Whole
<1>3. ASSUME NEW k \in 0..Total, FilesOf(k)', run'[r].pc = "off" \/ Knows(r, k)'
      PROVE  \E j \in 0..Total : Whole(j)'
  <2>1. Whole(k)'
    BY <1>1, <1>3 DEF Whole
  <2> QED
    BY <2>1
<1>4. n \in Nat /\ n <= Total
  BY Sizes
<1>5. Leaves(r) => run'[r].pc = "off"
  BY DEF Leaves, Off
\* A run that keeps its cells keeps what it knows.
<1>7. ASSUME Knows(r, n), run[r].pc \notin {"survey", "final", "reread"},
             run'[r].pc # "reread", failures' = failures, manifests' = manifests,
             run'[r].cps = run[r].cps, run'[r].seen = run[r].seen
      PROVE  Knows(r, n)'
  <2>1. Reads(run[r].cps, n)'
    BY <1>7 DEF Knows, Reads
  <2> QED
    BY <1>7, <2>1 DEF Knows
<1>8. CASE Start(r)
  <2>1. FilesOf(n)' /\ failures' = failures
    BY <1>2, <1>8, FilesKept DEF Start, files
  <2>2. CASE run'[r].pc = "survey" /\ run'[r].cps = OnDisk
    <3>1. Reads(OnDisk, n)
      BY <1>2, DiskReads
    <3>2. Reads(run[r].cps, n)'
      BY <2>1, <2>2, <3>1 DEF Reads
    <3>3. Knows(r, n)'
      BY <2>2, <3>2 DEF Knows
    <3> QED
      BY <1>3, <2>1, <3>3
  <2> QED
    BY <1>3, <1>8, <2>1, <2>2, Started
<1>9. CASE Survey(r)
  <2>1. FilesOf(n)' /\ failures' = failures /\ manifests' = manifests
    BY <1>2, <1>9, FilesKept DEF Survey, files
  <2>2. CASE Accepts(run[r].cps)
    <3>1. run[r].pc = "survey" /\ Reads(run[r].cps, n)
      BY <1>2, <1>9 DEF Survey, Knows
    <3>2. /\ run'[r].cps = run[r].cps /\ run'[r].seen = failures
          /\ run'[r].pc \in {"adopt", "next", "final"}
          /\ run'[r].pc # "final" => manifests = {}
      BY <1>9, <2>2, Surveyed
    <3>3. Reads(run[r].cps, n)'
      BY <2>1, <3>1, <3>2 DEF Reads
    <3>4. Knows(r, n)'
      BY <2>1, <3>2, <3>3 DEF Knows
    <3> QED
      BY <1>3, <2>1, <3>4
  <2>3. CASE ~Accepts(run[r].cps)
    BY <1>3, <1>5, <1>9, <2>1, <2>3, Stopped DEF Survey, Leaves
  <2> QED
    BY <2>2, <2>3
<1>10. CASE Adopt(r)
  <2>1. /\ Reads(run[r].cps, n) /\ run[r].seen = failures /\ manifests = {}
        /\ run[r].pc = "adopt" /\ manifests' = {}
        /\ failures' = failures /\ sidecars' = sidecars /\ summaries' = summaries
    BY <1>2, <1>10 DEF Adopt, Knows
  <2>2. Here(r) = n + 1 /\ n < Total /\ n + 1 \in sidecars
    BY <2>1 DEF Reads, Here, OnItsWay, Rooted
  <2>3. Checkpoint(r) = <<n + 1, failures[n + 1]>>
    BY <2>1, <2>2 DEF Checkpoint
  <2>4. CASE checkpoints' = checkpoints \cup {Checkpoint(r)}
    <3>1. n + 1 \in 0..Total /\ FilesOf(n + 1)'
      BY <1>2, <2>1, <2>2, <2>3, <2>4, OneMore
    <3>2. CASE Adds(r)
      <4>1. Len(run'[r].cps) = n + 1 /\ \A p \in 1..n : run'[r].cps[p] = failures[p]
        BY <2>1, <3>2 DEF Adds, Reads
      <4>2. run'[r].cps[n + 1] = failures[n + 1]
        BY <2>1, <2>2, <3>2 DEF Adds
      <4>3. 1..(n + 1) = (1..n) \cup {n + 1}
        BY <1>4
      <4>4. Reads(run[r].cps, n + 1)'
        BY <2>1, <4>1, <4>2, <4>3 DEF Reads
      <4>5. Knows(r, n + 1)'
        BY <2>1, <3>2, <4>4 DEF Knows, Adds
      <4> QED
        BY <1>3, <3>1, <4>5
    <3> QED
      BY <1>3, <1>5, <1>10, <3>1, <3>2, AdoptMoves
  <2>5. CASE checkpoints' = checkpoints /\ Stop(r)
    <3>1. FilesOf(n)'
      BY <1>1, <1>2, <2>1, <2>5, FilesKept
    <3> QED
      BY <1>3, <1>5, <2>5, <3>1, Stopped DEF Leaves
  <2> QED
    BY <1>10, <2>4, <2>5 DEF Adopt
<1>11. CASE NextStep(r) \/ Execute(r) \/ CompareFailures(r)
  <2>1. FilesOf(n)' /\ failures' = failures /\ manifests' = manifests
    BY <1>2, <1>11, FilesKept DEF NextStep, Execute, CompareFailures, files
  <2>2. /\ run[r].pc \in {"next", "execute", "compare"}
        /\ run'[r].pc # "reread" /\ run'[r].cps = run[r].cps /\ run'[r].seen = run[r].seen
    BY <1>11, NextStepMoves, ExecuteMoves, CompareMoves DEF Walks
  <2>3. Knows(r, n)'
    BY <1>2, <1>7, <2>1, <2>2
  <2> QED
    BY <1>3, <2>1, <2>3
<1>12. CASE PublishEvidence(r)
  <2>1. /\ run[r].pc = "publish evidence" /\ manifests = {} /\ Reads(run[r].cps, n)
        /\ failures' = failures /\ manifests' = {} /\ checkpoints' = checkpoints
        /\ sidecars' \in {sidecars, sidecars \cup {Here(r)}}
    BY <1>2, <1>12 DEF PublishEvidence, Knows
  <2>2. Here(r) = n + 1
    BY <2>1 DEF Reads, Here
  <2>3. FilesOf(n)'
    <3>1. 1..n \subseteq sidecars /\ sidecars \subseteq 1..(n + 1) /\ n + 1 \in 1..(n + 1)
      BY <1>2, <1>4 DEF FilesOf
    <3>2. 1..n \subseteq sidecars' /\ sidecars' \subseteq 1..(n + 1)
      BY <2>1, <2>2, <3>1
    <3> QED
      BY <1>2, <2>1, <3>2 DEF FilesOf
  <2>4. run'[r].pc # "reread" /\ run'[r].cps = run[r].cps /\ run'[r].seen = run[r].seen
    BY <1>12, PublishEvidenceMoves DEF Walks
  <2>5. Knows(r, n)'
    BY <1>2, <1>7, <2>1, <2>4
  <2> QED
    BY <1>3, <2>3, <2>5
<1>13. CASE PublishCheckpoint(r)
  <2>1. /\ Reads(run[r].cps, n) /\ run[r].seen = failures /\ manifests = {}
        /\ run[r].pc = "publish checkpoint" /\ manifests' = {}
        /\ failures' = failures /\ sidecars' = sidecars /\ summaries' = summaries
    BY <1>2, <1>13 DEF PublishCheckpoint, Knows
  <2>2. Here(r) = n + 1 /\ n < Total /\ n + 1 \in sidecars
    BY <2>1 DEF Reads, Here, OnItsWay, Rooted, AtCell
  <2>3. Checkpoint(r) = <<n + 1, failures[n + 1]>>
    BY <2>1, <2>2 DEF Checkpoint
  <2>4. CASE /\ Walks(r, "publish checkpoint", {"reread"})
             /\ checkpoints' = checkpoints \cup {Checkpoint(r)}
    <3>1. n + 1 \in 0..Total /\ FilesOf(n + 1)'
      BY <1>2, <2>1, <2>2, <2>3, <2>4, OneMore
    <3>2. Reads(run[r].cps, n)'
      BY <2>1, <2>4 DEF Walks, Reads
    <3>3. n + 1 > 0 /\ (n + 1) - 1 = n
      BY <1>4
    <3>4. Knows(r, n + 1)'
      BY <2>1, <2>4, <3>2, <3>3 DEF Knows, Walks
    <3> QED
      BY <1>3, <3>1, <3>4
  <2>5. CASE Walks(r, "publish checkpoint", {"record"}) /\ checkpoints' = checkpoints
    <3>1. FilesOf(n)'
      BY <1>1, <1>2, <2>1, <2>5, FilesKept
    <3>2. Knows(r, n)'
      BY <1>2, <1>7, <2>1, <2>5 DEF Walks
    <3> QED
      BY <1>3, <3>1, <3>2
  <2> QED
    BY <1>13, <2>4, <2>5, PublishCheckpointMoves
<1>14. CASE RecordFailure(r)
  <2>1. /\ run[r].pc = "record" /\ manifests = {} /\ Reads(run[r].cps, n)
        /\ manifests' = {} /\ checkpoints' = checkpoints
        /\ sidecars' = sidecars /\ summaries' = summaries
    BY <1>2, <1>14 DEF RecordFailure, Knows
  <2>2. Here(r) = n + 1 /\ n + 1 \in Positions
    BY <1>14, <2>1, HereIs DEF Reads, Here, OnItsWay, AtCell
  <2>3. failures' \in {failures, [failures EXCEPT ![n + 1] = @ + 1]}
    BY <1>14, <2>2 DEF RecordFailure
  <2>4. \A p \in Positions : p # n + 1 => failures'[p] = failures[p]
    BY <2>3 DEF Kinds
  <2>5. \A p \in 1..n : p \in Positions /\ p # n + 1
    BY <1>4, Sizes DEF Positions
  <2>6. {<<p, failures'[p]>> : p \in 1..n} = {<<p, failures[p]>> : p \in 1..n}
    BY <2>4, <2>5
  <2>7. \A p \in Positions : failures'[p] > 0 => p <= n + 1
    BY <1>2, <1>4, <2>2, <2>4 DEF FilesOf
  <2>8. FilesOf(n)'
    BY <1>2, <2>1, <2>6, <2>7 DEF FilesOf
  <2> QED
    BY <1>3, <1>5, <1>14, <2>8, Stopped DEF RecordFailure, Leaves
<1>15. CASE Reread(r)
  <2>1. /\ Reads(run[r].cps, n - 1) /\ n > 0 /\ run[r].seen = failures /\ manifests = {}
        /\ failures' = failures /\ manifests' = {}
    BY <1>2, <1>15 DEF Reread, Knows, files
  <2>2. FilesOf(n)'
    BY <1>1, <1>2, <1>15, FilesKept DEF Reread, files
  <2>3. CASE Adds(r)
    <3>1. Here(r) = n /\ Len(run'[r].cps) = n
      BY <1>4, <2>1, <2>3 DEF Adds, Reads, Here
    <3>2. /\ \A p \in 1..(n - 1) : run'[r].cps[p] = failures[p]
          /\ run'[r].cps[n] = failures[n]
      BY <2>1, <2>3, <3>1 DEF Adds, Reads
    <3>3. 1..n = (1..(n - 1)) \cup {n}
      BY <1>4, <2>1
    <3>4. Reads(run[r].cps, n)'
      BY <2>1, <3>1, <3>2, <3>3 DEF Reads
    <3>5. Knows(r, n)'
      BY <2>1, <2>3, <3>4 DEF Knows, Adds
    <3> QED
      BY <1>3, <2>2, <3>5
  <2> QED
    BY <1>3, <1>5, <1>15, <2>2, <2>3, RereadMoves
<1>16. CASE Validate(r)
  <2>1. FilesOf(n)' /\ failures' = failures /\ manifests' = manifests
    BY <1>2, <1>16, FilesKept DEF Validate, files
  <2>2. CASE Walks(r, "validate", {"summary"})
    BY <1>2, <1>3, <1>7, <2>1, <2>2 DEF Walks
  <2> QED
    BY <1>3, <1>5, <1>16, <2>1, <2>2, ValidateMoves
<1>17. CASE Summarise(r)
  <2>1. /\ run[r].pc = "summary" /\ manifests = {} /\ manifests' = manifests
        /\ failures' = failures /\ sidecars' = sidecars /\ checkpoints' = checkpoints
    BY <1>2, <1>17 DEF Summarise, Knows
  <2>2. FilesOf(n)'
    BY <1>1, <1>2, <2>1, FilesKept
  <2>3. CASE /\ run'[r].cps = run[r].cps /\ run'[r].seen = run[r].seen
             /\ run'[r].pc \in {"next", "manifest"}
    BY <1>2, <1>3, <1>7, <2>1, <2>2, <2>3
  <2> QED
    BY <1>3, <1>5, <1>17, <2>2, <2>3, SummariseMoves
<1>20. CASE FindManifest(r)
  <2>1. /\ run[r].pc = "manifest" /\ manifests = {} /\ manifests' = manifests
        /\ failures' = failures /\ sidecars' = sidecars /\ checkpoints' = checkpoints
        /\ summaries' = summaries
    BY <1>2, <1>20 DEF FindManifest, Knows, files
  <2>2. FilesOf(n)'
    BY <1>1, <1>2, <2>1, FilesKept
  <2>3. CASE Walks(r, "manifest", {"publish manifest"}) \/ Walks(r, "manifest", {"final"})
    BY <1>2, <1>3, <1>7, <2>1, <2>2, <2>3 DEF Walks
  <2> QED
    BY <1>3, <1>5, <1>20, <2>2, <2>3, FindManifestMoves
<1>18. CASE PublishManifest(r)
  <2>1. /\ run[r].pc = "publish manifest" /\ manifests = {} /\ Reads(run[r].cps, n)
        /\ run[r].seen = failures
        /\ failures' = failures /\ sidecars' = sidecars /\ checkpoints' = checkpoints
        /\ summaries' = summaries
    BY <1>2, <1>18 DEF PublishManifest, Knows
  <2>2. CASE manifests' = {run[r].cps}
    <3>1. n = End /\ Needed \subseteq summaries
      BY <2>1 DEF OnItsWay, Reads
    <3>2. summaries = Needed
      BY <3>1 DEF Kinds, Branched, Needed, NeedsLectra
    <3>3. sidecars = 1..n
      <4>1. Unbound(run[r].cps) = {}
        BY <1>1, <2>1 DEF Alone, InHand, Bare
      <4> QED
        BY <1>2, <2>1, <4>1 DEF Unbound, Reads, FilesOf
    <3>4. \A p \in Positions : failures[p] > 0 => p <= n
      <4> SUFFICES ASSUME NEW p \in Positions, failures[p] > 0 PROVE p <= n
        OBVIOUS
      <4>1. p \in Nat /\ p <= Total
        BY Sizes DEF Positions
      <4>2. p > Segment => red
        BY DEF Branched
      <4> QED
        BY <3>1, <4>1, <4>2, Sizes DEF End
    <3>5. Needed' = Needed
      BY <1>1, NeededKept
    <3>6. \A m \in manifests' : Reads(m, n)'
      BY <2>1, <2>2 DEF Reads
    <3>7. FilesOf(n)'
      BY <1>2, <2>1, <3>2, <3>3, <3>4, <3>5, <3>6 DEF FilesOf
    <3>8. CASE Walks(r, "publish manifest", {"final"})
      <4>1. Reads(run[r].cps, n)'
        BY <2>1, <3>8 DEF Walks, Reads
      <4>2. Knows(r, n)'
        BY <2>1, <3>8, <4>1 DEF Knows, Walks
      <4> QED
        BY <1>3, <3>7, <4>2
    <3> QED
      BY <1>3, <1>5, <1>18, <3>7, <3>8, PublishManifestMoves
  <2>3. CASE manifests' = manifests
    <3>1. FilesOf(n)'
      BY <1>1, <1>2, <2>1, <2>3, FilesKept
    <3>2. ~Walks(r, "publish manifest", {"final"}) \/ manifests' = {run[r].cps}
      <4>1. Leaves(r) => run'[r].pc = "off"
        BY DEF Leaves, Off
      <4>2. ~Leaves(r) => manifests' = {run[r].cps}
        BY <1>18, <2>1, PublishManifestMoves
      <4>3. Walks(r, "publish manifest", {"final"}) => run'[r].pc = "final"
        BY DEF Walks
      <4> QED
        BY <4>1, <4>2, <4>3
    <3> QED
      BY <1>3, <1>5, <1>18, <2>2, <3>1, <3>2, PublishManifestMoves
  <2> QED
    BY <1>18, <2>1, <2>2, <2>3, PublishManifestMoves
<1>19. CASE Final(r) \/ Crash(r)
  <2>1. FilesOf(n)'
    BY <1>2, <1>19, FilesKept DEF Final, Crash, files
  <2> QED
    BY <1>3, <1>5, <1>19, <2>1, Stopped DEF Final, Crash, Leaves
<1> QED
  BY <1>8, <1>9, <1>10, <1>11, <1>12, <1>13, <1>14, <1>15, <1>16, <1>17, <1>18, <1>19,
     <1>20 DEF Does, Step

-----------------------------------------------------------------------------
(***************************************************************************)
(* The invariant.                                                          *)
(***************************************************************************)
LEMMA InitInv == Init => CentralInv
<1> SUFFICES ASSUME Init PROVE CentralInv
  OBVIOUS
<1>1. /\ sidecars = {} /\ checkpoints = {} /\ summaries = {} /\ manifests = {} /\ faults = 0
      /\ red \in BOOLEAN /\ finished = FALSE /\ together = FALSE /\ lateError = FALSE
      /\ failures = [p \in Positions |-> 0] /\ run = [r \in Runners |-> Off]
  BY DEF Init
<1>2. Kinds
  <2>1. run \in [Runners -> RunRecords]
    BY <1>1, OffIsRecord
  <2>2. failures \in [Positions -> 0..MaxFaults] /\ faults \in 0..MaxFaults
    BY <1>1, Sizes
  <2> QED
    BY <1>1, <2>1, <2>2 DEF Kinds
<1>3. \A r \in Runners : run[r] = Off /\ run[r].pc = "off" /\ run[r].cps = <<>>
        /\ run[r].loco = FALSE /\ run[r].seen = [p \in Positions |-> 0]
  BY <1>1 DEF Off
<1>4. Len(<<>>) = 0
  BY EmptySeq
<1>5. Counted /\ Branched
  <2>1. \A p \in Positions : failures[p] = 0
    BY <1>1
  <2>2. \A r \in Runners, p \in Positions : run[r].seen[p] = 0 /\ run[r].pc # "record"
    BY <1>3
  <2>3. Counted
    <3>1. \A p \in Positions : failures[p] <= faults
      BY <1>1, <2>1
    <3>2. \A r \in Runners, p \in Positions : run[r].seen[p] <= failures[p]
      BY <2>1, <2>2
    <3> QED
      BY <2>2, <3>1, <3>2 DEF Counted
  <2>4. \A p \in Positions : ~(failures[p] > 0)
    BY <2>1
  <2>5. Branched
    BY <1>1, <2>4 DEF Branched
  <2> QED
    BY <2>3, <2>5
<1>6. ASSUME NEW r \in Runners PROVE OnItsWay(r) /\ Rooted(r)
  <2>1. 1..Len(run[r].cps) = {} /\ Len(run[r].cps) = 0
    BY <1>3, <1>4
  <2>2. OnItsWay(r)
    <3>1. ~(Len(run[r].cps) > Segment)
      BY <2>1, Sizes
    <3>2. run[r].pc = "off" /\ ~run[r].loco
      BY <1>3
    <3> QED
      BY <3>1, <3>2 DEF OnItsWay, AtCell
  <2>3. Rooted(r)
    BY <1>3, <2>1 DEF Rooted
  <2> QED
    BY <2>2, <2>3
<1>7. OneManifest /\ \A m \in manifests : Founded(m)
  BY <1>1, FS_EmptySet DEF OneManifest
<1>8. Alone
  BY <1>3 DEF Alone, InHand, Bare
<1>9. 0 \in 0..Total /\ Whole(0)
  <2>1. FilesOf(0)
    BY <1>1 DEF FilesOf
  <2> QED
    BY <1>3, <2>1, Sizes DEF Whole
<1> QED
  BY <1>2, <1>5, <1>6, <1>7, <1>8, <1>9 DEF CentralInv

LEMMA NextInv == CentralInv /\ [Next]_vars => CentralInv'
<1> SUFFICES ASSUME CentralInv, [Next]_vars PROVE CentralInv'
  OBVIOUS
<1>1. CASE UNCHANGED vars
  <2> USE <1>1 DEF vars, files, history
  <2>1. Kinds' = Kinds /\ Branched' = Branched /\ Needed' = Needed /\ End' = End
    BY DEF Kinds, Branched, Needed, NeedsLectra, End
  <2>2. \A r \in Runners : /\ Unchanged(r, TRUE)' = Unchanged(r, TRUE) /\ Here(r)' = Here(r)
                          /\ Checkpoint(r)' = Checkpoint(r)
                          /\ Unbound(run[r].cps)' = Unbound(run[r].cps)
    BY DEF Unchanged, FailureHistory, Here, Checkpoint, Unbound
  <2>3. Counted' = Counted
    BY <2>2 DEF Counted
  <2>4. \A r \in Runners : OnItsWay(r)' = OnItsWay(r) /\ Rooted(r)' = Rooted(r)
    BY <2>1, <2>2 DEF OnItsWay, Rooted
  <2>5. Alone' = Alone /\ OneManifest' = OneManifest
    BY <2>2 DEF Alone, InHand, OneManifest
  <2>6. \A m : Founded(m)' = Founded(m)
    BY <2>1 DEF Founded
  <2>7. \A n : Whole(n)' = Whole(n)
    BY <2>1 DEF Whole, FilesOf, Knows, Reads
  <2> QED
    BY <2>1, <2>3, <2>4, <2>5, <2>6, <2>7 DEF CentralInv
<1>2. CASE Next
  <2>1. PICK r \in Runners : Does(r)
    BY <1>2 DEF Next, Does
  <2>2. /\ Kinds /\ Counted /\ Branched /\ ManifestHolds /\ Alone /\ OneManifest
        /\ \A s \in Runners : OnItsWay(s) /\ Rooted(s)
    BY DEF CentralInv, ManifestHolds
  <2>3. Kinds' /\ Counted' /\ Branched' /\ ManifestHolds' /\ Alone' /\ OneManifest'
    BY <2>1, <2>2, StepGrows, CountedStep, BranchedStep, ManifestStep, AloneStep,
       OneManifestStep
  <2>4. \A s \in Runners : OnItsWay(s)' /\ Rooted(s)'
    BY <2>1, <2>2, OnItsWayStep, RootedStep
  <2>5. ASSUME ~together', ~lateError'
        PROVE  \E n \in 0..Total : Whole(n)'
    <3>1. ~together /\ ~lateError
      BY <2>1, <2>2, <2>5, StepGrows DEF Grows
    <3>2. PICK n \in 0..Total : Whole(n)
      BY <3>1 DEF CentralInv
    <3> QED
      BY <2>1, <2>2, <2>5, <3>2, WholeStep
  <2> QED
    BY <2>3, <2>4, <2>5 DEF CentralInv, ManifestHolds
<1> QED
  BY <1>1, <1>2

LEMMA Invariance == Spec => []CentralInv
BY InitInv, NextInv, PTL DEF Spec

-----------------------------------------------------------------------------
\* The variables keep their ranges; a failure receipt is never written twice for one
\* failed attempt, so that there are never more of them than there were faults
\* (_record_failed_cell_attempt).
THEOREM CentralTypes == Spec => []TypeOK
<1>1. CentralInv => TypeOK
  <2> SUFFICES ASSUME CentralInv PROVE TypeOK
    OBVIOUS
  <2>1. Kinds
    BY DEF CentralInv
  <2>2. ASSUME NEW r \in Runners
        PROVE  /\ run[r].pc \in Steps /\ run[r].cps \in Seq(0..MaxFaults)
               /\ Len(run[r].cps) <= Total
               /\ run[r].seen \in [Positions -> 0..MaxFaults] /\ run[r].loco \in BOOLEAN
    BY <2>1, RunsAre DEF RunRecords, Counts
  <2> QED
    BY <2>1, <2>2 DEF Kinds, TypeOK, Counts, Steps
<1> QED
  BY <1>1, Invariance, PTL

\* For any number of runs, overlapping or not, a manifest is of the cells of the branch
\* that LOCo's classification needs and of no other, and each has its checkpoint and its
\* evidence; there is one at most unless runs overlapped
\* (publish_gate3_economic_central_manifest).
THEOREM ManifestsAreFounded == Spec => []ManifestIsFounded
<1>1. CentralInv => ManifestIsFounded
  BY DEF CentralInv, OneManifest, ManifestIsFounded, Founded, End
<1> QED
  BY <1>1, Invariance, PTL

\* A cell is computed only without evidence of it, unless runs overlap, and none of
\* the second segment before the red summary of the first (run_economic_central_stage).
THEOREM OnlyNeededWork == Spec => []WorkIsNeeded
<1>1. CentralInv => WorkIsNeeded
  <2> SUFFICES ASSUME CentralInv, NEW r \in Runners, run[r].pc = "execute"
               PROVE  /\ Here(r) \in sidecars => together
                      /\ Here(r) > Segment => red /\ "loco" \in summaries
    BY DEF WorkIsNeeded
  <2>1. Kinds /\ OnItsWay(r) /\ Alone
    BY DEF CentralInv
  <2>2. Len(run[r].cps) \in Nat
    BY <2>1, RunsAre
  <2>3. ~together => Here(r) \notin sidecars
    <3>1. ~together => Unbound(run[r].cps) = {}
      BY <2>1 DEF Alone, InHand, Bare
    <3> QED
      BY <2>2, <3>1 DEF Unbound, Here
  <2>4. Here(r) > Segment => Len(run[r].cps) >= Segment
    BY <2>2, Sizes DEF Here
  <2> QED
    BY <2>1, <2>3, <2>4 DEF OnItsWay, AtCell
<1> QED
  BY <1>1, Invariance, PTL

\* Wherever failed attempts, failed publications and crashes stop a run, its files are
\* accepted by the next one, for any length of the segments, unless runs overlapped or
\* an error was raised of a published checkpoint (_require_checkpoint_prefix,
\* _require_failure_history, _sidecar_census).
THEOREM StageIsResumable == Spec => []Resumable
<1>1. CentralInv => Resumable
  <2> SUFFICES ASSUME CentralInv, ~together, ~lateError
               PROVE  NoCompetitors /\ IsPrefix /\ Accepts(OnDisk)
    BY DEF Resumable
  <2>1. Kinds /\ Cardinality(manifests) <= 1
    BY DEF CentralInv, OneManifest
  <2>2. PICK n \in 0..Total : FilesOf(n)
    BY DEF CentralInv, Whole
  <2>3. NoCompetitors /\ IsPrefix /\ Reads(OnDisk, n)
    BY <2>1, <2>2, DiskReads
  <2>4. n \in Nat /\ n <= Total /\ Len(OnDisk) = n
    BY <2>3, Sizes DEF Reads
  <2>5. FailureHistory(OnDisk, failures, manifests = {})
    <3>1. \A p \in Positions : failures[p] > 0 => p <= n + 1 /\ (manifests # {} => p <= n)
      BY <2>2 DEF FilesOf
    <3>2. \A p \in Positions : p \in Nat
      BY Sizes DEF Positions
    <3>3. \A p \in Positions : p <= n + 1 => p <= n \/ p = n + 1
      BY <2>4, <3>2
    <3> QED
      BY <2>3, <2>4, <3>1, <3>3 DEF Reads, FailureHistory
  <2>6. Unbound(OnDisk) = sidecars \ (1..n)
    BY <2>4 DEF Unbound
  <2>7. Unbound(OnDisk) \subseteq {n + 1} /\ (manifests # {} => Unbound(OnDisk) = {})
    BY <2>2, <2>4, <2>6 DEF FilesOf
  <2>8. Census(OnDisk, IF manifests = {} THEN 1 ELSE 0)
    <3>1. Cardinality({}) = 0 /\ Cardinality({n + 1}) = 1
      BY FS_EmptySet, FS_Singleton
    <3>2. Unbound(OnDisk) = {} \/ Unbound(OnDisk) = {n + 1}
      BY <2>7
    <3>3. Cardinality(Unbound(OnDisk)) <= (IF manifests = {} THEN 1 ELSE 0)
      BY <2>7, <3>1, <3>2
    <3> QED
      BY <2>2, <2>4, <3>3 DEF Census, FilesOf
  <2>9. Unbound(OnDisk) # {} => Len(OnDisk) < Total /\ Unbound(OnDisk) = {Len(OnDisk) + 1}
    <3> SUFFICES ASSUME Unbound(OnDisk) # {}
                 PROVE  n < Total /\ Unbound(OnDisk) = {n + 1}
      BY <2>4
    <3>1. n + 1 \in sidecars
      BY <2>6, <2>7
    <3>2. n + 1 \in 1..Total
      BY <2>1, <3>1 DEF Kinds, Positions
    <3>3. n < Total
      BY <2>4, <3>2, Sizes
    <3> QED
      BY <2>7, <3>3
  <2>10. manifests # {} => manifests = {OnDisk} /\ summaries = Needed
    <3>1. OnDisk \in Seq(0..MaxFaults)
      BY <2>1, <2>3, FoundOnDisk DEF Counts
    <3>2. ASSUME NEW m \in manifests PROVE m = OnDisk
      <4>1. m \in Seq(0..MaxFaults) /\ Reads(m, n)
        BY <2>1, <2>2 DEF Kinds, Counts, FilesOf
      <4>2. m \in [1..n -> 0..MaxFaults] /\ OnDisk \in [1..n -> 0..MaxFaults]
        BY <2>3, <3>1, <4>1, LenProperties DEF Reads
      <4> QED
        BY <2>3, <4>1, <4>2 DEF Reads
    <3> QED
      BY <2>2, <3>2 DEF FilesOf
  <2> QED
    BY <2>1, <2>3, <2>5, <2>8, <2>9, <2>10 DEF Accepts
<1> QED
  BY <1>1, Invariance, PTL
=============================================================================
