---------------------- MODULE ArtifactPublisherProofs ----------------------
(***************************************************************************)
(* What becomes of the files of the publishers, for any number of them, of *)
(* faults and of foreign changes.                                          *)
(*                                                                         *)
(* Only the holder of the lock is past it (Locked).  As long as somebody   *)
(* is alive a file has one name (Apart).  Where says under which names the *)
(* own file of a publisher may be found at each place of its call, on the  *)
(* disk OnDisk; Clear says which names are free, so that no rename         *)
(* replaces anything.  Ready is what the checks of a publisher and its two *)
(* syncs have established if the destination still looks as it did, and    *)
(* Settled what remains of that after it returned.                         *)
(***************************************************************************)
EXTENDS ArtifactPublisher, TLAPS

Body1 == {"read", "create"}
Body2 == {"write", "flush", "verify", "install", "raced", "installed"}
Body3 == {"sync", "confirm", "sync parent", "accept"}
Cleaning == {"clean", "quarantine", "judge"}
Held == Body1 \cup Body2 \cup Body3 \cup Cleaning \cup {"sync rollback", "release"}

Locked == \A p \in Publishers : me[p].pc \in Held => lock = p

\* The course of a call: what its variables hold at each place.
Course(p) ==
  /\ me[p].pc \in {"waiting"} \cup Body1 \cup Body2 \cup Body3 =>
       me[p].outcome = "none" /\ ~me[p].dirty
  /\ me[p].pc \in {"waiting"} \cup Body1 => ~me[p].owns
  /\ me[p].pc \in Body2 \cup Cleaning \cup {"sync rollback"} => me[p].owns
  /\ me[p].pc \in Body3 =>
       me[p].route # "none" /\ (me[p].owns <=> me[p].route # "existing")
  /\ me[p].pc \in Cleaning /\ me[p].outcome # "error" =>
       /\ me[p].outcome = "none" /\ ~me[p].dirty
       /\ me[p].route = "raced" /\ me[p].target = "staging"
  /\ me[p].pc = "sync rollback" => me[p].outcome = "error"
  /\ me[p].pc = "release" => me[p].outcome \in {"ok", "error"}

Apart ==
  (\E p \in Publishers : me[p].pc \notin Over) =>
    \A n, m \in Names : files[n] # 0 /\ files[n] = files[m] => n = m

\* Foreign files are numbered as they come.
Numbered ==
  /\ \A n \in Names : files[n] <= N + foreign /\ durable[n] <= N + foreign
  /\ \A p \in Publishers : me[p].base.inode <= N + foreign

\* The names a publisher can give to its own file.
Mine(p) == {Destination, Staging(p)} \cup {Quarantine(p, t) : t \in Targets}

Where(p) ==
  IF me[p].dirty \/ me[p].pc = "dead" THEN Mine(p)
  ELSE CASE me[p].pc \in {"write", "flush", "verify", "install", "raced"} -> {Staging(p)}
         [] me[p].pc = "installed" -> {Destination}
         [] me[p].pc \in Body3 ->
              IF me[p].route = "installed" THEN {Destination}
              ELSE IF me[p].route = "raced" /\ me[p].pc \in {"sync", "confirm"}
              THEN {Staging(p)} ELSE {}
         [] me[p].pc \in {"clean", "quarantine"} ->
              {Staging(p)} \cup (IF me[p].target = "staging" THEN {} ELSE {Destination})
         [] me[p].pc = "judge" ->
              {MyQuarantine(p)} \cup (IF me[p].target = "staging" THEN {} ELSE {Staging(p)})
         [] me[p].pc \in {"release", "end"} ->
              IF me[p].outcome = "error" THEN {} ELSE {Destination}
         [] OTHER -> {}

OnDisk(p) ==
  IF me[p].dirty \/ me[p].pc = "dead" THEN Mine(p)
  ELSE IF \/ me[p].pc = "accept" /\ me[p].route = "installed"
          \/ me[p].pc \in Cleaning /\ me[p].outcome = "error"
          \/ me[p].pc = "sync rollback"
          \/ me[p].pc \in {"release", "end"} /\ me[p].outcome # "error"
  THEN {Destination} ELSE {}

Located(p) ==
  \A n \in Names : (files[n] = p => n \in Where(p)) /\ (durable[n] = p => n \in OnDisk(p))

\* The names that are free for the renames to come.
Clear(p) ==
  /\ me[p].pc \in {"waiting"} \cup Body1 => files[Staging(p)] = 0
  /\ me[p].pc \in {"waiting"} \cup Body1 \cup Body2 \cup Body3 =>
       \A t \in Targets : files[Quarantine(p, t)] = 0
  /\ me[p].pc \in Cleaning =>
       /\ me[p].target = "destination" /\ me[p].pc # "judge" =>
            files[Quarantine(p, "destination")] = 0
       /\ me[p].outcome # "error" =>
            /\ files[Quarantine(p, "destination")] = 0
            /\ me[p].pc # "judge" => files[Quarantine(p, "staging")] = 0
       /\ me[p].pc = "quarantine" => files[MyQuarantine(p)] = 0
       /\ files[Quarantine(p, "staging")] # 0 => files[Staging(p)] # p

Checked == {"confirm", "sync parent", "accept"}
Rivals(p) == me[p].pc \in Cleaning /\ me[p].outcome # "error"

Ready(p) ==
  /\ me[p].pc \in Body3 \/ Rivals(p) => me[p].base.inode # 0 /\ me[p].base.content = data[p]
  /\ At(Destination) = me[p].base =>
       /\ me[p].pc \in Checked \/ Rivals(p) => me[p].base.inode \in synced
       /\ me[p].pc = "accept" =>
            \A n \in Names : durable[n] = me[p].base.inode <=> n = Destination

Settled ==
  /\ files[Destination] # 0 /\ files[Destination] \in synced
  /\ \A n \in Names : files[n] = files[Destination] => n = Destination
  /\ \A n \in Names : durable[n] = files[Destination] <=> n = Destination

Kept ==
  /\ \A p \in kept : Exact(p)
  /\ kept # {} =>
       /\ Settled
       /\ \A p \in Publishers : me[p].pc \in Held \ {"release"} => files[Destination] # p
  /\ \A p \in Publishers :
       me[p].pc = "quarantine" /\ me[p].target = "destination" =>
         kept = {} /\ files[Destination] \in {0, p} \cup Foreigners

Own(p) == Course(p) /\ Located(p) /\ Clear(p) /\ Ready(p)

PublisherInv ==
  /\ TypeOK /\ Locked /\ Apart /\ Numbered /\ Kept
  /\ \A p \in Publishers : Own(p)

-----------------------------------------------------------------------------
(***************************************************************************)
(* Names, inodes and the records of calls.                                 *)
(***************************************************************************)
CallSteps ==
  {"waiting", "read", "create", "write", "flush", "verify", "install", "raced", "installed",
   "sync", "confirm", "sync parent", "accept", "clean", "quarantine", "judge",
   "sync rollback", "release", "end", "dead"}

CallRecords ==
  [pc : CallSteps, route : {"none", "existing", "raced", "installed"},
   base : [inode : Inodes \cup {0}, content : Contents \cup {"none"}],
   target : Targets, owns : BOOLEAN,
   outcome : {"none", "ok", "raised", "error"}, dirty : BOOLEAN]

LEMMA Numbers ==
  /\ N \in Nat /\ MaxFaults \in Nat /\ MaxForeign \in Nat
  /\ Publishers = 1..N /\ Foreigners = (N + 1)..(N + MaxForeign)
  /\ Inodes = Publishers \cup Foreigners
  /\ \A i \in Inodes : i \in Nat /\ i # 0
  /\ \A p \in Publishers : p \in Nat /\ p # 0 /\ p <= N /\ p \notin Foreigners /\ p \in Inodes
  /\ "none" \notin Contents /\ "partial" \notin Contents /\ "other" \notin Contents
<1>1. N \in Nat /\ MaxFaults \in Nat /\ MaxForeign \in Nat
  BY Parameters
<1>2. "none" \notin Contents /\ "partial" \notin Contents /\ "other" \notin Contents
  BY Parameters
<1> QED
  BY <1>1, <1>2 DEF Publishers, Foreigners, Inodes

LEMMA NamesAre ==
  /\ Destination \in Names
  /\ \A p \in Publishers : Staging(p) \in Names
  /\ \A p \in Publishers, t \in Targets : Quarantine(p, t) \in Names
  /\ \A p \in Publishers : Mine(p) \subseteq Names
BY DEF Names, Mine

LEMMA NamesDiffer ==
  ASSUME NEW p \in Publishers, NEW q \in Publishers, NEW t \in Targets, NEW u \in Targets
  PROVE  /\ Destination # Staging(p) /\ Destination # Quarantine(p, t)
         /\ Staging(p) # Quarantine(q, t)
         /\ Staging(p) = Staging(q) => p = q
         /\ Quarantine(p, t) = Quarantine(q, u) => p = q /\ t = u
<1>1. /\ Destination[1] = "destination"
      /\ Staging(p)[1] = "staging" /\ Staging(p)[2] = p /\ Staging(q)[2] = q
      /\ Quarantine(p, t)[1] = "cleanup" /\ Quarantine(q, t)[1] = "cleanup"
      /\ Quarantine(p, t)[2] = p /\ Quarantine(q, u)[2] = q
      /\ Quarantine(p, t)[3] = t /\ Quarantine(q, u)[3] = u
  BY DEF Destination, Staging, Quarantine
<1>2. "destination" # "staging" /\ "destination" # "cleanup" /\ "staging" # "cleanup"
  OBVIOUS
<1> QED
  BY <1>1, <1>2

LEMMA TargetsAre == Targets = {"destination", "staging"}
BY DEF Targets

LEMMA MineDiffer ==
  ASSUME NEW p \in Publishers, NEW q \in Publishers \ {p}
  PROVE  /\ Staging(q) \notin Mine(p)
         /\ \A t \in Targets : Quarantine(q, t) \notin Mine(p)
<1>1. p # q /\ q \in Publishers /\ Targets # {}
  BY TargetsAre
<1>2. \A u \in Targets : /\ Staging(q) # Destination /\ Staging(q) # Staging(p)
                        /\ Staging(q) # Quarantine(p, u)
  BY <1>1, NamesDiffer
<1>3. \A t, u \in Targets : /\ Quarantine(q, t) # Destination /\ Quarantine(q, t) # Staging(p)
                           /\ Quarantine(q, t) # Quarantine(p, u)
  BY <1>1, NamesDiffer
<1> QED
  BY <1>1, <1>2, <1>3 DEF Mine

LEMMA TypesAre ==
  ASSUME TypeOK
  PROVE  /\ me \in [Publishers -> CallRecords]
         /\ files \in [Names -> Inodes \cup {0}] /\ durable \in [Names -> Inodes \cup {0}]
         /\ content \in [Inodes -> Contents \cup {"none", "partial", "other"}]
         /\ \A p \in Publishers :
              /\ me[p] \in CallRecords /\ data[p] \in Contents
              /\ MyTarget(p) \in Mine(p) /\ MyQuarantine(p) \in Mine(p)
              /\ me[p].target \in Targets
<1>1. me \in [Publishers -> CallRecords]
  BY DEF TypeOK, CallRecords, CallSteps, Over
<1>2. ASSUME NEW p \in Publishers
      PROVE  /\ me[p] \in CallRecords /\ data[p] \in Contents
             /\ MyTarget(p) \in Mine(p) /\ MyQuarantine(p) \in Mine(p)
             /\ me[p].target \in Targets
  <2>1. me[p] \in CallRecords /\ me[p].target \in Targets
    BY <1>1 DEF CallRecords
  <2>2. data[p] \in Contents
    BY DEF TypeOK
  <2>3. MyTarget(p) \in Mine(p) /\ MyQuarantine(p) \in Mine(p)
    BY <2>1 DEF MyTarget, MyQuarantine, TargetName, Mine
  <2> QED
    BY <2>1, <2>2, <2>3
<1> QED
  BY <1>1, <1>2 DEF TypeOK

-----------------------------------------------------------------------------
(***************************************************************************)
(* The ways a call changes its variables.                                  *)
(***************************************************************************)
\* The others stay as they are.
Only(p) == me' \in [Publishers -> CallRecords] /\ \A q \in Publishers \ {p} : me'[q] = me[q]

SameBut(p) ==
  /\ me'[p].base = me[p].base /\ me'[p].owns = me[p].owns /\ me'[p].dirty = me[p].dirty

LEMMA Became ==
  ASSUME TypeOK, NEW p \in Publishers, NEW step \in CallSteps, Become(p, step)
  PROVE  /\ Only(p) /\ SameBut(p) /\ me'[p].pc = step /\ me'[p].route = me[p].route
         /\ me'[p].target = me[p].target /\ me'[p].outcome = me[p].outcome
<1>1. me[p] \in CallRecords /\ me \in [Publishers -> CallRecords]
  BY TypesAre
<1>2. [me[p] EXCEPT !.pc = step] \in CallRecords
  BY <1>1 DEF CallRecords
<1>3. me' = [me EXCEPT ![p] = [me[p] EXCEPT !.pc = step]]
  BY DEF Become
<1> QED
  BY <1>1, <1>2, <1>3 DEF Only, SameBut, CallRecords

\* The record of a call after an error.
IsFailed(r, s) ==
  /\ s \in CallRecords
  /\ s.base = r.base /\ s.owns = r.owns /\ s.dirty = r.dirty /\ s.route = r.route
  /\ s.outcome = "error"
  /\ IF r.owns THEN s.pc = "clean" /\ s.target = "destination" ELSE s.pc = "release"

LEMMA FailedIs ==
  ASSUME NEW r \in CallRecords
  PROVE  IsFailed(r, Failed(r))
BY TargetsAre DEF IsFailed, Failed, CallRecords, CallSteps

LEMMA FailedNow ==
  ASSUME TypeOK, NEW p \in Publishers, Fail(p)
  PROVE  Only(p) /\ IsFailed(me[p], me'[p])
<1>1. me[p] \in CallRecords /\ me \in [Publishers -> CallRecords]
  BY TypesAre
<1>2. me' = [me EXCEPT ![p] = Failed(me[p])]
  BY DEF Fail
<1>3. IsFailed(me[p], Failed(me[p])) /\ Failed(me[p]) \in CallRecords
  BY <1>1, FailedIs DEF IsFailed
<1>4. me'[p] = Failed(me[p])
  BY <1>1, <1>2
<1> QED
  BY <1>1, <1>2, <1>3, <1>4 DEF Only

\* The record of a call after the removal of one target.
IsRemoved(r, done, s) ==
  /\ s \in CallRecords
  /\ s.base = r.base /\ s.owns = r.owns /\ s.dirty = r.dirty /\ s.route = r.route
  /\ IF r.outcome # "error"
     THEN IF done THEN s.pc = "sync parent" /\ s.target = r.target /\ s.outcome = r.outcome
          ELSE IsFailed(r, s)
     ELSE /\ s.outcome = "error" /\ s.target = "staging"
          /\ IF r.target = "destination" THEN s.pc = "clean" ELSE s.pc = "sync rollback"

LEMMA RemovedIs ==
  ASSUME NEW r \in CallRecords, NEW done \in BOOLEAN
  PROVE  IsRemoved(r, done, Removed(r, done))
<1>1. CASE r.outcome # "error" /\ done
  BY <1>1 DEF IsRemoved, Removed, CallRecords, CallSteps
<1>2. CASE r.outcome # "error" /\ ~done
  BY <1>2, FailedIs DEF IsRemoved, Removed, IsFailed
<1>3. CASE r.outcome = "error"
  BY <1>3, TargetsAre DEF IsRemoved, Removed, CallRecords, CallSteps
<1> QED
  BY <1>1, <1>2, <1>3

LEMMA RemovalOverNow ==
  ASSUME TypeOK, NEW p \in Publishers, NEW done \in BOOLEAN, RemovalOver(p, done)
  PROVE  Only(p) /\ IsRemoved(me[p], done, me'[p])
<1>1. me[p] \in CallRecords /\ me \in [Publishers -> CallRecords]
  BY TypesAre
<1>2. me' = [me EXCEPT ![p] = Removed(me[p], done)]
  BY DEF RemovalOver
<1>3. IsRemoved(me[p], done, Removed(me[p], done)) /\ Removed(me[p], done) \in CallRecords
  BY <1>1, RemovedIs DEF IsRemoved
<1>4. me'[p] = Removed(me[p], done)
  BY <1>1, <1>2
<1> QED
  BY <1>1, <1>2, <1>3, <1>4 DEF Only

Dirtied(r) == [r EXCEPT !.dirty = TRUE]

LEMMA RemovalFailedNow ==
  ASSUME TypeOK, NEW p \in Publishers, RemovalFailed(p)
  PROVE  Only(p) /\ IsRemoved(Dirtied(me[p]), FALSE, me'[p])
<1>1. me[p] \in CallRecords /\ me \in [Publishers -> CallRecords]
  BY TypesAre
<1>2. Dirtied(me[p]) \in CallRecords
  BY <1>1 DEF Dirtied, CallRecords
<1>3. me' = [me EXCEPT ![p] = Removed(Dirtied(me[p]), FALSE)]
  BY DEF RemovalFailed, Dirtied
<1>4. /\ IsRemoved(Dirtied(me[p]), FALSE, Removed(Dirtied(me[p]), FALSE))
      /\ Removed(Dirtied(me[p]), FALSE) \in CallRecords
  BY <1>2, RemovedIs DEF IsRemoved
<1>5. me'[p] = Removed(Dirtied(me[p]), FALSE)
  BY <1>1, <1>3
<1> QED
  BY <1>1, <1>3, <1>4, <1>5 DEF Only

-----------------------------------------------------------------------------
(***************************************************************************)
(* A step of one publisher leaves what the others rely on.                 *)
(***************************************************************************)
Frame(p) ==
  /\ Only(p) /\ data' = data
  /\ \A n \in Names \ Mine(p) : files'[n] = files[n]
  /\ \A q \in Publishers \ {p}, n \in Names :
       /\ files'[n] = q => files[n] = q
       /\ durable'[n] = q => durable[n] = q \/ files[n] = q

\* The others wait or have ended.
AloneAtIt(p) == \A q \in Publishers \ {p} : me[q].pc \notin Held

LEMMA HolderIsAlone ==
  ASSUME Locked, NEW p \in Publishers, lock \in {0, p}
  PROVE  AloneAtIt(p)
BY Numbers DEF Locked, AloneAtIt

LEMMA IdleSteps ==
  ASSUME TypeOK, NEW q \in Publishers, me[q].pc \notin Held
  PROVE  me[q].pc \in {"waiting", "end", "dead"}
<1>1. me[q].pc \in CallSteps
  BY TypesAre DEF CallRecords
<1> QED
  BY <1>1 DEF CallSteps, Held, Body1, Body2, Body3, Cleaning

LEMMA IdleStays ==
  ASSUME TypeOK, NEW p \in Publishers, NEW q \in Publishers \ {p}, Own(q), Frame(p),
         me[q].pc \notin Held
  PROVE  Own(q)' /\ me'[q].pc \notin Held
<1>1. me'[q] = me[q] /\ me[q].pc \in {"waiting", "end", "dead"}
  BY IdleSteps DEF Frame, Only
<1>2. Course(q)'
  BY <1>1 DEF Own, Course, Body1, Body2, Body3, Cleaning
<1>3. Where(q)' = Where(q) /\ OnDisk(q)' = OnDisk(q)
  BY <1>1 DEF Where, OnDisk, MyQuarantine, Mine
<1>4. Where(q) = OnDisk(q)
  <2>1. me[q].pc = "waiting" => ~me[q].dirty
    BY DEF Own, Course
  <2> QED
    BY <1>1, <2>1 DEF Where, OnDisk, Body3, Cleaning
<1>5. Located(q)'
  <2> SUFFICES ASSUME NEW n \in Names
               PROVE  (files'[n] = q => n \in Where(q)) /\ (durable'[n] = q => n \in OnDisk(q))
    BY <1>3 DEF Located
  <2>1. (files[n] = q => n \in Where(q)) /\ (durable[n] = q => n \in OnDisk(q))
    BY DEF Own, Located
  <2> QED
    BY <1>4, <2>1 DEF Frame
<1>6. Clear(q)'
  <2>1. files'[Staging(q)] = files[Staging(q)]
        /\ \A t \in Targets : files'[Quarantine(q, t)] = files[Quarantine(q, t)]
    BY MineDiffer, NamesAre DEF Frame
  <2>2. /\ me[q].pc = "waiting" => files[Staging(q)] = 0
        /\ me[q].pc = "waiting" => \A t \in Targets : files[Quarantine(q, t)] = 0
    BY DEF Own, Clear
  <2> QED
    BY <1>1, <2>1, <2>2 DEF Clear, Body1, Body2, Body3, Cleaning
<1>7. Ready(q)'
  BY <1>1 DEF Ready, Body3, Rivals, Cleaning, Checked
<1> QED
  BY <1>1, <1>2, <1>5, <1>6, <1>7 DEF Own, Held, Body1, Body2, Body3, Cleaning

-----------------------------------------------------------------------------
(***************************************************************************)
(* Steps that leave the directory alone.                                   *)
(***************************************************************************)
Still == UNCHANGED <<data, files, durable, content, foreign>> /\ synced \subseteq synced'

\* What the step of a holder of the lock may change of its own record.
Proceeds(p) ==
  /\ me[p].pc \in Held \ {"release"}
  /\ me'[p].base.inode <= N + foreign
  /\ me'[p].pc = "quarantine" /\ me'[p].target = "destination" =>
       kept = {} /\ files[Destination] \in {0, p} \cup Foreigners

LEMMA StillFrame ==
  ASSUME NEW p \in Publishers, Only(p), Still
  PROVE  Frame(p)
BY DEF Frame, Still

LEMMA StillKeeps ==
  ASSUME PublisherInv, NEW p \in Publishers, Only(p), AloneAtIt(p), Proceeds(p), Still,
         kept' = kept
  PROVE  Apart' /\ Numbered' /\ Kept'
<1>1. Apart /\ Numbered /\ Kept /\ TypeOK
  BY DEF PublisherInv
<1>2. me[p].pc \notin Over
  BY DEF Proceeds, Held, Body1, Body2, Body3, Cleaning, Over
<1>3. Apart'
  BY <1>1, <1>2 DEF Apart, Still
<1>4. \A q \in Publishers \ {p} : me'[q] = me[q] /\ me[q].pc \notin Held
  BY DEF Only, AloneAtIt
<1>5. Numbered'
  BY <1>1, <1>4 DEF Numbered, Still, Proceeds
<1>6. \A q \in kept : Exact(q)'
  BY <1>1 DEF Kept, Exact, Still
<1>7. kept # {} => Settled'
  BY <1>1 DEF Kept, Settled, Still
<1>8. kept # {} => \A q \in Publishers : me'[q].pc \in Held \ {"release"} => files'[Destination] # q
  BY <1>1, <1>4 DEF Kept, Still, Proceeds
<1>9. \A q \in Publishers :
        me'[q].pc = "quarantine" /\ me'[q].target = "destination" =>
          kept = {} /\ files'[Destination] \in {0, q} \cup Foreigners
  BY <1>4 DEF Proceeds, Still, Held, Cleaning
<1>10. Kept'
  BY <1>6, <1>7, <1>8, <1>9 DEF Kept
<1> QED
  BY <1>3, <1>5, <1>10

\* After an error nothing is claimed that was not so before.
LEMMA FailedOwn ==
  ASSUME PublisherInv, NEW p \in Publishers, Only(p), Still, IsFailed(me[p], me'[p]),
         me[p].pc \in Body1 \cup Body2 \cup Body3
  PROVE  Own(p)' /\ Proceeds(p)
<1>1. Own(p) /\ TypeOK /\ Numbered
  BY DEF PublisherInv
<1>2. /\ me'[p].outcome = "error" /\ me'[p].dirty = FALSE /\ me'[p].base = me[p].base
      /\ \/ me[p].owns /\ me'[p].owns /\ me'[p].pc = "clean" /\ me'[p].target = "destination"
         \/ ~me[p].owns /\ me'[p].pc = "release"
  <2>1. ~me[p].dirty /\ me[p].owns \in BOOLEAN /\ me[p].dirty \in BOOLEAN
    BY <1>1, TypesAre DEF Own, Course, CallRecords
  <2> QED
    BY <2>1 DEF IsFailed, CallRecords
<1>3. Course(p)'
  BY <1>2 DEF Course, Body1, Body2, Body3, Cleaning
<1>4. Located(p)'
  <2>1. CASE me[p].owns
    <3>1. Where(p)' = {Staging(p), Destination} /\ OnDisk(p)' = {Destination}
      BY <1>2, <2>1 DEF Where, OnDisk, Body3, Cleaning
    <3>2. Where(p) \subseteq {Staging(p), Destination} /\ OnDisk(p) \subseteq {Destination}
      BY <1>1 DEF Where, OnDisk, Own, Course, Body1, Body2, Body3, Cleaning
    <3> QED
      BY <1>1, <3>1, <3>2 DEF Located, Own, Still
  <2>2. CASE ~me[p].owns
    <3>1. me[p].pc \in Body1 \/ (me[p].pc \in Body3 /\ me[p].route = "existing")
      BY <1>1, <2>2 DEF Own, Course
    <3>2. Where(p) = {} /\ OnDisk(p) = {}
      BY <1>1, <3>1 DEF Where, OnDisk, Own, Course, Body1, Body3, Cleaning
    <3> QED
      BY <1>1, <3>2 DEF Located, Own, Still
  <2> QED
    BY <2>1, <2>2
<1>5. Clear(p)'
  <2>1. \A t \in Targets : files'[Quarantine(p, t)] = 0
    BY <1>1 DEF Own, Clear, Still
  <2> QED
    BY <1>2, <2>1, TargetsAre DEF Clear, Body1, Body2, Body3, Cleaning
<1>6. Ready(p)'
  BY <1>2 DEF Ready, Body3, Rivals, Cleaning, Checked
<1>7. Proceeds(p)
  BY <1>1, <1>2 DEF Proceeds, Held, Body1, Body2, Body3, Numbered
<1> QED
  BY <1>3, <1>4, <1>5, <1>6, <1>7 DEF Own

LEMMA WhereIsMine ==
  ASSUME TypeOK, NEW p \in Publishers
  PROVE  Where(p) \subseteq Mine(p) /\ OnDisk(p) \subseteq Mine(p)
<1>1. MyQuarantine(p) \in Mine(p) /\ Destination \in Mine(p) /\ Staging(p) \in Mine(p)
  BY TypesAre DEF Mine
<1>2. Where(p) \in {Mine(p), {}, {Staging(p)}, {Destination}, {Staging(p), Destination},
                    {MyQuarantine(p)}, {MyQuarantine(p), Staging(p)}}
  <2>1. me[p].pc \in CallSteps
    BY TypesAre DEF CallRecords
  <2> QED
    BY <2>1 DEF Where, Body3, CallSteps
<1>3. OnDisk(p) \in {Mine(p), {}, {Destination}}
  BY DEF OnDisk
<1> QED
  BY <1>1, <1>2, <1>3

\* The step from one check to the next, with the same baseline.
Walks(p, to) ==
  /\ Only(p) /\ SameBut(p) /\ me'[p].pc = to /\ me'[p].route = me[p].route
  /\ me'[p].target = me[p].target /\ me'[p].outcome = me[p].outcome

LEMMA BecomeWalks ==
  ASSUME TypeOK, NEW p \in Publishers, NEW step \in CallSteps, Become(p, step)
  PROVE  Walks(p, step)
BY Became DEF Walks

LEMMA WalkOwn ==
  ASSUME PublisherInv, NEW p \in Publishers, NEW to, Walks(p, to), Still,
         <<me[p].pc, to>> \in {<<"read", "create">>, <<"flush", "verify">>,
                              <<"verify", "install">>, <<"install", "raced">>}
  PROVE  Own(p)' /\ Proceeds(p)
<1>1. Own(p) /\ Numbered
  BY DEF PublisherInv
<1>2. \/ me[p].pc = "read" /\ me'[p].pc = "create"
      \/ me[p].pc = "flush" /\ me'[p].pc = "verify"
      \/ me[p].pc = "verify" /\ me'[p].pc = "install"
      \/ me[p].pc = "install" /\ me'[p].pc = "raced"
  BY DEF Walks
<1>3. /\ me'[p].base = me[p].base /\ me'[p].owns = me[p].owns /\ me'[p].dirty = me[p].dirty
      /\ me'[p].outcome = me[p].outcome
  BY DEF Walks, SameBut
<1>4. Course(p)'
  BY <1>1, <1>2, <1>3 DEF Own, Course, Body1, Body2, Body3, Cleaning
<1>5. Located(p)'
  <2>1. ~me[p].dirty
    BY <1>1, <1>2 DEF Own, Course, Body1, Body2
  <2>2. Where(p)' = Where(p) /\ OnDisk(p)' = OnDisk(p)
    BY <1>2, <1>3, <2>1 DEF Where, OnDisk, Body3, Cleaning
  <2> QED
    BY <1>1, <2>2 DEF Own, Located, Still
<1>6. Clear(p)'
  BY <1>1, <1>2 DEF Own, Clear, Still, Body1, Body2, Body3, Cleaning
<1>7. Ready(p)'
  BY <1>2 DEF Ready, Body3, Rivals, Cleaning, Checked
<1>8. Proceeds(p)
  BY <1>1, <1>2, <1>3 DEF Proceeds, Numbered, Held, Body1, Body2
<1> QED
  BY <1>4, <1>5, <1>6, <1>7, <1>8 DEF Own

\* The checks of the destination.
LEMMA CheckOwn ==
  ASSUME PublisherInv, NEW p \in Publishers, NEW to, Walks(p, to), Still,
         \/ me[p].pc = "sync" /\ to = "confirm" /\ files[Destination] \in synced'
         \/ me[p].pc = "confirm" /\ to = "sync parent" /\ me[p].route # "raced"
  PROVE  Own(p)' /\ Proceeds(p)
<1>1. Own(p) /\ Numbered
  BY DEF PublisherInv
<1>2. /\ me'[p].base = me[p].base /\ me'[p].owns = me[p].owns /\ me'[p].dirty = me[p].dirty
      /\ me'[p].outcome = me[p].outcome /\ me'[p].route = me[p].route
      /\ me'[p].pc = to
  BY DEF Walks, SameBut
<1>3. Course(p)'
  BY <1>1, <1>2 DEF Own, Course, Body1, Body2, Body3, Cleaning
<1>4. Located(p)'
  <2>1. ~me[p].dirty
    BY <1>1 DEF Own, Course, Body3
  <2>2. Where(p)' = Where(p) /\ OnDisk(p)' = OnDisk(p)
    BY <1>2, <2>1 DEF Where, OnDisk, Body3, Cleaning
  <2> QED
    BY <1>1, <2>2 DEF Own, Located, Still
<1>5. Clear(p)'
  BY <1>1, <1>2 DEF Own, Clear, Still, Body1, Body2, Body3, Cleaning
<1>6. Ready(p)'
  <2>1. At(Destination)' = At(Destination)
    BY DEF At, Still
  <2>2. At(Destination).inode = files[Destination]
    BY DEF At
  <2>3. /\ me[p].base.inode # 0 /\ me[p].base.content = data[p]
        /\ At(Destination) = me[p].base /\ me[p].pc = "confirm" => me[p].base.inode \in synced
    BY <1>1 DEF Own, Ready, Body3, Checked
  <2> QED
    BY <1>2, <2>1, <2>2, <2>3 DEF Ready, Body3, Rivals, Cleaning, Checked, Still
<1>7. Proceeds(p)
  BY <1>1, <1>2 DEF Proceeds, Numbered, Held, Body3
<1> QED
  BY <1>3, <1>4, <1>5, <1>6, <1>7 DEF Own

\* What the others find at the destination becomes the baseline.
LEMMA AdoptOwn ==
  ASSUME PublisherInv, NEW p \in Publishers, NEW route, Adopt(p, route), Exact(p), Still,
         \/ me[p].pc = "read" /\ route = "existing"
         \/ me[p].pc = "raced" /\ route = "raced"
         \/ me[p].pc = "installed" /\ route = "installed"
  PROVE  Only(p) /\ Own(p)' /\ Proceeds(p)
<1>1. Own(p) /\ Numbered /\ TypeOK
  BY DEF PublisherInv
<1>2. me[p] \in CallRecords /\ me \in [Publishers -> CallRecords]
  BY <1>1, TypesAre
<1>3. At(Destination).inode = files[Destination] /\ At(Destination).content = data[p]
  BY DEF At, Exact
<1>4. At(Destination) \in [inode : Inodes \cup {0}, content : Contents \cup {"none"}]
  BY <1>1, <1>3, TypesAre, NamesAre DEF At
<1>5. [me[p] EXCEPT !.base = At(Destination), !.route = route, !.pc = "sync"] \in CallRecords
  BY <1>2, <1>4 DEF CallRecords, CallSteps
<1>6. me' = [me EXCEPT ![p] =
               [me[p] EXCEPT !.base = At(Destination), !.route = route, !.pc = "sync"]]
  BY <1>2 DEF Adopt, CallRecords
<1>7. /\ Only(p) /\ me'[p].base = At(Destination) /\ me'[p].route = route /\ me'[p].pc = "sync"
      /\ me'[p].owns = me[p].owns /\ me'[p].dirty = me[p].dirty
      /\ me'[p].outcome = me[p].outcome
  BY <1>2, <1>5, <1>6 DEF Only, CallRecords
<1>8. Course(p)'
  BY <1>1, <1>7 DEF Own, Course, Body1, Body2, Body3, Cleaning
<1>9. Located(p)'
  <2>1. ~me[p].dirty
    BY <1>1 DEF Own, Course, Body1, Body2
  <2>2. Where(p)' = Where(p) /\ OnDisk(p)' = OnDisk(p)
    BY <1>7, <2>1 DEF Where, OnDisk, Body3, Cleaning
  <2> QED
    BY <1>1, <2>2 DEF Own, Located, Still
<1>10. Clear(p)'
  BY <1>1, <1>7 DEF Own, Clear, Still, Body1, Body2, Body3, Cleaning
<1>11. Ready(p)'
  BY <1>3, <1>7 DEF Ready, Body3, Rivals, Cleaning, Checked, Still, Exact
<1>12. Proceeds(p)
  <2>1. files[Destination] <= N + foreign
    BY <1>1, NamesAre DEF Numbered
  <2> QED
    BY <1>3, <1>7, <2>1 DEF Proceeds, Held, Body1, Body2
<1> QED
  BY <1>7, <1>8, <1>9, <1>10, <1>11, <1>12 DEF Own

\* The next target after one that was not there.
LEMMA MissingOwn ==
  ASSUME PublisherInv, NEW p \in Publishers, Only(p), IsRemoved(me[p], FALSE, me'[p]), Still,
         me[p].pc \in {"clean", "quarantine"}, files[MyTarget(p)] # p
  PROVE  Own(p)' /\ Proceeds(p)
<1>1. Own(p) /\ Numbered /\ TypeOK
  BY DEF PublisherInv
<1>2. me[p].owns /\ me[p].target \in {"destination", "staging"}
  BY <1>1, TypesAre, TargetsAre DEF Own, Course, Cleaning
<1>3. /\ me'[p].base = me[p].base /\ me'[p].owns /\ me'[p].dirty = me[p].dirty
      /\ me'[p].outcome = "error"
      /\ \/ /\ me[p].outcome # "error"
            /\ me'[p].pc = "clean" /\ me'[p].target = "destination"
         \/ /\ me[p].outcome = "error" /\ me[p].target = "destination"
            /\ me'[p].pc = "clean" /\ me'[p].target = "staging"
         \/ /\ me[p].outcome = "error" /\ me[p].target = "staging"
            /\ me'[p].pc = "sync rollback"
  BY <1>2 DEF IsRemoved, IsFailed
<1>4. Course(p)'
  BY <1>3 DEF Course, Body1, Body2, Body3, Cleaning
<1>5. Located(p)'
  <2>1. CASE me[p].dirty
    <3>1. Where(p)' = Mine(p) /\ OnDisk(p)' = Mine(p)
      BY <1>3, <2>1 DEF Where, OnDisk, Mine
    <3> QED
      BY <1>1, <3>1, WhereIsMine DEF Own, Located, Still
  <2>2. CASE ~me[p].dirty
    <3>1. OnDisk(p) \subseteq {Destination} /\ OnDisk(p)' = {Destination}
      BY <1>3, <2>2 DEF OnDisk, Cleaning
    <3>2. Where(p) = {Staging(p)} \cup (IF me[p].target = "staging" THEN {} ELSE {Destination})
      BY <2>2 DEF Where, Body3
    <3>3. Where(p)' = IF me[p].outcome # "error" THEN {Staging(p), Destination}
                      ELSE IF me[p].target = "destination" THEN {Staging(p)} ELSE {}
      BY <1>3, <2>2 DEF Where, Body3
    <3>4. MyTarget(p) = IF me[p].target = "destination" THEN Destination ELSE Staging(p)
      BY DEF MyTarget, TargetName
    <3>5. ASSUME NEW n \in Names, files[n] = p
          PROVE  n \in Where(p)'
      <4>1. n \in Where(p) /\ n # MyTarget(p)
        BY <1>1, <3>5 DEF Own, Located
      <4> QED
        BY <1>2, <3>2, <3>3, <3>4, <4>1
    <3> QED
      BY <1>1, <3>1, <3>5 DEF Own, Located, Still
  <2> QED
    BY <2>1, <2>2
<1>6. Clear(p)'
  BY <1>1, <1>3 DEF Own, Clear, Still, Body1, Body2, Body3, Cleaning
<1>7. Ready(p)'
  BY <1>3 DEF Ready, Body3, Rivals, Cleaning, Checked
<1>8. Proceeds(p)
  BY <1>1, <1>3 DEF Proceeds, Numbered, Held, Cleaning
<1> QED
  BY <1>4, <1>5, <1>6, <1>7, <1>8 DEF Own

\* The next target after a removal that failed.
LEMMA DirtyOwn ==
  ASSUME PublisherInv, NEW p \in Publishers, Only(p), Still,
         IsRemoved(Dirtied(me[p]), FALSE, me'[p]), me[p].pc \in {"quarantine", "judge"}
  PROVE  Own(p)' /\ Proceeds(p)
<1>1. Own(p) /\ Numbered /\ TypeOK
  BY DEF PublisherInv
<1>2. me[p].owns /\ me[p].target \in {"destination", "staging"} /\ me[p] \in CallRecords
  BY <1>1, TypesAre, TargetsAre DEF Own, Course, Cleaning
<1>3. /\ me'[p].base = me[p].base /\ me'[p].owns /\ me'[p].dirty
      /\ me'[p].outcome = "error"
      /\ \/ /\ me[p].outcome # "error"
            /\ me'[p].pc = "clean" /\ me'[p].target = "destination"
         \/ /\ me[p].outcome = "error" /\ me[p].target = "destination"
            /\ me'[p].pc = "clean" /\ me'[p].target = "staging"
         \/ /\ me[p].outcome = "error" /\ me[p].target = "staging"
            /\ me'[p].pc = "sync rollback"
  BY <1>2 DEF IsRemoved, IsFailed, Dirtied, CallRecords
<1>4. Course(p)'
  BY <1>3 DEF Course, Body1, Body2, Body3, Cleaning
<1>5. Located(p)'
  <2>1. Where(p)' = Mine(p) /\ OnDisk(p)' = Mine(p)
    BY <1>3 DEF Where, OnDisk, Mine
  <2> QED
    BY <1>1, <2>1, WhereIsMine DEF Own, Located, Still
<1>6. Clear(p)'
  BY <1>1, <1>3 DEF Own, Clear, Still, Body1, Body2, Body3, Cleaning
<1>7. Ready(p)'
  BY <1>3 DEF Ready, Body3, Rivals, Cleaning, Checked
<1>8. Proceeds(p)
  BY <1>1, <1>3 DEF Proceeds, Numbered, Held, Cleaning
<1> QED
  BY <1>4, <1>5, <1>6, <1>7, <1>8 DEF Own
\* The loser of a race turns to its own staging file.
LEMMA RivalOwn ==
  ASSUME PublisherInv, NEW p \in Publishers, Still, me[p].pc = "confirm", Undisturbed(p),
         me[p].route = "raced",
         me' = [me EXCEPT ![p].pc = "clean", ![p].target = "staging"]
  PROVE  Only(p) /\ Own(p)' /\ Proceeds(p)
<1>1. Own(p) /\ Numbered /\ TypeOK
  BY DEF PublisherInv
<1>2. me[p] \in CallRecords /\ me \in [Publishers -> CallRecords] /\ "staging" \in Targets
  BY <1>1, TypesAre, TargetsAre
<1>3. [me[p] EXCEPT !.pc = "clean", !.target = "staging"] \in CallRecords
  BY <1>2 DEF CallRecords, CallSteps
<1>4. me' = [me EXCEPT ![p] = [me[p] EXCEPT !.pc = "clean", !.target = "staging"]]
  BY <1>2 DEF CallRecords
<1>5. /\ Only(p) /\ me'[p].base = me[p].base /\ me'[p].route = "raced"
      /\ me'[p].pc = "clean" /\ me'[p].target = "staging"
      /\ me'[p].owns = me[p].owns /\ me'[p].dirty = me[p].dirty
      /\ me'[p].outcome = me[p].outcome
  BY <1>2, <1>3, <1>4 DEF Only, CallRecords
<1>6. me[p].outcome = "none" /\ ~me[p].dirty /\ me[p].owns
  BY <1>1 DEF Own, Course, Body3
<1>7. Course(p)'
  BY <1>5, <1>6 DEF Course, Body1, Body2, Body3, Cleaning
<1>8. Located(p)'
  <2>1. Where(p)' = Where(p) /\ OnDisk(p)' = OnDisk(p)
    BY <1>5, <1>6 DEF Where, OnDisk, Body3, Cleaning
  <2> QED
    BY <1>1, <2>1 DEF Own, Located, Still
<1>9. Clear(p)'
  <2>1. \A t \in Targets : files'[Quarantine(p, t)] = 0
    BY <1>1 DEF Own, Clear, Still, Body3
  <2> QED
    BY <1>5, <2>1, TargetsAre DEF Clear, Body1, Body2, Body3, Cleaning
<1>10. Ready(p)'
  <2>1. At(Destination)' = At(Destination)
    BY DEF At, Still
  <2>2. /\ me[p].base.inode # 0 /\ me[p].base.content = data[p]
        /\ me[p].base.inode \in synced
    BY <1>1 DEF Own, Ready, Body3, Checked, Undisturbed
  <2> QED
    BY <1>5, <2>1, <2>2 DEF Ready, Body3, Rivals, Cleaning, Checked, Still
<1>11. Proceeds(p)
  BY <1>1, <1>5 DEF Proceeds, Numbered, Held, Body3
<1> QED
  BY <1>5, <1>7, <1>8, <1>9, <1>10, <1>11 DEF Own

\* The target is still the publisher's own file.
LEMMA LookOwn ==
  ASSUME PublisherInv, NEW p \in Publishers, Walks(p, "quarantine"), Still,
         me[p].pc = "clean", files[MyTarget(p)] = p
  PROVE  Own(p)' /\ Proceeds(p)
<1>1. Own(p) /\ Numbered /\ TypeOK /\ Kept
  BY DEF PublisherInv
<1>2. /\ me'[p].base = me[p].base /\ me'[p].owns = me[p].owns /\ me'[p].dirty = me[p].dirty
      /\ me'[p].outcome = me[p].outcome /\ me'[p].route = me[p].route
      /\ me'[p].pc = "quarantine" /\ me'[p].target = me[p].target
  BY DEF Walks, SameBut
<1>3. me[p].target \in {"destination", "staging"} /\ p # 0
  BY <1>1, TypesAre, TargetsAre, Numbers
<1>4. Course(p)'
  BY <1>1, <1>2 DEF Own, Course, Body1, Body2, Body3, Cleaning
<1>5. Located(p)'
  <2>1. Where(p)' = Where(p) /\ OnDisk(p)' = OnDisk(p)
    BY <1>2 DEF Where, OnDisk, Body3, Cleaning, Mine
  <2> QED
    BY <1>1, <2>1 DEF Own, Located, Still
<1>6. Clear(p)'
  <2>1. files[MyQuarantine(p)] = 0
    BY <1>1, <1>3 DEF Own, Clear, Cleaning, MyQuarantine, MyTarget, TargetName
  <2>2. MyQuarantine(p)' = MyQuarantine(p)
    BY <1>2 DEF MyQuarantine
  <2> QED
    BY <1>1, <1>2, <2>1, <2>2 DEF Own, Clear, Still, Body1, Body2, Body3, Cleaning
<1>7. Ready(p)'
  <2>1. At(Destination)' = At(Destination)
    BY DEF At, Still
  <2> QED
    BY <1>1, <1>2, <2>1 DEF Own, Ready, Body3, Rivals, Cleaning, Checked, Still
<1>8. Proceeds(p)
  <2>1. me[p].target = "destination" => kept = {} /\ files[Destination] = p
    BY <1>1 DEF Kept, MyTarget, TargetName, Held, Cleaning
  <2> QED
    BY <1>1, <1>2, <2>1 DEF Proceeds, Numbered, Held, Cleaning
<1> QED
  BY <1>4, <1>5, <1>6, <1>7, <1>8 DEF Own

-----------------------------------------------------------------------------
(***************************************************************************)
(* A step of the holder of the lock, and those that leave the directory.   *)
(***************************************************************************)
LEMMA StepDone ==
  ASSUME PublisherInv, NEW p \in Publishers, AloneAtIt(p), Frame(p), TypeOK', Own(p)',
         Apart', Numbered', Kept', me'[p].pc \in Held => lock' = p
  PROVE  PublisherInv'
<1>1. TypeOK /\ \A q \in Publishers : Own(q)
  BY DEF PublisherInv
<1>2. \A q \in Publishers \ {p} : me[q].pc \notin Held
  BY DEF AloneAtIt
<1>3. \A q \in Publishers \ {p} : Own(q)' /\ me'[q].pc \notin Held
  BY <1>1, <1>2, IdleStays
<1>4. Locked'
  BY <1>3 DEF Locked
<1>5. \A q \in Publishers : Own(q)'
  BY <1>3
<1> QED
  BY <1>4, <1>5 DEF PublisherInv

\* What every step of the holder keeps of the types.
HolderSteps(p) ==
  /\ lock = p /\ lock' = lock /\ moved' = moved
  /\ faults' \in 0..MaxFaults /\ foreign' = foreign

LEMMA CountersAre ==
  ASSUME TypeOK
  PROVE  /\ N \in Nat /\ MaxForeign \in Nat /\ MaxFaults \in Nat
         /\ foreign \in Nat /\ foreign <= MaxForeign /\ N + foreign \in Nat
<1>1. N \in Nat /\ MaxForeign \in Nat /\ MaxFaults \in Nat
  BY Numbers
<1>2. foreign \in 0..MaxForeign
  BY DEF TypeOK
<1> QED
  BY <1>1, <1>2

LEMMA FaultCounts ==
  ASSUME TypeOK, NoFault \/ Fault
  PROVE  faults' \in 0..MaxFaults
<1>1. MaxFaults \in Nat /\ faults \in 0..MaxFaults
  BY Numbers DEF TypeOK
<1> QED
  BY <1>1 DEF NoFault, Fault

LEMMA TypeNow ==
  ASSUME me' \in [Publishers -> CallRecords], UNCHANGED data,
         files' \in [Names -> Inodes \cup {0}], durable' \in [Names -> Inodes \cup {0}],
         content' \in [Inodes -> Contents \cup {"none", "partial", "other"}],
         synced' \subseteq Inodes, lock' \in Publishers \cup {0}, moved' \in BOOLEAN,
         kept' \subseteq Publishers, faults' \in 0..MaxFaults, foreign' \in 0..MaxForeign,
         TypeOK
  PROVE  TypeOK'
<1>1. me' \in [Publishers ->
       [pc : {"waiting", "read", "create", "write", "flush", "verify", "install",
              "raced", "installed", "sync", "confirm", "sync parent", "accept", "clean",
              "quarantine", "judge", "sync rollback", "release"} \cup Over,
        route : {"none", "existing", "raced", "installed"},
        base : [inode : Inodes \cup {0}, content : Contents \cup {"none"}],
        target : Targets, owns : BOOLEAN,
        outcome : {"none", "ok", "raised", "error"}, dirty : BOOLEAN]]
  <2>1. CallSteps = {"waiting", "read", "create", "write", "flush", "verify", "install",
              "raced", "installed", "sync", "confirm", "sync parent", "accept", "clean",
              "quarantine", "judge", "sync rollback", "release"} \cup Over
    BY DEF CallSteps, Over
  <2> QED
    BY <2>1, Zenon DEF CallRecords
<1>2. data' \in [Publishers -> Contents]
  BY DEF TypeOK
<1> QED
  BY <1>1, <1>2 DEF TypeOK

LEMMA StillDone ==
  ASSUME PublisherInv, NEW p \in Publishers, HolderSteps(p), Only(p), Still, Own(p)',
         Proceeds(p), kept' = kept, synced' \subseteq Inodes
  PROVE  PublisherInv'
<1>1. TypeOK /\ Locked
  BY DEF PublisherInv
<1>2. AloneAtIt(p)
  BY <1>1, HolderIsAlone DEF HolderSteps
<1>3. Apart' /\ Numbered' /\ Kept'
  BY <1>2, StillKeeps
<1>4. TypeOK'
  BY <1>1, TypeNow DEF TypeOK, HolderSteps, Still, Only
<1> QED
  BY <1>2, <1>3, <1>4, StillFrame, StepDone DEF HolderSteps

LEMMA FailDone ==
  ASSUME PublisherInv, NEW p \in Publishers, HolderSteps(p), Still, Fail(p), kept' = kept,
         synced' \subseteq Inodes, me[p].pc \in Body1 \cup Body2 \cup Body3
  PROVE  PublisherInv'
<1>1. Only(p) /\ IsFailed(me[p], me'[p])
  BY FailedNow DEF PublisherInv
<1>2. Own(p)' /\ Proceeds(p)
  BY <1>1, FailedOwn
<1> QED
  BY <1>1, <1>2, StillDone

LEMMA WalkDone ==
  ASSUME PublisherInv, NEW p \in Publishers, HolderSteps(p), Still, kept' = kept,
         synced' \subseteq Inodes, NEW to \in CallSteps, Become(p, to),
         \/ <<me[p].pc, to>> \in {<<"read", "create">>, <<"flush", "verify">>,
                                 <<"verify", "install">>, <<"install", "raced">>}
         \/ me[p].pc = "sync" /\ to = "confirm" /\ files[Destination] \in synced'
         \/ me[p].pc = "confirm" /\ to = "sync parent" /\ me[p].route # "raced"
         \/ me[p].pc = "clean" /\ to = "quarantine" /\ files[MyTarget(p)] = p
  PROVE  PublisherInv'
<1>1. Walks(p, to)
  BY BecomeWalks DEF PublisherInv
<1>2. Own(p)' /\ Proceeds(p)
  BY <1>1, WalkOwn, CheckOwn, LookOwn
<1> QED
  BY <1>1, <1>2, StillDone DEF Walks

LEMMA AdoptDone ==
  ASSUME PublisherInv, NEW p \in Publishers, HolderSteps(p), Still, kept' = kept,
         synced' \subseteq Inodes, NEW route, Adopt(p, route), Exact(p),
         \/ me[p].pc = "read" /\ route = "existing"
         \/ me[p].pc = "raced" /\ route = "raced"
         \/ me[p].pc = "installed" /\ route = "installed"
  PROVE  PublisherInv'
BY AdoptOwn, StillDone

LEMMA Holds ==
  ASSUME PublisherInv, NEW p \in Publishers, me[p].pc \in Held, lock' = lock, moved' = moved,
         foreign' = foreign, NoFault \/ Fault
  PROVE  HolderSteps(p)
<1>1. TypeOK /\ Locked
  BY DEF PublisherInv
<1> QED
  BY <1>1, FaultCounts DEF HolderSteps, Locked

LEMMA SyncedAre ==
  ASSUME PublisherInv, synced' = synced
  PROVE  synced' \subseteq Inodes
BY DEF PublisherInv, TypeOK

LEMMA ReadExistingStep ==
  ASSUME PublisherInv, NEW p \in Publishers, ReadExisting(p)
  PROVE  PublisherInv'
<1>1. /\ me[p].pc = "read" /\ me[p].pc \in Body1 /\ Still /\ kept' = kept
      /\ HolderSteps(p) /\ synced' \subseteq Inodes
  BY Holds, SyncedAre DEF ReadExisting, Still, disk, Held, Body1, NoFault
<1>2. CASE Become(p, "create")
  BY <1>1, <1>2, WalkDone DEF CallSteps
<1>3. CASE Adopt(p, "existing") /\ Exact(p)
  BY <1>1, <1>3, AdoptDone
<1>4. CASE Fail(p)
  BY <1>1, <1>4, FailDone
<1> QED
  BY <1>2, <1>3, <1>4 DEF ReadExisting

LEMMA FlushStagingStep ==
  ASSUME PublisherInv, NEW p \in Publishers, FlushStaging(p)
  PROVE  PublisherInv'
<1>1. /\ me[p].pc = "flush" /\ me[p].pc \in Body2 /\ Still /\ kept' = kept
      /\ HolderSteps(p)
  BY Holds DEF FlushStaging, Still, Held, Body2, NoFault
<1>2. synced' \subseteq Inodes
  <2>1. p \in Inodes /\ synced \subseteq Inodes
    BY Numbers DEF PublisherInv, TypeOK
  <2> QED
    BY <2>1 DEF FlushStaging
<1>3. CASE Become(p, "verify")
  BY <1>1, <1>2, <1>3, WalkDone DEF CallSteps
<1>4. CASE Fail(p)
  BY <1>1, <1>2, <1>4, FailDone
<1> QED
  BY <1>3, <1>4 DEF FlushStaging

LEMMA VerifyStagingStep ==
  ASSUME PublisherInv, NEW p \in Publishers, VerifyStaging(p)
  PROVE  PublisherInv'
<1>1. /\ me[p].pc = "verify" /\ me[p].pc \in Body2 /\ Still /\ kept' = kept
      /\ HolderSteps(p) /\ synced' \subseteq Inodes
  BY Holds, SyncedAre DEF VerifyStaging, Still, disk, Held, Body2, NoFault
<1>2. CASE Become(p, "install")
  BY <1>1, <1>2, WalkDone DEF CallSteps
<1>3. CASE Fail(p)
  BY <1>1, <1>3, FailDone
<1> QED
  BY <1>2, <1>3 DEF VerifyStaging

LEMMA ReadRacedStep ==
  ASSUME PublisherInv, NEW p \in Publishers, ReadRaced(p)
  PROVE  PublisherInv'
<1>1. /\ me[p].pc = "raced" /\ me[p].pc \in Body2 /\ Still /\ kept' = kept
      /\ HolderSteps(p) /\ synced' \subseteq Inodes
  BY Holds, SyncedAre DEF ReadRaced, Still, disk, Held, Body2, NoFault
<1>2. CASE Adopt(p, "raced") /\ Exact(p)
  BY <1>1, <1>2, AdoptDone
<1>3. CASE Fail(p)
  BY <1>1, <1>3, FailDone
<1> QED
  BY <1>2, <1>3 DEF ReadRaced

LEMMA ReadInstalledStep ==
  ASSUME PublisherInv, NEW p \in Publishers, ReadInstalled(p)
  PROVE  PublisherInv'
<1>1. /\ me[p].pc = "installed" /\ me[p].pc \in Body2 /\ Still /\ kept' = kept
      /\ HolderSteps(p) /\ synced' \subseteq Inodes
  BY Holds, SyncedAre DEF ReadInstalled, Still, disk, Held, Body2, NoFault
<1>2. CASE Adopt(p, "installed") /\ Exact(p)
  BY <1>1, <1>2, AdoptDone
<1>3. CASE Fail(p)
  BY <1>1, <1>3, FailDone
<1> QED
  BY <1>2, <1>3 DEF ReadInstalled

LEMMA SyncDestinationStep ==
  ASSUME PublisherInv, NEW p \in Publishers, SyncDestination(p)
  PROVE  PublisherInv'
<1>1. /\ me[p].pc = "sync" /\ me[p].pc \in Body3 /\ Still /\ kept' = kept
      /\ HolderSteps(p)
  BY Holds DEF SyncDestination, Still, Held, Body3, NoFault
<1>2. CASE At(Destination) = me[p].base
  <2>1. At(Destination).inode = files[Destination]
    BY DEF At
  <2>2. me[p].base.inode # 0
    BY <1>1 DEF PublisherInv, Own, Ready
  <2>3. files[Destination] \in Inodes
    BY <1>2, <2>1, <2>2, NamesAre DEF PublisherInv, TypeOK
  <2>4. synced' \subseteq Inodes /\ files[Destination] \in synced' /\ Become(p, "confirm")
    BY <1>2, <2>3 DEF SyncDestination, PublisherInv, TypeOK
  <2> QED
    BY <1>1, <2>4, WalkDone DEF CallSteps
<1>3. CASE At(Destination) # me[p].base
  <2>1. Fail(p) /\ synced' = synced
    BY <1>3 DEF SyncDestination
  <2> QED
    BY <1>1, <2>1, SyncedAre, FailDone
<1> QED
  BY <1>2, <1>3

LEMMA ConfirmStep ==
  ASSUME PublisherInv, NEW p \in Publishers, Confirm(p)
  PROVE  PublisherInv'
<1>1. /\ me[p].pc = "confirm" /\ me[p].pc \in Body3 /\ Still /\ kept' = kept
      /\ HolderSteps(p) /\ synced' \subseteq Inodes
  BY Holds, SyncedAre DEF Confirm, Still, disk, Held, Body3, NoFault
<1>2. CASE Fail(p)
  BY <1>1, <1>2, FailDone
<1>3. CASE /\ Undisturbed(p) /\ me[p].route = "raced"
           /\ me' = [me EXCEPT ![p].pc = "clean", ![p].target = "staging"]
  BY <1>1, <1>3, RivalOwn, StillDone
<1>4. CASE me[p].route # "raced" /\ Become(p, "sync parent")
  BY <1>1, <1>4, WalkDone DEF CallSteps
<1> QED
  BY <1>2, <1>3, <1>4 DEF Confirm

LEMMA LookAtTargetStep ==
  ASSUME PublisherInv, NEW p \in Publishers, LookAtTarget(p)
  PROVE  PublisherInv'
<1>1. /\ me[p].pc = "clean" /\ Still /\ kept' = kept
      /\ HolderSteps(p) /\ synced' \subseteq Inodes
  BY Holds, SyncedAre DEF LookAtTarget, Still, disk, Held, Cleaning, NoFault
<1>2. CASE files[MyTarget(p)] = p
  <2>1. Become(p, "quarantine")
    BY <1>2 DEF LookAtTarget
  <2> QED
    BY <1>1, <1>2, <2>1, WalkDone DEF CallSteps
<1>3. CASE files[MyTarget(p)] # p
  <2>1. RemovalOver(p, FALSE)
    BY <1>3 DEF LookAtTarget
  <2>2. Only(p) /\ IsRemoved(me[p], FALSE, me'[p])
    BY <2>1, RemovalOverNow DEF PublisherInv
  <2>3. Own(p)' /\ Proceeds(p)
    BY <1>1, <1>3, <2>2, MissingOwn
  <2> QED
    BY <1>1, <2>2, <2>3, StillDone
<1> QED
  BY <1>2, <1>3

LEMMA CallFailsStep ==
  ASSUME PublisherInv, NEW p \in Publishers, CallFails(p)
  PROVE  PublisherInv'
<1>1. /\ me[p].pc \in Body1 \cup Body2 \cup Body3 /\ Still /\ kept' = kept
      /\ HolderSteps(p) /\ synced' \subseteq Inodes
  BY Holds, SyncedAre DEF CallFails, Still, disk, Held, Body1, Body2, Body3
<1> QED
  BY <1>1, FailDone DEF CallFails

\* The last check: the caller is told of success, and what it relies on is settled.
LEMMA AcceptStep ==
  ASSUME PublisherInv, NEW p \in Publishers, Accept(p)
  PROVE  PublisherInv'
<1>1. /\ me[p].pc = "accept" /\ me[p].pc \in Body3 /\ Still
      /\ HolderSteps(p) /\ synced' \subseteq Inodes
  BY Holds, SyncedAre DEF Accept, Still, disk, Held, Body3, NoFault
<1>2. CASE ~Undisturbed(p)
  BY <1>1, <1>2, FailDone DEF Accept
<1>3. CASE Undisturbed(p)
  <2>1. TypeOK /\ Locked /\ Apart /\ Numbered /\ Kept /\ Own(p)
    BY DEF PublisherInv
  <2>2. me[p] \in CallRecords /\ me \in [Publishers -> CallRecords]
    BY <2>1, TypesAre
  <2>3. /\ me' = [me EXCEPT ![p] = [me[p] EXCEPT !.pc = "release", !.outcome = "ok"]]
        /\ kept' = kept \cup {p}
    BY <1>3, <2>2 DEF Accept, CallRecords
  <2>4. [me[p] EXCEPT !.pc = "release", !.outcome = "ok"] \in CallRecords
    BY <2>2 DEF CallRecords, CallSteps
  <2>5. /\ Only(p) /\ me'[p].pc = "release" /\ me'[p].outcome = "ok"
        /\ me'[p].dirty = me[p].dirty /\ me'[p].base = me[p].base
    BY <2>2, <2>3, <2>4 DEF Only, CallRecords
  <2>6. AloneAtIt(p) /\ Frame(p)
    BY <1>1, <2>1, <2>5, HolderIsAlone, StillFrame DEF HolderSteps
  <2>7. Course(p)'
    BY <2>5 DEF Course, Body1, Body2, Body3, Cleaning
  <2>8. Located(p)'
    <3>1. ~me[p].dirty
      BY <1>1, <2>1 DEF Own, Course
    <3>2. Where(p)' = {Destination} /\ OnDisk(p)' = {Destination}
      BY <2>5, <3>1 DEF Where, OnDisk, Body3, Cleaning
    <3>3. Where(p) \subseteq {Destination} /\ OnDisk(p) \subseteq {Destination}
      BY <1>1, <3>1 DEF Where, OnDisk, Body3, Cleaning
    <3> QED
      BY <1>1, <2>1, <3>2, <3>3 DEF Own, Located, Still
  <2>9. Clear(p)' /\ Ready(p)'
    BY <2>5 DEF Clear, Ready, Body1, Body2, Body3, Rivals, Cleaning, Checked
  <2>10. /\ files[Destination] = me[p].base.inode /\ files[Destination] # 0
         /\ files[Destination] \in synced /\ Exact(p)
         /\ \A n \in Names : durable[n] = files[Destination] <=> n = Destination
    <3>1. At(Destination) = me[p].base
      BY <1>3 DEF Undisturbed
    <3>2. At(Destination).inode = files[Destination]
          /\ (files[Destination] # 0 => At(Destination).content = content[files[Destination]])
      BY DEF At
    <3> QED
      BY <1>1, <2>1, <3>1, <3>2 DEF Own, Ready, Checked, Exact
  <2>11. Apart'
    BY <1>1, <2>1 DEF Apart, Still, Over, Body3
  <2>12. Numbered'
    BY <1>1, <2>1, <2>5 DEF Numbered, Still, Only
  <2>13. Settled'
    <3>1. \A n \in Names : files[n] = files[Destination] => n = Destination
      BY <1>1, <2>1, <2>10, NamesAre DEF Apart, Over
    <3> QED
      BY <1>1, <2>10, <3>1 DEF Settled, Still
  <2>14. Kept'
    <3>1. \A q \in kept' : Exact(q)'
      BY <1>1, <2>1, <2>3, <2>10 DEF Kept, Exact, Still
    <3>2. \A q \in Publishers : me'[q].pc \notin Held \ {"release"}
      BY <2>5, <2>6 DEF AloneAtIt, Only
    <3> QED
      BY <2>13, <3>1, <3>2 DEF Kept, Held, Cleaning
  <2>15. TypeOK'
    BY <1>1, <2>1, <2>3, <2>5, TypeNow DEF TypeOK, HolderSteps, Still, Only
  <2> QED
    BY <1>1, <2>6, <2>7, <2>8, <2>9, <2>11, <2>12, <2>14, <2>15, StepDone DEF Own, HolderSteps
<1> QED
  BY <1>2, <1>3

\* What is left of a call that ended.
LEMMA EndedIs ==
  ASSUME NEW r \in CallRecords, NEW step \in {"end", "dead"}
  PROVE  /\ Ended(r, step) \in CallRecords /\ Ended(r, step).pc = step
         /\ Ended(r, step).outcome = r.outcome /\ Ended(r, step).dirty = r.dirty
         /\ Ended(r, step).base.inode = 0
<1>1. Call \in CallRecords /\ Call.base.inode = 0
  BY TargetsAre DEF Call, NoFile, CallRecords, CallSteps
<1>2. Ended(r, step) = [Call EXCEPT !.pc = step, !.outcome = r.outcome, !.dirty = r.dirty]
  BY DEF Ended
<1> QED
  BY <1>1, <1>2 DEF CallRecords, CallSteps

LEMMA ReleaseStep ==
  ASSUME PublisherInv, NEW p \in Publishers, Release(p)
  PROVE  PublisherInv'
<1>1. TypeOK /\ Locked /\ Apart /\ Numbered /\ Kept /\ Own(p)
  BY DEF PublisherInv
<1>2. me[p] \in CallRecords /\ me \in [Publishers -> CallRecords]
  BY <1>1, TypesAre
<1>3. /\ me[p].pc = "release" /\ me[p].pc \in Held /\ lock = p /\ lock' = 0
      /\ Still /\ kept' = kept /\ moved' = moved /\ synced' = synced
      /\ faults' \in 0..MaxFaults
  BY <1>1, FaultCounts DEF Release, Still, disk, Held, Locked
<1>4. PICK r \in CallRecords :
        /\ me' = [me EXCEPT ![p] = Ended(r, "end")]
        /\ r.dirty = me[p].dirty /\ (r.outcome = "error" <=> me[p].outcome = "error")
  <2>1. CASE me' = [me EXCEPT ![p] = Ended(@, "end")]
    BY <1>2, <2>1
  <2>2. CASE me' = [me EXCEPT ![p] = Ended(Raised(@), "end")]
    <3>1. /\ Raised(me[p]) \in CallRecords /\ Raised(me[p]).dirty = me[p].dirty
          /\ (Raised(me[p]).outcome = "error" <=> me[p].outcome = "error")
      BY <1>2 DEF CallRecords, Raised
    <3>2. me' = [me EXCEPT ![p] = Ended(Raised(me[p]), "end")]
      BY <1>2, <2>2
    <3> QED
      BY <3>1, <3>2
  <2> QED
    BY <2>1, <2>2 DEF Release
<1>5. me'[p] = Ended(r, "end")
  BY <1>2, <1>4
<1>6. /\ Only(p) /\ me'[p].pc = "end" /\ me'[p].dirty = me[p].dirty
      /\ (me'[p].outcome = "error" <=> me[p].outcome = "error")
      /\ me'[p].base.inode = 0
  BY <1>2, <1>4, <1>5, EndedIs DEF Only
<1>7. AloneAtIt(p) /\ Frame(p)
  BY <1>1, <1>3, <1>6, HolderIsAlone, StillFrame
<1>8. Course(p)'
  BY <1>6 DEF Course, Body1, Body2, Body3, Cleaning
<1>9. Located(p)'
  <2>1. Where(p)' = Where(p) /\ OnDisk(p)' = OnDisk(p)
    BY <1>3, <1>6 DEF Where, OnDisk, Body3, Cleaning, Mine
  <2> QED
    BY <1>1, <1>3, <2>1 DEF Own, Located, Still
<1>10. Clear(p)' /\ Ready(p)'
  BY <1>6 DEF Clear, Ready, Body1, Body2, Body3, Rivals, Cleaning, Checked
<1>11. Apart'
  BY <1>1, <1>3 DEF Apart, Still, Over
<1>12. Numbered'
  <2>1. 0 <= N + foreign
    BY <1>1, CountersAre
  <2> QED
    BY <1>1, <1>3, <1>6, <2>1 DEF Numbered, Still, Only
<1>13. Kept'
  <2>1. \A q \in Publishers : me'[q].pc \notin Held \ {"release"}
    BY <1>6, <1>7 DEF AloneAtIt, Only, Held, Body1, Body2, Body3, Cleaning
  <2>2. (\A q \in kept : Exact(q)') /\ (kept # {} => Settled')
    BY <1>1, <1>3 DEF Kept, Exact, Settled, Still
  <2> QED
    BY <1>3, <2>1, <2>2 DEF Kept, Held, Cleaning
<1>14. TypeOK'
  BY <1>1, <1>3, <1>6, TypeNow DEF TypeOK, Still, Only
<1>15. me'[p].pc \notin Held
  BY <1>6 DEF Held, Body1, Body2, Body3, Cleaning
<1> QED
  BY <1>7, <1>8, <1>9, <1>10, <1>11, <1>12, <1>13, <1>14, <1>15, StepDone DEF Own

-----------------------------------------------------------------------------
(***************************************************************************)
(* Crashes and losses of power.                                            *)
(***************************************************************************)
LEMMA DieIs ==
  ASSUME NEW r \in CallRecords
  PROVE  /\ Die(r) \in CallRecords
         /\ r.pc \in Over => Die(r) = r
         /\ r.pc \notin Over => Die(r).pc = "dead" /\ Die(r).base.inode = 0
BY EndedIs DEF Die

LEMMA CrashStep ==
  ASSUME PublisherInv, NEW p \in Publishers, Crash(p)
  PROVE  PublisherInv'
<1>1. TypeOK /\ Locked /\ Apart /\ Numbered /\ Kept /\ \A q \in Publishers : Own(q)
  BY DEF PublisherInv
<1>2. me[p] \in CallRecords /\ me \in [Publishers -> CallRecords]
  BY <1>1, TypesAre
<1>3. /\ me[p].pc \notin Over /\ me' = [me EXCEPT ![p] = Die(me[p])]
      /\ lock' = (IF lock = p THEN 0 ELSE lock)
      /\ UNCHANGED <<data, files, durable, content, synced, moved, kept, foreign>>
      /\ faults' \in 0..MaxFaults
  BY <1>1, FaultCounts DEF Crash, disk
<1>4. me'[p] = Die(me[p])
  BY <1>2, <1>3
<1>5. Only(p) /\ me'[p].pc = "dead" /\ me'[p].base.inode = 0
  BY <1>2, <1>3, <1>4, DieIs DEF Only
<1>6. me'[p].pc \notin Held
  BY <1>5 DEF Held, Body1, Body2, Body3, Cleaning
<1>7. ASSUME NEW q \in Publishers \ {p}
      PROVE  Own(q)'
  <2>1. me'[q] = me[q]
    BY <1>5 DEF Only
  <2>2. Course(q)' = Course(q)
    BY <2>1 DEF Course
  <2>3. Where(q)' = Where(q) /\ OnDisk(q)' = OnDisk(q)
    BY <2>1 DEF Where, OnDisk, MyQuarantine, Mine
  <2>4. Located(q)' = Located(q)
    BY <1>3, <2>3 DEF Located
  <2>5. Clear(q)' = Clear(q)
    BY <1>3, <2>1 DEF Clear, MyQuarantine
  <2>6. Ready(q)' = Ready(q)
    BY <1>3, <2>1 DEF Ready, Rivals, At
  <2> QED
    BY <1>1, <2>2, <2>4, <2>5, <2>6 DEF Own
<1>8. Own(p)'
  <2>1. Where(p)' = Mine(p) /\ OnDisk(p)' = Mine(p)
    BY <1>5 DEF Where, OnDisk, Mine
  <2>2. Located(p)'
    BY <1>1, <1>3, <2>1, WhereIsMine DEF Located, Own
  <2>3. Course(p)' /\ Clear(p)' /\ Ready(p)'
    BY <1>5 DEF Course, Clear, Ready, Body1, Body2, Body3, Rivals, Cleaning, Checked
  <2> QED
    BY <2>2, <2>3 DEF Own
<1>9. Locked'
  BY <1>1, <1>3, <1>5, <1>6 DEF Locked, Only
<1>10. Apart'
  <2>1. me[p].pc \notin Over
    BY <1>3
  <2> QED
    BY <1>1, <1>3, <2>1 DEF Apart
<1>11. Numbered'
  <2>1. 0 <= N + foreign
    BY <1>1, CountersAre
  <2> QED
    BY <1>1, <1>3, <1>5, <2>1 DEF Numbered, Only
<1>12. Kept'
  <2>1. (\A q \in kept : Exact(q)') /\ (kept # {} => Settled')
    BY <1>1, <1>3 DEF Kept, Exact, Settled
  <2>2. \A q \in Publishers : me'[q].pc \in Held => me'[q] = me[q]
    BY <1>5, <1>6 DEF Only
  <2>3. kept # {} =>
          \A q \in Publishers : me'[q].pc \in Held \ {"release"} => files'[Destination] # q
    BY <1>1, <1>3, <2>2 DEF Kept
  <2>4. \A q \in Publishers :
          me'[q].pc = "quarantine" /\ me'[q].target = "destination" =>
            kept = {} /\ files'[Destination] \in {0, q} \cup Foreigners
    BY <1>1, <1>3, <2>2 DEF Kept, Held, Cleaning
  <2> QED
    BY <1>3, <2>1, <2>3, <2>4 DEF Kept
<1>13. TypeOK'
  BY <1>1, <1>3, <1>5, TypeNow DEF TypeOK, Only
<1> QED
  BY <1>7, <1>8, <1>9, <1>10, <1>11, <1>12, <1>13 DEF PublisherInv

LEMMA PowerLossStep ==
  ASSUME PublisherInv, PowerLoss
  PROVE  PublisherInv'
<1>1. TypeOK /\ Numbered /\ Kept /\ \A q \in Publishers : Own(q)
  BY DEF PublisherInv
<1>2. me \in [Publishers -> CallRecords] /\ \A p \in Publishers : me[p] \in CallRecords
  BY <1>1, TypesAre
<1>3. /\ durable' = files'
      /\ files' \in [Names -> Inodes \cup {0}]
      /\ \A n \in Names : files'[n] = files[n] \/ files'[n] = durable[n]
  BY <1>1, TypesAre DEF PowerLoss
<1>4. /\ content' \in [Inodes -> Contents \cup {"none", "partial", "other"}]
      /\ \A i \in synced : content'[i] = content[i]
  BY <1>1, TypesAre DEF PowerLoss, TypeOK
<1>5. /\ synced' = Inodes /\ lock' = 0 /\ faults' \in 0..MaxFaults
      /\ UNCHANGED <<data, moved, kept, foreign>>
      /\ me' = [p \in Publishers |-> Die(me[p])]
  BY <1>1, FaultCounts DEF PowerLoss
<1>6. /\ me' \in [Publishers -> CallRecords]
      /\ \A p \in Publishers :
           \/ me[p].pc \in Over /\ me'[p] = me[p]
           \/ me[p].pc \notin Over /\ me'[p].pc = "dead" /\ me'[p].base.inode = 0
  BY <1>2, <1>5, DieIs
<1>7. \A p \in Publishers : me'[p].pc \in Over
  BY <1>6 DEF Over
<1>8. ASSUME NEW p \in Publishers
      PROVE  Own(p)'
  <2>1. Course(p)' /\ Clear(p)' /\ Ready(p)'
    BY <1>7 DEF Course, Clear, Ready, Body1, Body2, Body3, Rivals, Cleaning, Checked, Over
  <2>2. Where(p)' = OnDisk(p)' /\ Where(p) \subseteq Where(p)' /\ OnDisk(p) \subseteq Where(p)'
    <3>1. CASE me'[p].dirty \/ me'[p].pc = "dead"
      <4>1. Where(p)' = Mine(p) /\ OnDisk(p)' = Mine(p)
        BY <3>1 DEF Where, OnDisk, Mine
      <4> QED
        BY <1>1, <4>1, WhereIsMine
    <3>2. CASE ~(me'[p].dirty \/ me'[p].pc = "dead")
      <4>1. me'[p] = me[p] /\ me[p].pc = "end"
        BY <1>6, <3>2 DEF Over
      <4> QED
        BY <3>2, <4>1 DEF Where, OnDisk, Body3, Cleaning
    <3> QED
      BY <3>1, <3>2
  <2>3. Located(p)'
    <3>1. Located(p)
      BY <1>1 DEF Own
    <3> QED
      BY <1>3, <2>2, <3>1 DEF Located
  <2> QED
    BY <2>1, <2>3 DEF Own
<1>9. Locked' /\ Apart'
  BY <1>7 DEF Locked, Apart, Over, Held, Body1, Body2, Body3, Cleaning
<1>10. Numbered'
  <2>1. 0 <= N + foreign
    BY <1>1, CountersAre
  <2>2. \A n \in Names : files'[n] <= N + foreign
    BY <1>1, <1>3 DEF Numbered
  <2>3. \A p \in Publishers : me'[p].base.inode <= N + foreign
    BY <1>1, <1>6, <2>1 DEF Numbered
  <2> QED
    BY <1>3, <1>5, <2>2, <2>3 DEF Numbered
<1>11. Kept'
  <2>1. \A q \in Publishers : me'[q].pc \notin Held
    BY <1>7 DEF Over, Held, Body1, Body2, Body3, Cleaning
  <2>2. ASSUME kept # {}
        PROVE  Settled' /\ \A q \in kept : Exact(q)'
    <3>1. Settled /\ \A q \in kept : Exact(q)
      BY <1>1, <2>2 DEF Kept
    <3>2. durable[Destination] = files[Destination] /\ files'[Destination] = files[Destination]
      BY <1>3, <3>1, NamesAre DEF Settled
    <3>3. \A n \in Names : files'[n] = files[Destination] => n = Destination
      BY <1>3, <3>1 DEF Settled
    <3>4. files[Destination] \in Inodes
      BY <1>1, <3>1, TypesAre, NamesAre DEF Settled
    <3>5. Settled'
      BY <1>3, <1>5, <3>1, <3>2, <3>3, <3>4 DEF Settled
    <3>6. \A q \in kept : Exact(q)'
      BY <1>4, <1>5, <3>1, <3>2 DEF Exact, Settled
    <3> QED
      BY <3>5, <3>6
  <2> QED
    BY <1>5, <2>1, <2>2 DEF Kept, Held, Cleaning
<1>12. TypeOK'
  BY <1>1, <1>3, <1>4, <1>5, <1>6, TypeNow DEF TypeOK
<1> QED
  BY <1>8, <1>9, <1>10, <1>11, <1>12 DEF PublisherInv

-----------------------------------------------------------------------------
(***************************************************************************)
(* Somebody else changes the directory.                                    *)
(***************************************************************************)
Newcomer == N + foreign + 1

\* What all foreign changes have in common.
Meddles ==
  /\ ForeignChange
  /\ files' \in [Names -> Inodes \cup {0}]
  /\ content' \in [Inodes -> Contents \cup {"none", "partial", "other"}]
  /\ synced' \subseteq Inodes /\ moved' \in BOOLEAN
  /\ \A n \in Names :
       /\ files'[n] \in {files[n], 0, Newcomer}
       /\ n # Destination /\ files[n] = 0 => files'[n] = 0
  /\ \A n, m \in Names : files'[n] = Newcomer /\ files'[m] = Newcomer => n = m

\* A destination that looks as before is as before.
SeenAsBefore ==
  At(Destination)'.inode # Newcomer /\ At(Destination)'.content \in Contents =>
    /\ At(Destination)' = At(Destination)
    /\ At(Destination).inode \in synced => At(Destination).inode \in synced'

KeptOrTouched ==
  \/ kept' = {}
  \/ /\ kept' = kept /\ files'[Destination] = files[Destination]
     /\ kept # {} =>
          /\ content'[files[Destination]] = content[files[Destination]]
          /\ files[Destination] \in synced'

LEMMA ForeignDone ==
  ASSUME PublisherInv, Meddles, SeenAsBefore, KeptOrTouched
  PROVE  PublisherInv'
<1>1. TypeOK /\ Locked /\ Apart /\ Numbered /\ Kept /\ \A q \in Publishers : Own(q)
  BY DEF PublisherInv
<1>2. /\ foreign' = foreign + 1 /\ foreign' <= MaxForeign
      /\ UNCHANGED <<data, durable, lock, me, faults>>
  <2>1. foreign < MaxForeign /\ foreign \in Nat /\ MaxForeign \in Nat
    BY <1>1, CountersAre DEF Meddles, ForeignChange
  <2>2. foreign' = foreign + 1 /\ UNCHANGED <<data, durable, lock, me, faults>>
    BY DEF Meddles, ForeignChange
  <2> QED
    BY <2>1, <2>2
<1>3. Newcomer \in Foreigners /\ Newcomer \in Inodes /\ Newcomer = N + foreign'
  <2>1. N \in Nat /\ foreign \in Nat /\ MaxForeign \in Nat
    BY <1>1, CountersAre
  <2> QED
    BY <1>2, <2>1 DEF Newcomer, Foreigners, Inodes
<1>4. \A n \in Names : files[n] # Newcomer /\ durable[n] # Newcomer
  <2>1. \A n \in Names : files[n] <= N + foreign /\ durable[n] <= N + foreign
    BY <1>1 DEF Numbered
  <2>3. ~(Newcomer <= N + foreign)
    BY <1>1, CountersAre DEF Newcomer
  <2> QED
    BY <2>1, <2>3
<1>5. \A p \in Publishers : p # Newcomer /\ me[p].base.inode # Newcomer /\ p # 0
  <2>1. \A p \in Publishers : me[p].base.inode <= N + foreign
    BY <1>1 DEF Numbered
  <2>2. ~(Newcomer <= N + foreign)
    BY <1>1, CountersAre DEF Newcomer
  <2> QED
    BY <1>3, <2>1, <2>2, Numbers
<1>6. ASSUME NEW p \in Publishers
      PROVE  Own(p)'
  <2>1. Course(p) /\ Located(p) /\ Clear(p) /\ Ready(p)
    BY <1>1 DEF Own
  <2>2. Course(p)'
    BY <1>2, <2>1 DEF Course
  <2>3. Where(p)' = Where(p) /\ OnDisk(p)' = OnDisk(p)
    BY <1>2 DEF Where, OnDisk, MyQuarantine
  <2>4. \A n \in Names : files'[n] = p => files[n] = p
    BY <1>5 DEF Meddles
  <2>5. Located(p)'
    BY <1>2, <2>1, <2>3, <2>4 DEF Located
  <2>6. \A n \in {Staging(p)} \cup {Quarantine(p, t) : t \in Targets} :
          n \in Names /\ (files[n] = 0 => files'[n] = 0)
    <3>1. \A n \in {Staging(p)} \cup {Quarantine(p, t) : t \in Targets} :
            n \in Names /\ n # Destination
      <4>1. Staging(p) # Destination /\ \A t \in Targets : Quarantine(p, t) # Destination
        BY NamesDiffer, TargetsAre
      <4> QED
        BY <4>1, NamesAre
    <3> QED
      BY <3>1 DEF Meddles
  <2>7. Clear(p)'
    <3>1. me[p].target \in Targets
      BY <1>1, TypesAre
    <3>2. MyQuarantine(p)' = MyQuarantine(p)
          /\ MyQuarantine(p) \in {Quarantine(p, t) : t \in Targets}
      BY <1>2, <3>1 DEF MyQuarantine
    <3>3. Staging(p) \in Names /\ (files'[Staging(p)] = p => files[Staging(p)] = p)
      BY <2>4, NamesAre
    <3>4. /\ files[Staging(p)] = 0 => files'[Staging(p)] = 0
          /\ \A t \in Targets : files[Quarantine(p, t)] = 0 => files'[Quarantine(p, t)] = 0
          /\ files[MyQuarantine(p)] = 0 => files'[MyQuarantine(p)] = 0
      BY <2>6, <3>2
    <3>5. "destination" \in Targets /\ "staging" \in Targets
      BY TargetsAre
    <3> QED
      BY <1>2, <2>1, <3>2, <3>3, <3>4, <3>5 DEF Clear
  <2>8. Ready(p)'
    <3>1. Rivals(p)' = Rivals(p)
      BY <1>2 DEF Rivals
    <3>2. me[p].pc \in Body3 \/ Rivals(p) =>
            me[p].base.inode # 0 /\ me[p].base.content = data[p] /\ data[p] \in Contents
      BY <1>1, <2>1, TypesAre DEF Ready
    <3>3. me[p].pc \in Checked => me[p].pc \in Body3
      BY DEF Checked, Body3
    <3>4. ASSUME At(Destination)' = me[p].base, me[p].pc \in Checked \/ Rivals(p)
          PROVE  /\ At(Destination) = me[p].base
                 /\ me[p].base.inode \in synced => me[p].base.inode \in synced'
      <4>1. At(Destination)'.inode # Newcomer /\ At(Destination)'.content \in Contents
        BY <1>5, <3>2, <3>3, <3>4
      <4> QED
        BY <3>4, <4>1 DEF SeenAsBefore
    <3>5. me[p].pc = "accept" => me[p].pc \in Checked
      BY DEF Checked
    <3> QED
      BY <1>2, <2>1, <3>1, <3>4, <3>5 DEF Ready
  <2> QED
    BY <2>2, <2>5, <2>7, <2>8 DEF Own
<1>7. Locked'
  BY <1>1, <1>2 DEF Locked
<1>8. Apart'
  <2> SUFFICES ASSUME \E p \in Publishers : me'[p].pc \notin Over,
                      NEW n \in Names, NEW m \in Names, files'[n] # 0, files'[n] = files'[m]
               PROVE  n = m
    BY DEF Apart
  <2>1. \A i, j \in Names : files[i] # 0 /\ files[i] = files[j] => i = j
    BY <1>1, <1>2 DEF Apart
  <2> QED
    BY <1>4, <2>1 DEF Meddles
<1>9. Numbered'
  <2>1. N + foreign \in Nat /\ N + foreign' = N + foreign + 1
    BY <1>1, <1>2, CountersAre
  <2>2. \A n \in Names : files[n] <= N + foreign /\ durable[n] <= N + foreign
                         /\ files[n] \in Nat /\ durable[n] \in Nat
    BY <1>1, TypesAre, Numbers DEF Numbered
  <2>3. \A n \in Names : files'[n] <= N + foreign' /\ durable'[n] <= N + foreign'
    BY <1>2, <2>1, <2>2 DEF Meddles, Newcomer
  <2>4. \A p \in Publishers : me[p].base.inode \in Nat /\ me[p].base.inode <= N + foreign
    BY <1>1, TypesAre, Numbers DEF Numbered, CallRecords
  <2>5. \A p \in Publishers : me'[p].base.inode <= N + foreign'
    BY <1>2, <2>1, <2>4
  <2> QED
    BY <2>3, <2>5 DEF Numbered
<1>10. Kept'
  <2>1. files'[Destination] \in {files[Destination], 0, Newcomer}
    BY NamesAre DEF Meddles
  <2>2. \A p \in Publishers :
          me'[p].pc = "quarantine" /\ me'[p].target = "destination" =>
            kept' = {} /\ files'[Destination] \in {0, p} \cup Foreigners
    BY <1>1, <1>2, <1>3, <2>1 DEF Kept, KeptOrTouched
  <2>3. ASSUME kept' # {}
        PROVE  /\ Settled' /\ \A p \in kept' : Exact(p)'
               /\ \A p \in Publishers :
                    me'[p].pc \in Held \ {"release"} => files'[Destination] # p
    <3>1. /\ kept' = kept /\ kept # {} /\ files'[Destination] = files[Destination]
          /\ content'[files[Destination]] = content[files[Destination]]
          /\ files[Destination] \in synced'
      BY <2>3 DEF KeptOrTouched
    <3>2. Settled /\ (\A p \in kept : Exact(p))
          /\ \A p \in Publishers :
               me[p].pc \in Held \ {"release"} => files[Destination] # p
      BY <1>1, <3>1 DEF Kept
    <3>3. \A n \in Names : files'[n] = files[Destination] => n = Destination
      BY <1>4, <3>2, NamesAre DEF Meddles, Settled
    <3>4. Settled'
      BY <1>2, <3>1, <3>2, <3>3 DEF Settled
    <3>5. \A p \in kept' : Exact(p)'
      BY <1>2, <3>1, <3>2 DEF Exact
    <3> QED
      BY <1>2, <3>1, <3>2, <3>4, <3>5
  <2> QED
    BY <2>2, <2>3 DEF Kept
<1>11. TypeOK'
  <2>1. foreign' \in 0..MaxForeign
    <3>1. foreign \in Nat /\ MaxForeign \in Nat
      BY <1>1, CountersAre
    <3> QED
      BY <1>2, <3>1
  <2>2. kept' \subseteq Publishers
    BY <1>1 DEF TypeOK, KeptOrTouched
  <2>3. me' \in [Publishers -> CallRecords]
    BY <1>1, <1>2, TypesAre
  <2> QED
    BY <1>1, <1>2, <2>1, <2>2, <2>3, TypeNow DEF TypeOK, Meddles
<1> QED
  BY <1>6, <1>7, <1>8, <1>9, <1>10, <1>11 DEF PublisherInv

LEMMA NewcomerIs ==
  ASSUME PublisherInv, ForeignChange
  PROVE  /\ Newcomer = N + foreign' /\ Newcomer \in Inodes /\ Newcomer # 0
         /\ \A n \in Names : files[n] # Newcomer
<1>1. TypeOK /\ Numbered
  BY DEF PublisherInv
<1>2. /\ N \in Nat /\ foreign \in Nat /\ MaxForeign \in Nat /\ foreign < MaxForeign
      /\ foreign' = foreign + 1
  BY <1>1, CountersAre DEF ForeignChange
<1>3. ~(Newcomer <= N + foreign)
  BY <1>2 DEF Newcomer
<1>4. Newcomer \in Inodes /\ Newcomer = N + foreign' /\ Newcomer # 0
  BY <1>2 DEF Newcomer, Inodes, Foreigners
<1> QED
  BY <1>1, <1>3, <1>4 DEF Numbered

LEMMA MoveParentStep ==
  ASSUME PublisherInv, MoveParent
  PROVE  PublisherInv'
<1>1. TypeOK /\ Kept
  BY DEF PublisherInv
<1>2. ForeignChange /\ UNCHANGED <<files, content, synced, kept>> /\ moved' = TRUE
  BY DEF MoveParent
<1>3. Meddles
  BY <1>1, <1>2, NewcomerIs DEF Meddles, TypeOK
<1>4. SeenAsBefore
  BY <1>2 DEF SeenAsBefore, At
<1>5. KeptOrTouched
  BY <1>1, <1>2 DEF KeptOrTouched, Kept, Settled
<1> QED
  BY <1>3, <1>4, <1>5, ForeignDone

LEMMA PutStep ==
  ASSUME PublisherInv, NEW n \in PublicNames, Put(n)
  PROVE  PublisherInv'
<1>1. TypeOK /\ Kept
  BY DEF PublisherInv
<1>2. n \in Names /\ (n = Destination \/ files[n] # 0)
  BY NamesAre DEF PublicNames
<1>3. PICK c \in Contents \cup {"other"} : content' = [content EXCEPT ![N + foreign'] = c]
  BY DEF Put
<1>4. /\ ForeignChange /\ files' = [files EXCEPT ![n] = Newcomer]
      /\ synced' = synced \ {Newcomer} /\ Touched(n) /\ moved' = moved
      /\ content' = [content EXCEPT ![Newcomer] = c]
  BY <1>3, NewcomerIs DEF Put
<1>5. Newcomer \in Inodes /\ Newcomer # 0 /\ \A m \in Names : files[m] # Newcomer
  BY <1>4, NewcomerIs
<1>6. Meddles
  BY <1>1, <1>2, <1>4, <1>5 DEF Meddles, TypeOK
<1>7. files'[Destination] = IF n = Destination THEN Newcomer ELSE files[Destination]
  BY <1>1, <1>2, <1>4, NamesAre, TypesAre
<1>8. files[Destination] # 0 =>
        /\ content'[files[Destination]] = content[files[Destination]]
        /\ files[Destination] \in synced => files[Destination] \in synced'
  BY <1>1, <1>4, <1>5, NamesAre, TypesAre
<1>9. SeenAsBefore
  <2>1. At(Destination).inode = files[Destination] /\ At(Destination)'.inode = files'[Destination]
    BY DEF At
  <2>2. CASE n = Destination
    BY <1>7, <2>1, <2>2 DEF SeenAsBefore
  <2>3. CASE n # Destination
    <3>1. files'[Destination] = files[Destination]
      BY <1>7, <2>3
    <3>2. At(Destination)' = At(Destination)
      BY <1>8, <3>1 DEF At
    <3>3. files[Destination] = 0 => files[Destination] \notin synced
      BY <1>1, Numbers DEF TypeOK
    <3> QED
      BY <1>8, <2>1, <3>2, <3>3 DEF SeenAsBefore
  <2> QED
    BY <2>2, <2>3
<1>10. KeptOrTouched
  BY <1>1, <1>4, <1>7, <1>8 DEF KeptOrTouched, Touched, Kept, Settled
<1> QED
  BY <1>6, <1>9, <1>10, ForeignDone

LEMMA RemoveStep ==
  ASSUME PublisherInv, NEW n \in PublicNames, Remove(n)
  PROVE  PublisherInv'
<1>1. TypeOK /\ Kept
  BY DEF PublisherInv
<1>2. n \in Names
  BY NamesAre DEF PublicNames
<1>3. /\ ForeignChange /\ files' = [files EXCEPT ![n] = 0]
      /\ Touched(n) /\ UNCHANGED <<content, synced, moved>>
  BY DEF Remove
<1>4. \A m \in Names : files[m] # Newcomer
  BY <1>3, NewcomerIs
<1>5. Newcomer # 0
  BY <1>3, NewcomerIs
<1>6. Meddles
  BY <1>1, <1>2, <1>3, <1>4, <1>5 DEF Meddles, TypeOK
<1>7. files'[Destination] = IF n = Destination THEN 0 ELSE files[Destination]
  BY <1>1, <1>2, <1>3, NamesAre, TypesAre
<1>8. SeenAsBefore
  <2>1. n = Destination => At(Destination)'.content = "none"
    BY <1>7 DEF At
  <2>2. n # Destination => At(Destination)' = At(Destination)
    BY <1>3, <1>7 DEF At
  <2> QED
    BY <1>3, <2>1, <2>2, Numbers DEF SeenAsBefore
<1>9. KeptOrTouched
  BY <1>1, <1>3, <1>7 DEF KeptOrTouched, Touched, Kept, Settled
<1> QED
  BY <1>6, <1>8, <1>9, ForeignDone

LEMMA TamperStep ==
  ASSUME PublisherInv, NEW n \in PublicNames, Tamper(n)
  PROVE  PublisherInv'
<1>1. TypeOK /\ Kept
  BY DEF PublisherInv
<1>2. n \in Names
  BY NamesAre DEF PublicNames
<1>3. /\ ForeignChange /\ files' = files /\ moved' = moved /\ files[n] # 0
      /\ content' = [content EXCEPT ![files[n]] = "other"]
      /\ synced' = synced \ {files[n]} /\ Touched(n)
  BY DEF Tamper
<1>4. \A m \in Names : files[m] # Newcomer
  BY <1>3, NewcomerIs
<1>5. Meddles
  BY <1>1, <1>3, <1>4 DEF Meddles, TypeOK
<1>6. SeenAsBefore
  <2>1. At(Destination)'.inode = files[Destination] /\ At(Destination).inode = files[Destination]
    BY <1>3 DEF At
  <2>2. CASE files[Destination] = files[n]
    <3>1. At(Destination)'.content = "other"
      BY <1>1, <1>2, <1>3, <2>2, TypesAre DEF At
    <3> QED
      BY <3>1, Numbers DEF SeenAsBefore
  <2>3. CASE files[Destination] # files[n]
    <3>1. files[Destination] # 0 => content'[files[Destination]] = content[files[Destination]]
      BY <1>1, <1>3, <2>3, TypesAre, NamesAre
    <3>2. At(Destination)' = At(Destination)
      BY <1>3, <3>1 DEF At
    <3> QED
      BY <1>3, <2>1, <2>3, <3>2 DEF SeenAsBefore
  <2> QED
    BY <2>2, <2>3
<1>7. KeptOrTouched
  <2>1. CASE n = Destination
    BY <1>3, <2>1 DEF KeptOrTouched, Touched
  <2>2. CASE n # Destination
    <3>1. kept' = kept
      BY <1>3, <2>2 DEF Touched
    <3>2. ASSUME kept # {}
          PROVE  /\ content'[files[Destination]] = content[files[Destination]]
                 /\ files[Destination] \in synced'
      <4>1. Settled
        BY <1>1, <3>2 DEF Kept
      <4>2. files[n] # files[Destination]
        BY <1>2, <2>2, <4>1 DEF Settled
      <4> QED
        BY <1>1, <1>3, <4>1, <4>2, TypesAre, NamesAre DEF Settled
    <3> QED
      BY <1>3, <3>1, <3>2 DEF KeptOrTouched
  <2> QED
    BY <2>1, <2>2
<1> QED
  BY <1>5, <1>6, <1>7, ForeignDone

-----------------------------------------------------------------------------
(***************************************************************************)
(* The holder of the lock changes the directory.                           *)
(***************************************************************************)
LEMMA ChangeKeeps ==
  ASSUME PublisherInv, NEW p \in Publishers, Only(p), AloneAtIt(p),
         me[p].pc \in Held \ {"release"}, UNCHANGED <<data, kept, foreign, synced>>,
         me'[p].pc # "quarantine",
         \A n \in Names : durable'[n] = durable[n] \/ durable'[n] = files[n],
         kept # {} =>
           /\ files'[Destination] = files[Destination]
           /\ content'[files[Destination]] = content[files[Destination]]
           /\ \A n \in Names : files'[n] = files[Destination] => n = Destination
  PROVE  Kept'
<1>1. Kept
  BY DEF PublisherInv
<1>2. ASSUME kept # {}
      PROVE  /\ Settled' /\ \A q \in kept : Exact(q)'
             /\ \A q \in Publishers :
                  me'[q].pc \in Held \ {"release"} => files'[Destination] # q
  <2>1. Settled /\ (\A q \in kept : Exact(q))
        /\ \A q \in Publishers : me[q].pc \in Held \ {"release"} => files[Destination] # q
    BY <1>1, <1>2 DEF Kept
  <2>2. Settled'
    BY <1>2, <2>1, NamesAre DEF Settled
  <2>3. \A q \in kept : Exact(q)'
    BY <1>2, <2>1 DEF Exact
  <2>4. \A q \in Publishers \ {p} : me'[q].pc \notin Held
    BY DEF Only, AloneAtIt
  <2> QED
    BY <1>2, <2>1, <2>2, <2>3, <2>4
<1>3. \A q \in Publishers : me'[q].pc # "quarantine"
  <2>1. "quarantine" \in Held
    BY DEF Held, Cleaning
  <2>2. \A q \in Publishers \ {p} : me'[q].pc \notin Held
    BY DEF Only, AloneAtIt
  <2> QED
    BY <2>1, <2>2
<1> QED
  BY <1>2, <1>3 DEF Kept

LEMMA OthersAreElsewhere ==
  ASSUME PublisherInv, NEW p \in Publishers, NEW q \in Publishers \ {p},
         NEW n \in Mine(p) \ {Destination}
  PROVE  files[n] # q /\ n \in Names
<1>1. Where(q) \subseteq Mine(q) /\ Located(q)
  BY WhereIsMine DEF PublisherInv, Own
<1>2. n \notin Mine(q)
  BY MineDiffer DEF Mine
<1> QED
  BY <1>1, <1>2, NamesAre DEF Located

LEMMA RenameDone ==
  ASSUME PublisherInv, NEW p \in Publishers, HolderSteps(p), Only(p), Own(p)',
         me[p].pc \in Held \ {"release"}, me'[p].pc # "quarantine",
         me'[p].base = me[p].base,
         UNCHANGED <<data, durable, content, synced, kept>>,
         NEW from \in Mine(p), NEW to \in Mine(p) \ {from}, Rename(from, to),
         files[from] # 0, files[to] = 0,
         from = Destination =>
           kept = {} /\ files[Destination] \in {0, p} \cup Foreigners
  PROVE  PublisherInv'
<1>1. TypeOK /\ Locked /\ Apart /\ Numbered /\ Kept
  BY DEF PublisherInv
<1>2. from \in Names /\ to \in Names /\ Destination \in Names
  BY NamesAre
<1>3. /\ files \in [Names -> Inodes \cup {0}]
      /\ files' = [files EXCEPT ![to] = files[from], ![from] = 0]
  BY <1>1, TypesAre DEF Rename
<1>4. /\ files' \in [Names -> Inodes \cup {0}]
      /\ files'[to] = files[from] /\ files'[from] = 0
      /\ \A n \in Names \ {from, to} : files'[n] = files[n]
  BY <1>2, <1>3
<1>5. AloneAtIt(p)
  BY <1>1, HolderIsAlone DEF HolderSteps
<1>6. me[p].pc \notin Over
  BY DEF Held, Body1, Body2, Body3, Cleaning, Over
<1>7. \A n, m \in Names : files[n] # 0 /\ files[n] = files[m] => n = m
  BY <1>1, <1>6 DEF Apart
<1>8. \A q \in Publishers \ {p} : files[from] # q
  <2>1. \A q \in Publishers \ {p} : q \notin {0, p} \cup Foreigners
    BY Numbers
  <2>2. CASE from = Destination
    BY <2>1, <2>2
  <2>3. CASE from # Destination
    BY <2>3, OthersAreElsewhere
  <2> QED
    BY <2>2, <2>3
<1>9. Frame(p)
  <2>1. \A q \in Publishers \ {p}, n \in Names : files'[n] = q => files[n] = q
    BY <1>2, <1>4, <1>8, Numbers
  <2> QED
    BY <1>4, <2>1 DEF Frame
<1>10. Apart'
  <2>1. \A n, m \in Names : files'[n] # 0 /\ files'[n] = files'[m] => n = m
    BY <1>2, <1>4, <1>7
  <2> QED
    BY <2>1 DEF Apart
<1>11. Numbered'
  <2>1. N + foreign \in Nat /\ \A n \in Names : files[n] <= N + foreign
    BY <1>1, CountersAre DEF Numbered
  <2>2. \A n \in Names : files'[n] <= N + foreign
    BY <1>2, <1>4, <2>1
  <2>3. \A q \in Publishers : me'[q].base = me[q].base
    BY DEF Only
  <2> QED
    BY <1>1, <2>2, <2>3 DEF Numbered, HolderSteps
<1>12. Kept'
  <2>1. ASSUME kept # {}
        PROVE  /\ files'[Destination] = files[Destination]
               /\ \A n \in Names : files'[n] = files[Destination] => n = Destination
    <3>1. /\ files[Destination] # 0
          /\ \A n \in Names : files[n] = files[Destination] => n = Destination
      BY <1>1, <2>1 DEF Kept, Settled
    <3>2. from # Destination /\ to # Destination
      BY <2>1, <3>1
    <3> QED
      BY <1>2, <1>4, <3>1, <3>2
  <2> QED
    BY <1>5, <2>1, ChangeKeeps DEF HolderSteps
<1>13. TypeOK'
  BY <1>1, <1>4, TypeNow DEF TypeOK, Only, HolderSteps
<1> QED
  BY <1>5, <1>9, <1>10, <1>11, <1>12, <1>13, StepDone DEF HolderSteps

LEMMA DropDone ==
  ASSUME PublisherInv, NEW p \in Publishers, HolderSteps(p), Only(p), Own(p)',
         me[p].pc \in Held \ {"release"}, me'[p].pc # "quarantine",
         me'[p].base = me[p].base,
         UNCHANGED <<data, durable, content, synced, kept>>,
         NEW gone \in Mine(p) \ {Destination}, files' = [files EXCEPT ![gone] = 0]
  PROVE  PublisherInv'
<1>1. TypeOK /\ Locked /\ Apart /\ Numbered /\ Kept
  BY DEF PublisherInv
<1>2. gone \in Names /\ Destination \in Names /\ files \in [Names -> Inodes \cup {0}]
  BY <1>1, NamesAre, TypesAre
<1>3. /\ files' \in [Names -> Inodes \cup {0}]
      /\ files'[gone] = 0 /\ \A n \in Names \ {gone} : files'[n] = files[n]
  BY <1>2
<1>4. AloneAtIt(p)
  BY <1>1, HolderIsAlone DEF HolderSteps
<1>5. me[p].pc \notin Over
  BY DEF Held, Body1, Body2, Body3, Cleaning, Over
<1>6. \A n, m \in Names : files[n] # 0 /\ files[n] = files[m] => n = m
  BY <1>1, <1>5 DEF Apart
<1>7. Frame(p)
  BY <1>3, Numbers DEF Frame
<1>8. Apart'
  BY <1>3, <1>6 DEF Apart
<1>9. Numbered'
  <2>1. N + foreign \in Nat /\ \A n \in Names : files[n] <= N + foreign
    BY <1>1, CountersAre DEF Numbered
  <2>2. \A n \in Names : files'[n] <= N + foreign
    BY <1>3, <2>1
  <2>3. \A q \in Publishers : me'[q].base = me[q].base
    BY DEF Only
  <2> QED
    BY <1>1, <2>2, <2>3 DEF Numbered, HolderSteps
<1>10. Kept'
  <2>1. ASSUME kept # {}
        PROVE  /\ files'[Destination] = files[Destination]
               /\ \A n \in Names : files'[n] = files[Destination] => n = Destination
    <3>1. /\ files[Destination] # 0
          /\ \A n \in Names : files[n] = files[Destination] => n = Destination
      BY <1>1, <2>1 DEF Kept, Settled
    <3> QED
      BY <1>2, <1>3, <3>1
  <2> QED
    BY <1>4, <2>1, ChangeKeeps DEF HolderSteps
<1>11. TypeOK'
  BY <1>1, <1>3, TypeNow DEF TypeOK, Only, HolderSteps
<1> QED
  BY <1>4, <1>7, <1>8, <1>9, <1>10, <1>11, StepDone DEF HolderSteps

LEMMA MovesDiffer ==
  ASSUME TypeOK, NEW p \in Publishers
  PROVE  /\ MyTarget(p) \in Mine(p) /\ MyQuarantine(p) \in Mine(p)
         /\ MyTarget(p) # MyQuarantine(p) /\ MyQuarantine(p) # Destination
         /\ MyTarget(p) = Destination <=> me[p].target = "destination"
         /\ MyTarget(p) = Staging(p) <=> me[p].target = "staging"
         /\ MyQuarantine(p) # Staging(p)
         /\ me[p].target = "destination" \/ me[p].target = "staging"
<1>1. me[p].target \in {"destination", "staging"} /\ me[p].target \in Targets
  BY TypesAre, TargetsAre
<1>2. MyTarget(p) = IF me[p].target = "destination" THEN Destination ELSE Staging(p)
  BY DEF MyTarget, TargetName
<1>3. MyQuarantine(p) # Destination /\ MyQuarantine(p) # Staging(p) /\ Destination # Staging(p)
  BY <1>1, NamesDiffer DEF MyQuarantine
<1>4. MyTarget(p) \in Mine(p) /\ MyQuarantine(p) \in Mine(p)
  BY TypesAre
<1> QED
  BY <1>1, <1>2, <1>3, <1>4

\* The file that is installed may be one that somebody else put there.
LEMMA InstallOwn ==
  ASSUME PublisherInv, NEW p \in Publishers, Only(p), me[p].pc = "install",
         UNCHANGED <<data, durable, content, synced>>,
         Rename(Staging(p), Destination), Free(Destination),
         \/ Walks(p, "installed")
         \/ IsFailed(me[p], me'[p])
  PROVE  Own(p)'
<1>1. Own(p) /\ TypeOK
  BY DEF PublisherInv
<1>2. Destination # Staging(p) /\ \A t \in Targets : /\ Quarantine(p, t) # Destination
                                                     /\ Quarantine(p, t) # Staging(p)
  BY NamesDiffer, TargetsAre
<1>3. /\ files'[Destination] = files[Staging(p)] /\ files'[Staging(p)] = 0
      /\ \A n \in Names \ {Destination, Staging(p)} : files'[n] = files[n]
  BY <1>1, <1>2, NamesAre, TypesAre DEF Rename
<1>4. me[p].owns /\ me[p].outcome = "none" /\ ~me[p].dirty
  BY <1>1 DEF Own, Course, Body2
<1>5. Where(p) = {Staging(p)} /\ OnDisk(p) = {}
  BY <1>4 DEF Where, OnDisk, Body3, Cleaning
<1>6. \A n \in Names : files'[n] = p => n = Destination
  BY <1>1, <1>3, <1>5, Numbers DEF Own, Located
<1>7. \A t \in Targets : files'[Quarantine(p, t)] = 0
  BY <1>1, <1>2, <1>3, NamesAre DEF Own, Clear, Body2
<1>8. CASE Walks(p, "installed")
  <2>1. /\ me'[p].pc = "installed" /\ me'[p].owns = me[p].owns /\ me'[p].dirty = me[p].dirty
        /\ me'[p].outcome = "none"
    BY <1>4, <1>8 DEF Walks, SameBut
  <2>2. Where(p)' = {Destination} /\ OnDisk(p)' = {}
    BY <1>4, <2>1 DEF Where, OnDisk, Body3, Cleaning
  <2>3. Located(p)'
    BY <1>1, <1>5, <1>6, <2>2 DEF Own, Located
  <2>4. Course(p)' /\ Clear(p)' /\ Ready(p)'
    BY <1>4, <1>7, <2>1
       DEF Course, Clear, Ready, Body1, Body2, Body3, Rivals, Cleaning, Checked
  <2> QED
    BY <2>3, <2>4 DEF Own
<1>9. CASE IsFailed(me[p], me'[p])
  <2>1. /\ me'[p].pc = "clean" /\ me'[p].target = "destination" /\ me'[p].outcome = "error"
        /\ me'[p].owns = me[p].owns /\ me'[p].dirty = me[p].dirty
    BY <1>4, <1>9 DEF IsFailed
  <2>2. Where(p)' = {Staging(p), Destination} /\ OnDisk(p)' = {Destination}
    BY <1>4, <2>1 DEF Where, OnDisk, Body3, Cleaning
  <2>3. Located(p)'
    BY <1>1, <1>5, <1>6, <2>2 DEF Own, Located
  <2>4. Course(p)' /\ Clear(p)' /\ Ready(p)'
    BY <1>4, <1>7, <2>1, TargetsAre
       DEF Course, Clear, Ready, Body1, Body2, Body3, Rivals, Cleaning, Checked
  <2> QED
    BY <2>3, <2>4 DEF Own
<1> QED
  BY <1>8, <1>9

LEMMA InstallStep ==
  ASSUME PublisherInv, NEW p \in Publishers, Install(p)
  PROVE  PublisherInv'
<1>1. TypeOK /\ Kept /\ Own(p)
  BY DEF PublisherInv
<1>2. /\ me[p].pc = "install" /\ me[p].pc \in Body2 /\ me[p].pc \in Held \ {"release"}
      /\ UNCHANGED <<data, durable, content, synced, lock, moved, kept, foreign>>
      /\ HolderSteps(p)
  BY Holds DEF Install, Held, Body2, NoFault, Fault
<1>3. CASE files[Staging(p)] # 0 /\ Free(Destination)
  <2>1. Rename(Staging(p), Destination) /\ (Become(p, "installed") \/ Fail(p))
    BY <1>3 DEF Install
  <2>2. /\ Only(p)
        /\ \/ Walks(p, "installed")
           \/ IsFailed(me[p], me'[p])
    BY <1>1, <2>1, BecomeWalks, FailedNow DEF Walks, CallSteps
  <2>3. Own(p)'
    BY <1>2, <1>3, <2>1, <2>2, InstallOwn
  <2>4. me'[p].pc # "quarantine" /\ me'[p].base = me[p].base
    BY <2>2 DEF Walks, SameBut, IsFailed
  <2>5. /\ Destination \in Mine(p) /\ Staging(p) \in Mine(p) /\ Destination # Staging(p)
        /\ files[Destination] = 0
    BY <1>3, NamesDiffer, TargetsAre DEF Mine, Free
  <2> QED
    BY <1>2, <1>3, <2>1, <2>2, <2>3, <2>4, <2>5, RenameDone
<1>4. CASE ~(files[Staging(p)] # 0 /\ Free(Destination))
  <2>1. Still /\ synced' \subseteq Inodes /\ (Become(p, "raced") \/ Fail(p))
    BY <1>2, <1>4, SyncedAre DEF Install, Still
  <2> QED
    BY <1>2, <2>1, WalkDone, FailDone DEF CallSteps
<1> QED
  BY <1>3, <1>4

LEMMA MoveOwn ==
  ASSUME PublisherInv, NEW p \in Publishers, me[p].pc = "quarantine", Walks(p, "judge"),
         UNCHANGED <<data, durable, content, synced>>,
         files[MyTarget(p)] # 0, Rename(MyTarget(p), MyQuarantine(p))
  PROVE  Own(p)'
<1>1. Own(p) /\ TypeOK
  BY DEF PublisherInv
<1>2. /\ me'[p].base = me[p].base /\ me'[p].owns = me[p].owns /\ me'[p].dirty = me[p].dirty
      /\ me'[p].outcome = me[p].outcome /\ me'[p].route = me[p].route
      /\ me'[p].pc = "judge" /\ me'[p].target = me[p].target
  BY DEF Walks, SameBut
<1>3. MyTarget(p) \in Names /\ MyQuarantine(p) \in Names /\ MyTarget(p) # MyQuarantine(p)
  BY <1>1, MovesDiffer, NamesAre
<1>4. /\ files'[MyQuarantine(p)] = files[MyTarget(p)] /\ files'[MyTarget(p)] = 0
      /\ \A n \in Names \ {MyQuarantine(p), MyTarget(p)} : files'[n] = files[n]
  BY <1>1, <1>3, TypesAre DEF Rename
<1>5. MyQuarantine(p)' = MyQuarantine(p)
  BY <1>2 DEF MyQuarantine
<1>6. Course(p)'
  BY <1>1, <1>2 DEF Own, Course, Body1, Body2, Body3, Cleaning
<1>7. Located(p)'
  <2>1. Located(p)
    BY <1>1 DEF Own
  <2>2. CASE me[p].dirty
    <3>1. Where(p)' = Mine(p) /\ OnDisk(p)' = Mine(p) /\ Where(p) = Mine(p) /\ OnDisk(p) = Mine(p)
      BY <1>2, <2>2 DEF Where, OnDisk, Mine
    <3>2. MyQuarantine(p) \in Mine(p)
      BY <1>1, MovesDiffer
    <3>3. ASSUME NEW n \in Names, files'[n] = p
          PROVE  n \in Mine(p)
      BY <1>4, <2>1, <3>1, <3>2, <3>3, Numbers DEF Located
    <3> QED
      BY <2>1, <3>1, <3>3 DEF Located
  <2>3. CASE ~me[p].dirty
    <3>1. OnDisk(p)' = OnDisk(p)
      BY <1>2 DEF OnDisk, Cleaning, Mine
    <3>2. Where(p) = {Staging(p)} \cup (IF me[p].target = "staging" THEN {} ELSE {Destination})
      BY <2>3 DEF Where, Body3
    <3>3. Where(p)' = {MyQuarantine(p)} \cup
                        (IF me[p].target = "staging" THEN {} ELSE {Staging(p)})
      BY <1>2, <1>5, <2>3 DEF Where, Body3
    <3>4. ASSUME NEW n \in Names, files'[n] = p
          PROVE  n \in Where(p)'
      <4>1. CASE n = MyQuarantine(p)
        BY <3>3, <4>1
      <4>2. CASE n # MyQuarantine(p)
        <5>1. n # MyTarget(p) /\ n \in Where(p)
          BY <1>4, <2>1, <3>4, <4>2, Numbers DEF Located
        <5> QED
          BY <1>1, <3>2, <3>3, <5>1, MovesDiffer
      <4> QED
        BY <4>1, <4>2
    <3> QED
      BY <2>1, <3>1, <3>4 DEF Located
  <2> QED
    BY <2>2, <2>3
<1>8. Clear(p)'
  <2>1. Clear(p) /\ Course(p)
    BY <1>1 DEF Own
  <2>2. "staging" \in Targets /\ "destination" \in Targets
    BY TargetsAre
  <2>3. me[p].outcome # "error" =>
          me[p].target = "staging" /\ files[Quarantine(p, "destination")] = 0
    BY <2>1 DEF Clear, Course, Cleaning
  <2>4. me[p].target = "staging" =>
          /\ MyQuarantine(p) = Quarantine(p, "staging") /\ MyTarget(p) = Staging(p)
          /\ files'[Staging(p)] = 0
          /\ files'[Quarantine(p, "destination")] = files[Quarantine(p, "destination")]
    <3>1. Quarantine(p, "destination") # Staging(p)
          /\ Quarantine(p, "destination") # Quarantine(p, "staging")
          /\ Quarantine(p, "destination") \in Names
      BY <2>2, NamesDiffer, NamesAre
    <3> QED
      BY <1>4, <3>1 DEF MyQuarantine, MyTarget, TargetName
  <2>5. me[p].target = "destination" =>
          /\ files'[Staging(p)] = files[Staging(p)]
          /\ files'[Quarantine(p, "staging")] = files[Quarantine(p, "staging")]
    <3>1. /\ Quarantine(p, "staging") # Destination /\ Staging(p) # Destination
          /\ Quarantine(p, "destination") # Quarantine(p, "staging")
          /\ Staging(p) # Quarantine(p, "destination")
          /\ Quarantine(p, "staging") \in Names /\ Staging(p) \in Names
      BY <2>2, NamesDiffer, NamesAre
    <3> QED
      BY <1>4, <3>1 DEF MyQuarantine, MyTarget, TargetName
  <2>6. files'[Quarantine(p, "staging")] # 0 => files'[Staging(p)] # p
    <3>1. p # 0 /\ (me[p].target = "staging" \/ me[p].target = "destination")
      BY <1>1, MovesDiffer, Numbers
    <3> QED
      BY <2>1, <2>4, <2>5, <3>1 DEF Clear, Cleaning
  <2> QED
    BY <1>2, <2>3, <2>4, <2>6 DEF Clear, Body1, Body2, Body3, Cleaning
<1>9. Ready(p)'
  <2>1. Rivals(p)' = Rivals(p)
    BY <1>2 DEF Rivals, Cleaning
  <2>2. Rivals(p) => At(Destination)' = At(Destination)
    <3>1. Rivals(p) => me[p].target = "staging"
      BY <1>1 DEF Own, Course, Rivals
    <3>2. me[p].target = "staging" => files'[Destination] = files[Destination]
      BY <1>1, <1>4, MovesDiffer, NamesAre
    <3> QED
      BY <3>1, <3>2 DEF At
  <2> QED
    BY <1>1, <1>2, <2>1, <2>2 DEF Own, Ready, Body3, Checked
<1> QED
  BY <1>6, <1>7, <1>8, <1>9 DEF Own

LEMMA MoveToQuarantineStep ==
  ASSUME PublisherInv, NEW p \in Publishers, MoveToQuarantine(p)
  PROVE  PublisherInv'
<1>1. TypeOK /\ Kept /\ Own(p)
  BY DEF PublisherInv
<1>2. /\ me[p].pc = "quarantine" /\ me[p].pc \in Held \ {"release"}
      /\ UNCHANGED <<data, durable, content, synced, lock, moved, kept, foreign>>
      /\ HolderSteps(p)
  BY Holds DEF MoveToQuarantine, Held, Cleaning
<1>3. CASE /\ files[MyTarget(p)] # 0 /\ Rename(MyTarget(p), MyQuarantine(p))
           /\ Become(p, "judge")
  <2>1. Walks(p, "judge")
    BY <1>1, <1>3, BecomeWalks DEF CallSteps
  <2>2. Own(p)'
    BY <1>2, <1>3, <2>1, MoveOwn
  <2>3. Only(p) /\ me'[p].pc # "quarantine" /\ me'[p].base = me[p].base
    BY <2>1 DEF Walks, SameBut
  <2>4. files[MyQuarantine(p)] = 0
    BY <1>1, <1>2 DEF Own, Clear, Cleaning
  <2>5. MyTarget(p) = Destination =>
          kept = {} /\ files[Destination] \in {0, p} \cup Foreigners
    BY <1>1, <1>2, MovesDiffer DEF Kept
  <2>6. MyTarget(p) \in Mine(p) /\ MyQuarantine(p) \in Mine(p) \ {MyTarget(p)}
    BY <1>1, MovesDiffer
  <2> QED
    BY <1>2, <1>3, <2>2, <2>3, <2>4, <2>5, <2>6, RenameDone
<1>4. CASE files[MyTarget(p)] = 0 /\ RemovalOver(p, FALSE) /\ UNCHANGED files
  <2>1. Only(p) /\ IsRemoved(me[p], FALSE, me'[p])
    BY <1>1, <1>4, RemovalOverNow
  <2>2. Still /\ synced' \subseteq Inodes /\ files[MyTarget(p)] # p
    BY <1>2, <1>4, SyncedAre, Numbers DEF Still
  <2>3. Own(p)' /\ Proceeds(p)
    BY <1>2, <2>1, <2>2, MissingOwn
  <2> QED
    BY <1>2, <2>1, <2>2, <2>3, StillDone
<1>5. CASE RemovalFailed(p) /\ UNCHANGED files
  <2>1. Only(p) /\ IsRemoved(Dirtied(me[p]), FALSE, me'[p])
    BY <1>1, <1>5, RemovalFailedNow
  <2>2. Still /\ synced' \subseteq Inodes
    BY <1>2, <1>5, SyncedAre DEF Still
  <2>3. Own(p)' /\ Proceeds(p)
    BY <1>2, <2>1, <2>2, DirtyOwn
  <2> QED
    BY <1>2, <2>1, <2>2, <2>3, StillDone
<1> QED
  BY <1>3, <1>4, <1>5 DEF MoveToQuarantine

\* The publisher's own file is gone: the loser of a race goes on, a rollback turns to
\* the next target.
LEMMA DeleteOwn ==
  ASSUME PublisherInv, NEW p \in Publishers, me[p].pc = "judge", Only(p),
         IsRemoved(me[p], TRUE, me'[p]), UNCHANGED <<data, durable, content, synced>>,
         files' = [files EXCEPT ![MyQuarantine(p)] = 0]
  PROVE  Own(p)'
<1>1. TypeOK /\ Course(p) /\ Located(p) /\ Clear(p) /\ Ready(p)
  BY DEF PublisherInv, Own
<1>2. /\ MyQuarantine(p) \in Names /\ MyQuarantine(p) # Destination
      /\ MyQuarantine(p) # Staging(p) /\ Staging(p) \in Names /\ Destination \in Names
      /\ me[p].target = "destination" \/ me[p].target = "staging"
  BY <1>1, MovesDiffer, NamesAre
<1>3. files'[MyQuarantine(p)] = 0 /\ \A n \in Names \ {MyQuarantine(p)} : files'[n] = files[n]
  BY <1>1, <1>2, TypesAre
<1>4. \A n \in Names : files'[n] = p => files[n] = p /\ n # MyQuarantine(p)
  BY <1>3, Numbers
<1>5. "staging" \in Targets /\ "destination" \in Targets
  BY TargetsAre
<1>6. CASE me[p].outcome # "error"
  <2>1. /\ me[p].outcome = "none" /\ ~me[p].dirty /\ me[p].route = "raced"
        /\ me[p].target = "staging" /\ me[p].owns
    BY <1>1, <1>6 DEF Course, Cleaning
  <2>2. /\ me'[p].base = me[p].base /\ me'[p].owns /\ ~me'[p].dirty
        /\ me'[p].route = "raced" /\ me'[p].outcome = "none" /\ me'[p].pc = "sync parent"
    BY <1>6, <2>1 DEF IsRemoved
  <2>3. Course(p)'
    BY <2>2 DEF Course, Body1, Body2, Body3, Cleaning
  <2>4. Located(p)'
    <3>1. Where(p) = {MyQuarantine(p)} /\ OnDisk(p) = {}
      BY <2>1 DEF Where, OnDisk, Body3, Cleaning
    <3>2. \A n \in Names : files'[n] # p /\ durable'[n] # p
      BY <1>1, <1>4, <3>1 DEF Located
    <3> QED
      BY <3>2 DEF Located
  <2>5. Clear(p)'
    <3>1. files[Quarantine(p, "destination")] = 0 /\ Quarantine(p, "destination") \in Names
      BY <1>1, <1>5, <1>6, NamesAre DEF Clear, Cleaning
    <3>2. MyQuarantine(p) = Quarantine(p, "staging")
      BY <2>1 DEF MyQuarantine
    <3>3. \A t \in Targets : files'[Quarantine(p, t)] = 0
      BY <1>3, <3>1, <3>2, TargetsAre
    <3> QED
      BY <2>2, <3>3 DEF Clear, Body1, Body2, Body3, Cleaning
  <2>6. Ready(p)'
    <3>1. At(Destination)' = At(Destination)
      BY <1>2, <1>3 DEF At
    <3>2. /\ me[p].base.inode # 0 /\ me[p].base.content = data[p]
          /\ At(Destination) = me[p].base => me[p].base.inode \in synced
      BY <1>1, <1>6 DEF Ready, Rivals, Cleaning
    <3> QED
      BY <2>2, <3>1, <3>2 DEF Ready, Body3, Rivals, Cleaning, Checked
  <2> QED
    BY <2>3, <2>4, <2>5, <2>6 DEF Own
<1>7. CASE me[p].outcome = "error"
  <2>1. /\ me'[p].owns /\ me'[p].dirty = me[p].dirty /\ me'[p].outcome = "error"
        /\ me'[p].target = "staging"
        /\ \/ me[p].target = "destination" /\ me'[p].pc = "clean"
           \/ me[p].target = "staging" /\ me'[p].pc = "sync rollback"
    BY <1>1, <1>2, <1>7 DEF IsRemoved, Course, Cleaning
  <2>2. Course(p)' /\ Ready(p)'
    BY <2>1 DEF Course, Ready, Body1, Body2, Body3, Rivals, Cleaning, Checked
  <2>3. Located(p)'
    <3>1. CASE me[p].dirty
      <4>1. Where(p)' = Mine(p) /\ OnDisk(p)' = Mine(p)
        BY <2>1, <3>1 DEF Where, OnDisk, Mine
      <4> QED
        BY <1>1, <1>4, <4>1, WhereIsMine DEF Located
    <3>2. CASE ~me[p].dirty
      <4>1. OnDisk(p) = {Destination} /\ OnDisk(p)' = {Destination}
        BY <1>7, <2>1, <3>2 DEF OnDisk, Cleaning
      <4>2. Where(p) = {MyQuarantine(p)} \cup
                         (IF me[p].target = "staging" THEN {} ELSE {Staging(p)})
        BY <3>2 DEF Where, Body3
      <4>3. Where(p)' = IF me[p].target = "staging" THEN {} ELSE {Staging(p)}
        BY <2>1, <3>2 DEF Where, Body3
      <4> QED
        BY <1>1, <1>4, <4>1, <4>2, <4>3 DEF Located
    <3> QED
      BY <3>1, <3>2
  <2>4. Clear(p)'
    <3>1. me[p].target = "destination" => MyQuarantine(p) = Quarantine(p, "destination")
      BY DEF MyQuarantine
    <3>2. Quarantine(p, "staging") # Quarantine(p, "destination")
          /\ Quarantine(p, "staging") \in Names
      BY <1>5, NamesDiffer, NamesAre
    <3>3. me[p].target = "destination" =>
            (files'[Quarantine(p, "staging")] # 0 => files'[Staging(p)] # p)
      BY <1>1, <1>2, <1>3, <3>1, <3>2 DEF Clear, Cleaning
    <3> QED
      BY <2>1, <3>3 DEF Clear, Body1, Body2, Body3, Cleaning
  <2> QED
    BY <2>2, <2>3, <2>4 DEF Own
<1> QED
  BY <1>6, <1>7

LEMMA DeleteQuarantinedStep ==
  ASSUME PublisherInv, NEW p \in Publishers, DeleteQuarantined(p)
  PROVE  PublisherInv'
<1>1. TypeOK
  BY DEF PublisherInv
<1>2. /\ me[p].pc = "judge" /\ me[p].pc \in Held \ {"release"}
      /\ UNCHANGED <<data, durable, content, synced, lock, moved, kept, foreign>>
      /\ HolderSteps(p)
  BY Holds DEF DeleteQuarantined, Held, Cleaning
<1>3. CASE files' = [files EXCEPT ![MyQuarantine(p)] = 0] /\ RemovalOver(p, TRUE)
  <2>1. Only(p) /\ IsRemoved(me[p], TRUE, me'[p])
    BY <1>1, <1>3, RemovalOverNow
  <2>2. Own(p)'
    BY <1>2, <1>3, <2>1, DeleteOwn
  <2>3. me'[p].pc # "quarantine" /\ me'[p].base = me[p].base
    BY <2>1 DEF IsRemoved
  <2>4. MyQuarantine(p) \in Mine(p) \ {Destination}
    BY <1>1, MovesDiffer
  <2> QED
    BY <1>2, <1>3, <2>1, <2>2, <2>3, <2>4, DropDone
<1>4. CASE RemovalFailed(p) /\ UNCHANGED files
  <2>1. Only(p) /\ IsRemoved(Dirtied(me[p]), FALSE, me'[p])
    BY <1>1, <1>4, RemovalFailedNow
  <2>2. Still /\ synced' \subseteq Inodes
    BY <1>2, <1>4, SyncedAre DEF Still
  <2>3. Own(p)' /\ Proceeds(p)
    BY <1>2, <2>1, <2>2, DirtyOwn
  <2> QED
    BY <1>2, <2>1, <2>2, <2>3, StillDone
<1> QED
  BY <1>3, <1>4 DEF DeleteQuarantined

\* A file of somebody else is given back.
LEMMA RestoreOwn ==
  ASSUME PublisherInv, NEW p \in Publishers, me[p].pc = "judge", Only(p),
         IsRemoved(me[p], FALSE, me'[p]), UNCHANGED <<data, durable, content, synced>>,
         Rename(MyQuarantine(p), MyTarget(p)), files[MyQuarantine(p)] # p
  PROVE  Own(p)'
<1>1. TypeOK /\ Course(p) /\ Located(p) /\ Clear(p)
  BY DEF PublisherInv, Own
<1>2. /\ MyQuarantine(p) \in Names /\ MyTarget(p) \in Names
      /\ MyQuarantine(p) # Destination /\ MyQuarantine(p) # Staging(p)
      /\ MyQuarantine(p) # MyTarget(p) /\ Staging(p) \in Names
      /\ me[p].target = "destination" \/ me[p].target = "staging"
  BY <1>1, MovesDiffer, NamesAre
<1>3. /\ files'[MyQuarantine(p)] = 0 /\ files'[MyTarget(p)] # p
      /\ \A n \in Names \ {MyQuarantine(p), MyTarget(p)} : files'[n] = files[n]
  BY <1>1, <1>2, TypesAre DEF Rename
<1>4. \A n \in Names : files'[n] = p => files[n] = p /\ n # MyQuarantine(p)
  BY <1>3, Numbers
<1>5. "staging" \in Targets /\ "destination" \in Targets
  BY TargetsAre
<1>6. /\ me[p].owns
      /\ me[p].outcome # "error" => me[p].target = "staging" /\ ~me[p].dirty
  BY <1>1 DEF Course, Cleaning
<1>7. /\ me'[p].owns /\ me'[p].dirty = me[p].dirty /\ me'[p].outcome = "error"
      /\ \/ /\ me[p].outcome # "error"
            /\ me'[p].pc = "clean" /\ me'[p].target = "destination"
         \/ /\ me[p].outcome = "error" /\ me[p].target = "destination"
            /\ me'[p].pc = "clean" /\ me'[p].target = "staging"
         \/ /\ me[p].outcome = "error" /\ me[p].target = "staging"
            /\ me'[p].pc = "sync rollback"
  BY <1>2, <1>6 DEF IsRemoved, IsFailed
<1>8. Course(p)' /\ Ready(p)'
  BY <1>7 DEF Course, Ready, Body1, Body2, Body3, Rivals, Cleaning, Checked
<1>9. Located(p)'
  <2>1. CASE me[p].dirty
    <3>1. Where(p)' = Mine(p) /\ OnDisk(p)' = Mine(p)
      BY <1>7, <2>1 DEF Where, OnDisk, Mine
    <3> QED
      BY <1>1, <1>4, <3>1, WhereIsMine DEF Located
  <2>2. CASE ~me[p].dirty
    <3>1. OnDisk(p) \subseteq {Destination} /\ OnDisk(p)' = {Destination}
      BY <1>7, <2>2 DEF OnDisk, Cleaning
    <3>2. Where(p) = {MyQuarantine(p)} \cup
                       (IF me[p].target = "staging" THEN {} ELSE {Staging(p)})
      BY <2>2 DEF Where, Body3
    <3>3. \/ Where(p)' = {Staging(p), Destination}
          \/ me[p].target = "destination" /\ Where(p)' = {Staging(p)}
          \/ me[p].target = "staging" /\ Where(p)' = {}
      BY <1>7, <2>2 DEF Where, Body3
    <3> QED
      BY <1>1, <1>4, <3>1, <3>2, <3>3 DEF Located
  <2> QED
    BY <2>1, <2>2
<1>10. Clear(p)'
  <2>1. /\ Quarantine(p, "staging") # Quarantine(p, "destination")
        /\ Quarantine(p, "staging") # Destination /\ Staging(p) # Destination
        /\ Quarantine(p, "destination") # Staging(p)
        /\ Quarantine(p, "staging") # Staging(p)
        /\ Quarantine(p, "staging") \in Names /\ Quarantine(p, "destination") \in Names
    BY <1>5, NamesDiffer, NamesAre
  <2>2. CASE me[p].target = "staging"
    <3>1. MyQuarantine(p) = Quarantine(p, "staging") /\ MyTarget(p) = Staging(p)
      BY <2>2 DEF MyQuarantine, MyTarget, TargetName
    <3>2. /\ files'[Quarantine(p, "staging")] = 0
          /\ files'[Quarantine(p, "destination")] = files[Quarantine(p, "destination")]
      BY <1>3, <2>1, <3>1
    <3> QED
      BY <1>1, <1>7, <2>2, <3>2 DEF Clear, Body1, Body2, Body3, Cleaning
  <2>3. CASE me[p].target = "destination"
    <3>1. MyQuarantine(p) = Quarantine(p, "destination") /\ MyTarget(p) = Destination
      BY <2>3 DEF MyQuarantine, MyTarget, TargetName
    <3>2. /\ files'[Quarantine(p, "staging")] = files[Quarantine(p, "staging")]
          /\ files'[Staging(p)] = files[Staging(p)]
      BY <1>2, <1>3, <2>1, <3>1
    <3>3. files'[Quarantine(p, "staging")] # 0 => files'[Staging(p)] # p
      BY <1>1, <3>2 DEF Clear, Cleaning
    <3> QED
      BY <1>6, <1>7, <2>3, <3>3 DEF Clear, Body1, Body2, Body3, Cleaning
  <2> QED
    BY <1>2, <2>2, <2>3
<1> QED
  BY <1>8, <1>9, <1>10 DEF Own

LEMMA RestoreQuarantinedStep ==
  ASSUME PublisherInv, NEW p \in Publishers, RestoreQuarantined(p)
  PROVE  PublisherInv'
<1>1. TypeOK /\ Kept
  BY DEF PublisherInv
<1>2. /\ me[p].pc = "judge" /\ me[p].pc \in Held \ {"release"}
      /\ UNCHANGED <<data, durable, content, synced, lock, moved, kept, foreign>>
      /\ HolderSteps(p) /\ files[MyQuarantine(p)] # p
  BY Holds DEF RestoreQuarantined, Held, Cleaning, NoFault, Owned
<1>3. CASE Free(MyTarget(p))
  <2>1. Rename(MyQuarantine(p), MyTarget(p)) /\ RemovalOver(p, FALSE)
    BY <1>3 DEF RestoreQuarantined
  <2>2. Only(p) /\ IsRemoved(me[p], FALSE, me'[p])
    BY <1>1, <2>1, RemovalOverNow
  <2>3. Own(p)'
    BY <1>2, <2>1, <2>2, RestoreOwn
  <2>4. me'[p].pc # "quarantine" /\ me'[p].base = me[p].base
    BY <2>2 DEF IsRemoved, IsFailed
  <2>5. /\ MyTarget(p) \in Mine(p) \ {MyQuarantine(p)}
        /\ MyQuarantine(p) \in Mine(p) \ {Destination}
    BY <1>1, MovesDiffer
  <2>6. CASE files[MyQuarantine(p)] # 0
    BY <1>2, <1>3, <2>1, <2>2, <2>3, <2>4, <2>5, <2>6, RenameDone DEF Free
  <2>7. CASE files[MyQuarantine(p)] = 0
    <3>1. files' = [files EXCEPT ![MyQuarantine(p)] = 0]
      <4>1. MyQuarantine(p) \in Names /\ MyTarget(p) \in Names
        BY <2>5, NamesAre
      <4> QED
        BY <1>1, <1>3, <2>1, <2>5, <2>7, <4>1, TypesAre DEF Rename, Free
    <3> QED
      BY <1>2, <2>2, <2>3, <2>4, <2>5, <3>1, DropDone
  <2> QED
    BY <2>6, <2>7
<1>4. CASE ~Free(MyTarget(p))
  <2>1. RemovalFailed(p) /\ UNCHANGED files
    BY <1>4 DEF RestoreQuarantined
  <2>2. Only(p) /\ IsRemoved(Dirtied(me[p]), FALSE, me'[p])
    BY <1>1, <2>1, RemovalFailedNow
  <2>3. Still /\ synced' \subseteq Inodes
    BY <1>2, <2>1, SyncedAre DEF Still
  <2>4. Own(p)' /\ Proceeds(p)
    BY <1>2, <2>2, <2>3, DirtyOwn
  <2> QED
    BY <1>2, <2>2, <2>3, <2>4, StillDone
<1> QED
  BY <1>3, <1>4

\* A new file, which may be lost sight of at once.
LEMMA CreateStagingStep ==
  ASSUME PublisherInv, NEW p \in Publishers, CreateStaging(p)
  PROVE  PublisherInv'
<1>1. /\ TypeOK /\ Locked /\ Apart /\ Numbered /\ Kept
      /\ Course(p) /\ Located(p) /\ Clear(p)
  BY DEF PublisherInv, Own
<1>2. /\ me[p].pc = "create" /\ me[p].pc \in Held \ {"release"} /\ me[p].pc \notin Over
      /\ files' = [files EXCEPT ![Staging(p)] = p]
      /\ content' = [content EXCEPT ![p] = "partial"]
      /\ UNCHANGED <<data, durable, synced, lock, moved, kept, foreign>>
      /\ HolderSteps(p)
  BY Holds DEF CreateStaging, Held, Body1, Over, Cleaning
<1>3. me[p] \in CallRecords /\ me \in [Publishers -> CallRecords]
  BY <1>1, TypesAre
<1>4. me[p].outcome = "none" /\ ~me[p].dirty /\ ~me[p].owns
  BY <1>1, <1>2 DEF Course, Body1
<1>5. /\ Only(p) /\ me'[p].base = me[p].base
      /\ \/ /\ me'[p].pc = "write" /\ me'[p].owns /\ ~me'[p].dirty
            /\ me'[p].outcome = "none"
         \/ /\ me'[p].pc = "release" /\ me'[p].dirty /\ me'[p].outcome = "error"
  <2>1. CASE me' = [me EXCEPT ![p].pc = "write", ![p].owns = TRUE]
    <3>1. [me[p] EXCEPT !.pc = "write", !.owns = TRUE] \in CallRecords
      BY <1>3 DEF CallRecords, CallSteps
    <3>2. me' = [me EXCEPT ![p] = [me[p] EXCEPT !.pc = "write", !.owns = TRUE]]
      BY <1>3, <2>1 DEF CallRecords
    <3> QED
      BY <1>3, <1>4, <3>1, <3>2 DEF Only, CallRecords
  <2>2. CASE me' = [me EXCEPT ![p] = Failed([@ EXCEPT !.dirty = TRUE])]
    <3>1. Dirtied(me[p]) \in CallRecords
      BY <1>3 DEF Dirtied, CallRecords
    <3>2. me' = [me EXCEPT ![p] = Failed(Dirtied(me[p]))]
      BY <2>2 DEF Dirtied
    <3>3. IsFailed(Dirtied(me[p]), Failed(Dirtied(me[p])))
      BY <3>1, FailedIs
    <3>4. Failed(Dirtied(me[p])) \in CallRecords /\ me'[p] = Failed(Dirtied(me[p]))
      BY <1>3, <3>2, <3>3 DEF IsFailed
    <3>5. Only(p)
      BY <1>3, <3>2, <3>4 DEF Only
    <3> QED
      BY <1>3, <1>4, <3>3, <3>4, <3>5 DEF IsFailed, Dirtied, CallRecords
  <2> QED
    BY <2>1, <2>2 DEF CreateStaging
<1>6. /\ Staging(p) \in Names /\ Destination \in Names /\ Staging(p) # Destination
      /\ Staging(p) \in Mine(p) /\ p \in Inodes /\ p # 0
  BY NamesAre, NamesDiffer, TargetsAre, Numbers DEF Mine
<1>7. /\ files' \in [Names -> Inodes \cup {0}] /\ files'[Staging(p)] = p
      /\ \A n \in Names \ {Staging(p)} : files'[n] = files[n]
      /\ content' \in [Inodes -> Contents \cup {"none", "partial", "other"}]
      /\ \A i \in Inodes \ {p} : content'[i] = content[i]
  BY <1>1, <1>2, <1>6, TypesAre
<1>8. \A n \in Names : files[n] # p /\ durable[n] # p
  <2>1. Where(p) = {} /\ OnDisk(p) = {}
    BY <1>2, <1>4 DEF Where, OnDisk, Body3, Cleaning
  <2> QED
    BY <1>1, <2>1 DEF Located
<1>9. AloneAtIt(p)
  BY <1>1, <1>2, HolderIsAlone DEF HolderSteps
<1>10. Frame(p)
  BY <1>2, <1>5, <1>6, <1>7 DEF Frame
<1>11. Own(p)'
  <2>1. \A n \in Names : durable'[n] # p /\ (files'[n] = p => n = Staging(p))
    BY <1>2, <1>7, <1>8
  <2>2. \A t \in Targets : files'[Quarantine(p, t)] = 0
    <3>1. \A t \in Targets : Quarantine(p, t) # Staging(p) /\ files[Quarantine(p, t)] = 0
                             /\ Quarantine(p, t) \in Names
      BY <1>1, <1>2, NamesDiffer, NamesAre DEF Clear, Body1
    <3> QED
      BY <1>7, <3>1
  <2>3. CASE me'[p].pc = "write" /\ me'[p].owns /\ ~me'[p].dirty /\ me'[p].outcome = "none"
    <3>1. Where(p)' = {Staging(p)}
      BY <2>3 DEF Where, Body3
    <3>2. Located(p)'
      BY <2>1, <3>1 DEF Located
    <3>3. Course(p)' /\ Clear(p)' /\ Ready(p)'
      BY <2>2, <2>3 DEF Course, Clear, Ready, Body1, Body2, Body3, Rivals, Cleaning, Checked
    <3> QED
      BY <3>2, <3>3 DEF Own
  <2>4. CASE me'[p].pc = "release" /\ me'[p].dirty /\ me'[p].outcome = "error"
    <3>1. Where(p)' = Mine(p) /\ OnDisk(p)' = Mine(p)
      BY <2>4 DEF Where, OnDisk, Mine
    <3>2. Located(p)'
      BY <1>6, <2>1, <3>1 DEF Located
    <3>3. Course(p)' /\ Clear(p)' /\ Ready(p)'
      BY <2>4 DEF Course, Clear, Ready, Body1, Body2, Body3, Rivals, Cleaning, Checked
    <3> QED
      BY <3>2, <3>3 DEF Own
  <2> QED
    BY <1>5, <2>3, <2>4
<1>12. Apart'
  <2>1. \A n, m \in Names : files[n] # 0 /\ files[n] = files[m] => n = m
    BY <1>1, <1>2 DEF Apart
  <2>2. \A n, m \in Names : files'[n] # 0 /\ files'[n] = files'[m] => n = m
    BY <1>6, <1>7, <1>8, <2>1
  <2> QED
    BY <2>2 DEF Apart
<1>13. Numbered'
  <2>1. N \in Nat /\ foreign \in Nat /\ p \in Nat /\ p <= N
    BY <1>1, CountersAre, Numbers
  <2>2. p <= N + foreign
    BY <2>1
  <2>3. \A n \in Names : files'[n] <= N + foreign
    BY <1>1, <1>6, <1>7, <2>2 DEF Numbered
  <2>4. \A q \in Publishers : me'[q].base = me[q].base
    BY <1>5 DEF Only
  <2> QED
    BY <1>1, <1>2, <2>3, <2>4 DEF Numbered
<1>14. Kept'
  <2>1. ASSUME kept # {}
        PROVE  /\ files'[Destination] = files[Destination]
               /\ content'[files[Destination]] = content[files[Destination]]
               /\ \A n \in Names : files'[n] = files[Destination] => n = Destination
    <3>1. /\ files[Destination] # 0
          /\ \A n \in Names : files[n] = files[Destination] => n = Destination
      BY <1>1, <2>1 DEF Kept, Settled
    <3>2. files[Destination] \in Inodes /\ files[Destination] # p
      BY <1>1, <1>6, <1>8, <3>1, TypesAre
    <3> QED
      BY <1>6, <1>7, <3>1, <3>2
  <2>2. me'[p].pc # "quarantine"
    BY <1>5
  <2> QED
    BY <1>2, <1>5, <1>9, <2>1, <2>2, ChangeKeeps
<1>15. TypeOK'
  <2>1. me' \in [Publishers -> CallRecords]
    BY <1>5 DEF Only
  <2>2. /\ durable' \in [Names -> Inodes \cup {0}] /\ synced' \subseteq Inodes
        /\ lock' \in Publishers \cup {0} /\ moved' \in BOOLEAN /\ kept' \subseteq Publishers
        /\ faults' \in 0..MaxFaults /\ foreign' \in 0..MaxForeign
    BY <1>1, <1>2 DEF TypeOK, HolderSteps
  <2> QED
    BY <1>1, <1>2, <1>7, <2>1, <2>2, TypeNow
<1> QED
  BY <1>2, <1>9, <1>10, <1>11, <1>12, <1>13, <1>14, <1>15, StepDone DEF HolderSteps

LEMMA WriteStagingStep ==
  ASSUME PublisherInv, NEW p \in Publishers, WriteStaging(p)
  PROVE  PublisherInv'
<1>1. /\ TypeOK /\ Locked /\ Apart /\ Numbered /\ Kept
      /\ Course(p) /\ Located(p) /\ Clear(p)
  BY DEF PublisherInv, Own
<1>2. /\ me[p].pc = "write" /\ me[p].pc \in Held \ {"release"}
      /\ content' = [content EXCEPT ![p] = data[p]] /\ Become(p, "flush")
      /\ UNCHANGED <<data, files, durable, synced, lock, moved, kept, foreign>>
      /\ HolderSteps(p)
  BY Holds DEF WriteStaging, Held, Body2, NoFault
<1>3. Walks(p, "flush")
  BY <1>1, <1>2, BecomeWalks DEF CallSteps
<1>4. /\ Only(p) /\ me'[p].pc = "flush" /\ me'[p].base = me[p].base
      /\ me'[p].owns = me[p].owns /\ me'[p].dirty = me[p].dirty
      /\ me'[p].outcome = me[p].outcome
  BY <1>3 DEF Walks, SameBut
<1>5. /\ content' \in [Inodes -> Contents \cup {"none", "partial", "other"}]
      /\ \A i \in Inodes \ {p} : content'[i] = content[i]
  BY <1>1, <1>2, TypesAre, Numbers
<1>6. me[p].owns /\ me[p].outcome = "none" /\ ~me[p].dirty
  BY <1>1, <1>2 DEF Course, Body2
<1>7. /\ Where(p) = {Staging(p)} /\ Where(p)' = {Staging(p)}
      /\ OnDisk(p) = {} /\ OnDisk(p)' = {}
  BY <1>2, <1>4, <1>6 DEF Where, OnDisk, Body3, Cleaning
<1>8. Own(p)'
  <2>1. Located(p)'
    BY <1>1, <1>2, <1>7 DEF Located
  <2>2. Course(p)' /\ Ready(p)'
    BY <1>4, <1>6 DEF Course, Ready, Body1, Body2, Body3, Rivals, Cleaning, Checked
  <2>3. Clear(p)'
    BY <1>1, <1>2, <1>4 DEF Clear, Body1, Body2, Body3, Cleaning
  <2> QED
    BY <2>1, <2>2, <2>3 DEF Own
<1>9. AloneAtIt(p) /\ Frame(p)
  BY <1>1, <1>2, <1>4, HolderIsAlone DEF HolderSteps, Frame
<1>10. Apart' /\ Numbered'
  BY <1>1, <1>2, <1>4 DEF Apart, Numbered, Only, Over
<1>11. Kept'
  <2>1. ASSUME kept # {}
        PROVE  /\ content'[files[Destination]] = content[files[Destination]]
               /\ \A n \in Names : files[n] = files[Destination] => n = Destination
    <3>1. /\ files[Destination] # 0
          /\ \A n \in Names : files[n] = files[Destination] => n = Destination
      BY <1>1, <2>1 DEF Kept, Settled
    <3>2. files[Destination] # p
      BY <1>1, <1>7, NamesAre, NamesDiffer, TargetsAre DEF Located
    <3>3. files[Destination] \in Inodes
      BY <1>1, <3>1, TypesAre, NamesAre
    <3> QED
      BY <1>5, <3>1, <3>2, <3>3
  <2>2. me'[p].pc # "quarantine"
    BY <1>4
  <2> QED
    BY <1>2, <1>4, <1>9, <2>1, <2>2, ChangeKeeps
<1>12. TypeOK'
  BY <1>1, <1>2, <1>4, <1>5, TypeNow DEF TypeOK, Only, HolderSteps
<1> QED
  BY <1>2, <1>8, <1>9, <1>10, <1>11, <1>12, StepDone DEF HolderSteps

\* The disk now has the directory as it is.
LEMMA SyncedDirectory ==
  ASSUME PublisherInv, NEW p \in Publishers, HolderSteps(p), Only(p), Own(p)',
         me[p].pc \in Held \ {"release"}, me'[p].pc # "quarantine",
         me'[p].base = me[p].base, durable' = files,
         UNCHANGED <<data, files, content, synced, kept>>
  PROVE  PublisherInv'
<1>1. TypeOK /\ Locked /\ Apart /\ Numbered /\ Kept
  BY DEF PublisherInv
<1>2. AloneAtIt(p)
  BY <1>1, HolderIsAlone DEF HolderSteps
<1>3. Frame(p)
  BY DEF Frame
<1>4. me[p].pc \notin Over
  BY DEF Held, Body1, Body2, Body3, Cleaning, Over
<1>5. Apart' /\ Numbered'
  BY <1>1, <1>4 DEF Apart, Numbered, Only, HolderSteps
<1>6. Kept'
  <2>1. ASSUME kept # {}
        PROVE  \A n \in Names : files[n] = files[Destination] => n = Destination
    BY <1>1, <2>1 DEF Kept, Settled
  <2> QED
    BY <1>2, <2>1, ChangeKeeps DEF HolderSteps
<1>7. TypeOK'
  BY <1>1, TypeNow DEF TypeOK, Only, HolderSteps
<1> QED
  BY <1>2, <1>3, <1>5, <1>6, <1>7, StepDone DEF HolderSteps

LEMMA SyncParentStep ==
  ASSUME PublisherInv, NEW p \in Publishers, SyncParent(p)
  PROVE  PublisherInv'
<1>1. /\ TypeOK /\ Apart /\ Course(p) /\ Located(p) /\ Clear(p) /\ Ready(p)
  BY DEF PublisherInv, Own
<1>2. /\ me[p].pc = "sync parent" /\ me[p].pc \in Held \ {"release"}
      /\ durable' = files /\ Become(p, "accept")
      /\ UNCHANGED <<data, files, content, synced, lock, moved, kept, foreign>>
      /\ HolderSteps(p)
  BY Holds DEF SyncParent, Held, Body3, NoFault
<1>3. Walks(p, "accept")
  BY <1>1, <1>2, BecomeWalks DEF CallSteps
<1>4. /\ Only(p) /\ me'[p].pc = "accept" /\ me'[p].base = me[p].base
      /\ me'[p].owns = me[p].owns /\ me'[p].dirty = me[p].dirty
      /\ me'[p].outcome = me[p].outcome /\ me'[p].route = me[p].route
  BY <1>3 DEF Walks, SameBut
<1>5. Course(p)'
  BY <1>1, <1>2, <1>4 DEF Course, Body1, Body2, Body3, Cleaning
<1>6. Located(p)'
  <2>1. ~me[p].dirty
    BY <1>1, <1>2 DEF Course, Body3
  <2>2. /\ Where(p)' = Where(p)
        /\ Where(p) = IF me[p].route = "installed" THEN {Destination} ELSE {}
    BY <1>2, <1>4, <2>1 DEF Where, Body3
  <2>3. OnDisk(p)' = IF me[p].route = "installed" THEN {Destination} ELSE {}
    BY <1>4, <2>1 DEF OnDisk, Cleaning
  <2> QED
    BY <1>1, <1>2, <2>2, <2>3 DEF Located
<1>7. Clear(p)'
  BY <1>1, <1>2, <1>4 DEF Clear, Body1, Body2, Body3, Cleaning
<1>8. Ready(p)'
  <2>1. At(Destination)' = At(Destination) /\ At(Destination).inode = files[Destination]
    BY <1>2 DEF At
  <2>2. /\ me[p].base.inode # 0 /\ me[p].base.content = data[p]
        /\ At(Destination) = me[p].base => me[p].base.inode \in synced
    BY <1>1, <1>2 DEF Ready, Body3, Checked
  <2>3. \A n, m \in Names : files[n] # 0 /\ files[n] = files[m] => n = m
    BY <1>1, <1>2 DEF Apart, Over
  <2>4. At(Destination) = me[p].base =>
          \A n \in Names : files[n] = me[p].base.inode <=> n = Destination
    BY <2>1, <2>2, <2>3, NamesAre
  <2> QED
    BY <1>2, <1>4, <2>1, <2>2, <2>4 DEF Ready, Body3, Rivals, Cleaning, Checked
<1> QED
  BY <1>2, <1>4, <1>5, <1>6, <1>7, <1>8, SyncedDirectory DEF Own

LEMMA SyncRollbackStep ==
  ASSUME PublisherInv, NEW p \in Publishers, SyncRollback(p)
  PROVE  PublisherInv'
<1>1. TypeOK /\ Locked /\ Numbered /\ Kept /\ Course(p) /\ Located(p)
  BY DEF PublisherInv, Own
<1>2. /\ me[p].pc = "sync rollback" /\ me[p].pc \in Held \ {"release"}
      /\ UNCHANGED <<data, files, content, synced, lock, moved, kept, foreign>>
      /\ HolderSteps(p) /\ me[p].outcome = "error"
  BY <1>1, Holds DEF SyncRollback, Held, Course
<1>3. CASE durable' = files /\ Become(p, "release")
  <2>1. Walks(p, "release")
    BY <1>1, <1>3, BecomeWalks DEF CallSteps
  <2>2. /\ Only(p) /\ me'[p].pc = "release" /\ me'[p].base = me[p].base
        /\ me'[p].dirty = me[p].dirty /\ me'[p].outcome = "error"
    BY <1>2, <2>1 DEF Walks, SameBut
  <2>3. Located(p)'
    <3>1. CASE me[p].dirty
      <4>1. Where(p)' = Mine(p) /\ OnDisk(p)' = Mine(p) /\ Where(p) = Mine(p)
        BY <2>2, <3>1 DEF Where, OnDisk, Mine
      <4> QED
        BY <1>1, <1>2, <1>3, <4>1 DEF Located
    <3>2. CASE ~me[p].dirty
      <4>1. Where(p) = {}
        BY <1>2, <3>2 DEF Where, Body3
      <4> QED
        BY <1>1, <1>2, <1>3, <4>1 DEF Located
    <3> QED
      BY <3>1, <3>2
  <2>4. Course(p)' /\ Clear(p)' /\ Ready(p)'
    BY <2>2 DEF Course, Clear, Ready, Body1, Body2, Body3, Rivals, Cleaning, Checked
  <2> QED
    BY <1>2, <1>3, <2>2, <2>3, <2>4, SyncedDirectory DEF Own
<1>4. CASE me' = [me EXCEPT ![p].pc = "release", ![p].dirty = TRUE] /\ UNCHANGED durable
  <2>1. me[p] \in CallRecords /\ me \in [Publishers -> CallRecords]
    BY <1>1, TypesAre
  <2>2. [me[p] EXCEPT !.pc = "release", !.dirty = TRUE] \in CallRecords
    BY <2>1 DEF CallRecords, CallSteps
  <2>3. me' = [me EXCEPT ![p] = [me[p] EXCEPT !.pc = "release", !.dirty = TRUE]]
    BY <1>4, <2>1 DEF CallRecords
  <2>4. /\ Only(p) /\ me'[p].pc = "release" /\ me'[p].base = me[p].base
        /\ me'[p].dirty /\ me'[p].outcome = "error"
    BY <1>2, <2>1, <2>2, <2>3 DEF Only, CallRecords
  <2>5. Located(p)'
    <3>1. Where(p)' = Mine(p) /\ OnDisk(p)' = Mine(p)
      BY <2>4 DEF Where, OnDisk, Mine
    <3> QED
      BY <1>1, <1>2, <1>4, <3>1, WhereIsMine DEF Located
  <2>6. Course(p)' /\ Clear(p)' /\ Ready(p)'
    BY <2>4 DEF Course, Clear, Ready, Body1, Body2, Body3, Rivals, Cleaning, Checked
  <2>7. Still /\ synced' \subseteq Inodes
    BY <1>2, <1>4, SyncedAre DEF Still
  <2>8. Proceeds(p)
    BY <1>1, <1>2, <2>4 DEF Proceeds, Numbered
  <2> QED
    BY <1>2, <2>4, <2>5, <2>6, <2>7, <2>8, StillDone DEF Own
<1> QED
  BY <1>3, <1>4 DEF SyncRollback

LEMMA LockStep ==
  ASSUME PublisherInv, NEW p \in Publishers, Lock(p)
  PROVE  PublisherInv'
<1>1. /\ TypeOK /\ Locked /\ Apart /\ Numbered /\ Kept
      /\ Course(p) /\ Located(p) /\ Clear(p)
  BY DEF PublisherInv, Own
<1>2. /\ me[p].pc = "waiting" /\ lock = 0 /\ lock' = p /\ Become(p, "read")
      /\ UNCHANGED <<data, files, durable, content, synced, moved, kept, faults, foreign>>
  BY DEF Lock, disk
<1>3. Walks(p, "read")
  BY <1>1, <1>2, BecomeWalks DEF CallSteps
<1>4. /\ Only(p) /\ me'[p].pc = "read" /\ me'[p].base = me[p].base
      /\ me'[p].owns = me[p].owns /\ me'[p].dirty = me[p].dirty
      /\ me'[p].outcome = me[p].outcome
  BY <1>3 DEF Walks, SameBut
<1>5. AloneAtIt(p) /\ Frame(p)
  BY <1>1, <1>2, <1>4, HolderIsAlone DEF Frame
<1>6. Course(p)'
  BY <1>1, <1>2, <1>4 DEF Course, Body1, Body2, Body3, Cleaning
<1>7. Located(p)' /\ \A n \in Names : files[n] # p
  <2>1. ~me[p].dirty
    BY <1>1, <1>2 DEF Course
  <2>2. Where(p)' = {} /\ Where(p) = {} /\ OnDisk(p)' = {} /\ OnDisk(p) = {}
    BY <1>2, <1>4, <2>1 DEF Where, OnDisk, Body3, Cleaning
  <2> QED
    BY <1>1, <1>2, <2>2 DEF Located
<1>8. Clear(p)'
  BY <1>1, <1>2, <1>4 DEF Clear, Body1, Body2, Body3, Cleaning
<1>9. Ready(p)'
  BY <1>4 DEF Ready, Body3, Rivals, Cleaning, Checked
<1>10. Apart' /\ Numbered'
  BY <1>1, <1>2, <1>4 DEF Apart, Numbered, Only, Over
<1>11. Kept'
  <2>1. \A q \in Publishers \ {p} : me'[q].pc \notin Held
    BY <1>4, <1>5 DEF Only, AloneAtIt
  <2>2. /\ \A q \in kept : Exact(q)'
        /\ kept # {} => Settled'
    BY <1>1, <1>2 DEF Kept, Exact, Settled
  <2>3. \A q \in Publishers : me'[q].pc \in Held \ {"release"} => files'[Destination] # q
    BY <1>2, <1>7, <2>1, NamesAre
  <2>4. \A q \in Publishers : me'[q].pc # "quarantine"
    BY <1>4, <2>1 DEF Held, Cleaning
  <2> QED
    BY <1>2, <2>2, <2>3, <2>4 DEF Kept
<1>12. TypeOK'
  BY <1>1, <1>2, <1>4, TypeNow DEF TypeOK, Only
<1> QED
  BY <1>2, <1>5, <1>6, <1>7, <1>8, <1>9, <1>10, <1>11, <1>12, StepDone DEF Own

-----------------------------------------------------------------------------
LEMMA InitInv ==
  ASSUME Init
  PROVE  PublisherInv
<1>1. /\ data \in [Publishers -> Contents] /\ files = [n \in Names |-> 0]
      /\ durable = [n \in Names |-> 0] /\ content = [i \in Inodes |-> "none"]
      /\ synced = {} /\ lock = 0 /\ moved = FALSE /\ kept = {}
      /\ faults = 0 /\ foreign = 0 /\ me = [p \in Publishers |-> Call]
  BY DEF Init
<1>2. Call \in CallRecords
  BY TargetsAre DEF Call, NoFile, CallRecords, CallSteps
<1>3. me \in [Publishers -> CallRecords]
      /\ \A p \in Publishers : /\ me[p].pc = "waiting" /\ me[p].outcome = "none"
                              /\ ~me[p].dirty /\ ~me[p].owns /\ me[p].base.inode = 0
  BY <1>1, <1>2 DEF Call, NoFile
<1>4. TypeOK
  <2>1. CallRecords =
       [pc : {"waiting", "read", "create", "write", "flush", "verify", "install",
              "raced", "installed", "sync", "confirm", "sync parent", "accept", "clean",
              "quarantine", "judge", "sync rollback", "release"} \cup Over,
        route : {"none", "existing", "raced", "installed"},
        base : [inode : Inodes \cup {0}, content : Contents \cup {"none"}],
        target : Targets, owns : BOOLEAN,
        outcome : {"none", "ok", "raised", "error"}, dirty : BOOLEAN]
    <3>1. CallSteps = {"waiting", "read", "create", "write", "flush", "verify", "install",
              "raced", "installed", "sync", "confirm", "sync parent", "accept", "clean",
              "quarantine", "judge", "sync rollback", "release"} \cup Over
      BY DEF CallSteps, Over
    <3> QED
      BY <3>1, Zenon DEF CallRecords
  <2>2. 0 \in 0..MaxFaults /\ 0 \in 0..MaxForeign
    BY Numbers
  <2>3. me \in [Publishers ->
       [pc : {"waiting", "read", "create", "write", "flush", "verify", "install",
              "raced", "installed", "sync", "confirm", "sync parent", "accept", "clean",
              "quarantine", "judge", "sync rollback", "release"} \cup Over,
        route : {"none", "existing", "raced", "installed"},
        base : [inode : Inodes \cup {0}, content : Contents \cup {"none"}],
        target : Targets, owns : BOOLEAN,
        outcome : {"none", "ok", "raised", "error"}, dirty : BOOLEAN]]
    BY <1>3, <2>1, Zenon
  <2> QED
    BY <1>1, <2>2, <2>3 DEF TypeOK
<1>5. \A n \in Names : files[n] = 0 /\ durable[n] = 0
  BY <1>1
<1>6. Locked /\ Apart /\ Kept
  BY <1>1, <1>3, <1>5 DEF Locked, Apart, Kept, Held, Body1, Body2, Body3, Cleaning
<1>7. Numbered
  <2>1. 0 <= N + foreign
    BY <1>4, CountersAre
  <2> QED
    BY <1>3, <1>5, <2>1 DEF Numbered
<1>8. ASSUME NEW p \in Publishers
      PROVE  Own(p)
  <2>1. Course(p) /\ Ready(p)
    BY <1>3 DEF Course, Ready, Body1, Body2, Body3, Rivals, Cleaning, Checked
  <2>2. Located(p)
    BY <1>5, Numbers DEF Located
  <2>3. Clear(p)
    BY <1>3, <1>5, NamesAre DEF Clear, Body1, Body2, Body3, Cleaning
  <2> QED
    BY <2>1, <2>2, <2>3 DEF Own
<1> QED
  BY <1>4, <1>6, <1>7, <1>8 DEF PublisherInv

LEMMA NextInv ==
  ASSUME PublisherInv, [Next]_vars
  PROVE  PublisherInv'
<1>1. ASSUME NEW p \in Publishers, Lock(p) \/ Body(p) \/ Cleanup(p) \/ CallFails(p) \/ Crash(p)
      PROVE  PublisherInv'
  <2>1. CASE Body(p)
    BY <2>1, ReadExistingStep, CreateStagingStep, WriteStagingStep, FlushStagingStep,
       VerifyStagingStep, InstallStep, ReadRacedStep, ReadInstalledStep, SyncDestinationStep,
       ConfirmStep, SyncParentStep, AcceptStep DEF Body
  <2>2. CASE Cleanup(p)
    BY <2>2, LookAtTargetStep, MoveToQuarantineStep, DeleteQuarantinedStep,
       RestoreQuarantinedStep, SyncRollbackStep, ReleaseStep DEF Cleanup
  <2> QED
    BY <1>1, <2>1, <2>2, LockStep, CallFailsStep, CrashStep
<1>2. CASE PowerLoss
  BY <1>2, PowerLossStep
<1>3. CASE Foreign
  BY <1>3, MoveParentStep, PutStep, RemoveStep, TamperStep DEF Foreign
<1>4. CASE UNCHANGED vars
  <2>1. UNCHANGED <<data, files, durable, content, synced, lock, moved, me, kept, faults, foreign>>
    BY <1>4 DEF vars, disk
  <2>2. TypeOK' = TypeOK /\ Locked' = Locked /\ Apart' = Apart /\ Numbered' = Numbered
    BY <2>1 DEF TypeOK, Locked, Apart, Numbered
  <2>3. Kept'
    BY <2>1 DEF PublisherInv, Kept, Settled, Exact
  <2>4. ASSUME NEW p \in Publishers
        PROVE  Own(p)'
    <3>1. Course(p)' = Course(p) /\ Clear(p)' = Clear(p)
      BY <2>1 DEF Course, Clear, MyQuarantine
    <3>2. Where(p)' = Where(p) /\ OnDisk(p)' = OnDisk(p)
      BY <2>1 DEF Where, OnDisk, MyQuarantine
    <3>3. Located(p)' = Located(p)
      BY <2>1, <3>2 DEF Located
    <3>4. Ready(p)' = Ready(p)
      BY <2>1 DEF Ready, Rivals, At
    <3> QED
      BY <3>1, <3>3, <3>4 DEF PublisherInv, Own
  <2> QED
    BY <2>2, <2>3, <2>4 DEF PublisherInv
<1> QED
  BY <1>1, <1>2, <1>3, <1>4 DEF Next

-----------------------------------------------------------------------------
(***************************************************************************)
(* The theorems.                                                           *)
(***************************************************************************)
LEMMA PublisherHolds == Spec => []PublisherInv
BY InitInv, NextInv, PTL DEF Spec

\* The variables keep their types: the record of a call, the inodes of the directory
\* and the two counters of the environment, whatever fails in which order.
THEOREM PublisherTypes == Spec => []TypeOK
<1>1. PublisherInv => TypeOK
  BY DEF PublisherInv
<1> QED
  BY <1>1, PublisherHolds, PTL

\* The destination of a publisher that returned holds exactly what it published until
\* somebody who ignores the lock touches it: the rollback of another publisher, a crash
\* and a loss of power leave it alone.
THEOREM PublicationStays == Spec => []PublishedStays
<1>1. PublisherInv => PublishedStays
  BY DEF PublisherInv, Kept, PublishedStays
<1> QED
  BY <1>1, PublisherHolds, PTL

\* A publisher that ended and reports no failed cleanup has its file at the destination
\* or nowhere, and nowhere after an error, also when the power is lost later.
THEOREM NothingStaysBehind == Spec => []NothingLeftBehind
<1>1. ASSUME PublisherInv
      PROVE  NothingLeftBehind
  <2> SUFFICES ASSUME NEW p \in Publishers, NEW n \in Names,
                      me[p].pc = "end", ~me[p].dirty, files[n] = p
               PROVE  n = Destination /\ me[p].outcome # "error"
    BY DEF NothingLeftBehind
  <2>1. Located(p)
    BY <1>1 DEF PublisherInv, Own
  <2>2. Where(p) = IF me[p].outcome = "error" THEN {} ELSE {Destination}
    BY DEF Where, Body3
  <2> QED
    BY <2>1, <2>2 DEF Located
<1> QED
  BY <1>1, PublisherHolds, PTL

\* A rename to a free name loses no file.
LEMMA RenameLosesNothing ==
  ASSUME TypeOK, NEW from \in Names, NEW to \in Names \ {from}, Rename(from, to),
         files[to] = 0, NEW i \in Inodes, IsNamed(i)
  PROVE  IsNamed(i)'
<1>1. files \in [Names -> Inodes \cup {0}] /\ i # 0
  BY TypesAre, Numbers
<1>2. PICK n \in Names : files[n] = i
  BY DEF IsNamed
<1>3. files'[IF n = from THEN to ELSE n] = i
  BY <1>1, <1>2 DEF Rename
<1> QED
  BY <1>3 DEF IsNamed

LEMMA StepLosesNothing ==
  ASSUME PublisherInv, Next, NEW i \in Inodes, IsNamed(i), ~IsNamed(i)'
  PROVE  \/ i \in Publishers /\ me[i]' # me[i]
         \/ foreign' # foreign
         \/ PowerLoss
<1>1. TypeOK /\ \A p \in Publishers : Own(p)
  BY DEF PublisherInv
<1>2. files' # files
  BY DEF IsNamed
<1>3. CASE Foreign
  <2>1. ForeignChange
    BY <1>3 DEF Foreign, MoveParent, Put, Remove, Tamper
  <2>2. foreign' = foreign + 1 /\ foreign \in Nat
    BY <1>1, <2>1, CountersAre DEF ForeignChange
  <2> QED
    BY <2>2
<1>4. CASE PowerLoss
  BY <1>4
<1>5. ASSUME NEW p \in Publishers, Lock(p) \/ Body(p) \/ Cleanup(p) \/ CallFails(p) \/ Crash(p)
      PROVE  i \in Publishers /\ me[i]' # me[i]
  <2>1. Staging(p) \in Names /\ Destination \in Names /\ Destination # Staging(p)
    BY NamesAre, NamesDiffer, TargetsAre
  <2>2. /\ MyTarget(p) \in Names /\ MyQuarantine(p) \in Names
        /\ MyTarget(p) # MyQuarantine(p)
    BY <1>1, MovesDiffer, NamesAre
  <2>3. CASE CreateStaging(p)
    <3>1. files[Staging(p)] = 0
      BY <1>1, <2>3 DEF CreateStaging, Own, Clear, Body1
    <3>2. PICK n \in Names : files[n] = i
      BY DEF IsNamed
    <3>3. files' = [files EXCEPT ![Staging(p)] = p]
      BY <2>3 DEF CreateStaging
    <3>4. files'[n] = i
      BY <1>1, <3>1, <3>2, <3>3, TypesAre, Numbers
    <3> QED
      BY <3>4 DEF IsNamed
  <2>4. CASE Install(p)
    <3>1. Rename(Staging(p), Destination) /\ files[Destination] = 0
      BY <1>2, <2>4 DEF Install, Free
    <3> QED
      BY <1>1, <2>1, <3>1, RenameLosesNothing
  <2>5. CASE MoveToQuarantine(p)
    <3>1. Rename(MyTarget(p), MyQuarantine(p))
      BY <1>2, <2>5 DEF MoveToQuarantine
    <3>2. files[MyQuarantine(p)] = 0
      BY <1>1, <2>5 DEF MoveToQuarantine, Own, Clear, Cleaning
    <3> QED
      BY <1>1, <2>2, <3>1, <3>2, RenameLosesNothing
  <2>6. CASE DeleteQuarantined(p)
    <3>1. /\ files' = [files EXCEPT ![MyQuarantine(p)] = 0] /\ RemovalOver(p, TRUE)
          /\ files[MyQuarantine(p)] = p /\ me[p].pc = "judge"
      BY <1>2, <2>6 DEF DeleteQuarantined, Owned
    <3>2. PICK n \in Names : files[n] = i
      BY DEF IsNamed
    <3>3. n = MyQuarantine(p)
      <4>1. n # MyQuarantine(p) => files'[n] = i
        BY <1>1, <3>1, <3>2, TypesAre
      <4> QED
        BY <4>1 DEF IsNamed
    <3>4. i = p
      BY <3>1, <3>2, <3>3
    <3>5. IsRemoved(me[p], TRUE, me'[p])
      BY <1>1, <3>1, RemovalOverNow
    <3>6. me'[p].pc # "judge"
      BY <3>5 DEF IsRemoved
    <3> QED
      BY <3>1, <3>4, <3>6
  <2>7. CASE RestoreQuarantined(p)
    <3>1. Rename(MyQuarantine(p), MyTarget(p)) /\ files[MyTarget(p)] = 0
      BY <1>2, <2>7 DEF RestoreQuarantined, Free
    <3> QED
      BY <1>1, <2>2, <3>1, RenameLosesNothing
  <2>8. CASE Lock(p) \/ CallFails(p) \/ Crash(p)
    BY <1>2, <2>8 DEF Lock, CallFails, Crash, disk
  <2>9. CASE /\ Body(p) /\ ~CreateStaging(p) /\ ~Install(p)
    BY <1>2, <2>9 DEF Body, ReadExisting, WriteStaging, FlushStaging, VerifyStaging, ReadRaced,
                      ReadInstalled, SyncDestination, Confirm, SyncParent, Accept, disk
  <2>10. CASE LookAtTarget(p) \/ SyncRollback(p) \/ Release(p)
    BY <1>2, <2>10 DEF LookAtTarget, SyncRollback, Release, disk
  <2> QED
    BY <1>5, <2>3, <2>4, <2>5, <2>6, <2>7, <2>8, <2>9, <2>10 DEF Cleanup
<1> QED
  BY <1>3, <1>4, <1>5 DEF Next

\* No file loses its last name but by its own publisher, by somebody else or by a loss
\* of power: the renames of install and rollback find the name they move to free.
THEOREM NoFileIsLost == Spec => ForeignFilesSurvive
<1>1. PublisherInv /\ [Next]_vars =>
        [\A i \in Inodes : IsNamed(i) /\ ~IsNamed(i)' =>
           \/ i \in Publishers /\ me[i]' # me[i]
           \/ foreign' # foreign
           \/ PowerLoss]_vars
  BY StepLosesNothing
<1> QED
  BY <1>1, PublisherHolds, PTL DEF Spec, ForeignFilesSurvive
=============================================================================
