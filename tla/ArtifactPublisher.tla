------------------------- MODULE ArtifactPublisher -------------------------
(***************************************************************************)
(* publish_immutable_artifact (oracle/artifact_publisher.py): processes    *)
(* that publish to the same destination, each once and under the lock of   *)
(* the parent directory, against crashes, failing calls, a loss of power   *)
(* and changes made in the directory by somebody who ignores the lock.     *)
(*                                                                         *)
(* An inode is a number: p for the staging file of publisher p, larger     *)
(* ones for foreign files, 0 for no file.  Random names are fresh.         *)
(* Reading a file or checking it is one step; what happens between two     *)
(* steps is up to the others.                                              *)
(***************************************************************************)
EXTENDS Integers, FiniteSets

CONSTANTS
  N,           \* publishers
  Contents,    \* what they may want to publish
  MaxFaults,   \* failing calls, crashes and losses of power together
  MaxForeign,  \* foreign changes
  MaxTrouble   \* both together

ASSUME Parameters ==
  /\ {N, MaxFaults, MaxForeign, MaxTrouble} \subseteq Nat
  /\ Contents # {} /\ Contents \cap {"none", "partial", "other"} = {}

Publishers == 1..N
Foreigners == (N + 1)..(N + MaxForeign)
Inodes == Publishers \cup Foreigners

Destination == <<"destination">>
Staging(p) == <<"staging", p>>
Quarantine(p, target) == <<"cleanup", p, target>>
Targets == {"destination", "staging"}
Names == {Destination} \cup {Staging(p) : p \in Publishers}
         \cup {Quarantine(p, t) : p \in Publishers, t \in Targets}

TargetName(p, t) == IF t = "destination" THEN Destination ELSE Staging(p)

VARIABLES
  data,      \* data[p]: the bytes p publishes
  files,     \* the directory: which file each name leads to
  durable,   \* the directory as the disk has it
  content,   \* what is in each file
  synced,    \* the files whose content is on the disk
  lock,      \* the publisher that holds the parent's flock, 0 if none
  moved,     \* the path no longer leads to this directory
  me,        \* the local variables of each publisher
  kept,      \* publishers that returned since the destination was last touched by others
  faults, foreign

disk == <<files, durable, content, synced>>
vars == <<data, disk, lock, moved, me, kept, faults, foreign>>

Quiet == faults + foreign < MaxTrouble
Fault == Quiet /\ faults < MaxFaults /\ faults' = faults + 1
NoFault == UNCHANGED faults

\* Mutant: any file will do.
Exact_Present(p) == files[Destination] # 0

Exact(p) == files[Destination] # 0 /\ content[files[Destination]] = data[p]
At(n) == [inode |-> files[n], content |-> IF files[n] = 0 THEN "none" ELSE content[files[n]]]

\* The directory is still where the path says and the file still what it was.
Undisturbed(p) == ~moved /\ At(Destination) = me[p].base

Become(p, step) == me' = [me EXCEPT ![p].pc = step]

NoFile == [inode |-> 0, content |-> "none"]

\* A call that has opened the directory and asks for its lock.
Call == [pc |-> "waiting", route |-> "none", base |-> NoFile, target |-> "staging",
           owns |-> FALSE, outcome |-> "none", dirty |-> FALSE]

\* dirty: a removal or its sync failed, which the call reports, or the call never learnt
\* which file is its own.  Nothing is left of a call but how it ended.
Ended(r, step) == [Call EXCEPT !.pc = step, !.outcome = r.outcome, !.dirty = r.dirty]

-----------------------------------------------------------------------------
(***************************************************************************)
(* The body.  After an error the finally clause removes what is owned.     *)
(***************************************************************************)
Failed(r) ==
  IF r.owns
  THEN [r EXCEPT !.pc = "clean", !.target = "destination", !.outcome = "error"]
  ELSE [r EXCEPT !.pc = "release", !.outcome = "error"]

Fail(p) == me' = [me EXCEPT ![p] = Failed(@)]

\* _stable_read_named_file and _verify_exact_artifact: the content becomes the
\* baseline of the checks to come.
Adopt(p, route) ==
  me' = [me EXCEPT ![p].base = At(Destination), ![p].route = route, ![p].pc = "sync"]

\* Mutant: the lock is shared.
Lock_Shared(p) ==
  /\ me[p].pc = "waiting"
  /\ lock' = p
  /\ Become(p, "read")
  /\ UNCHANGED <<data, disk, moved, kept, faults, foreign>>

Lock(p) ==
  /\ me[p].pc = "waiting" /\ lock = 0
  /\ lock' = p
  /\ Become(p, "read")
  /\ UNCHANGED <<data, disk, moved, kept, faults, foreign>>

ReadExisting(p) ==
  /\ me[p].pc = "read"
  /\ IF ~moved /\ files[Destination] = 0 THEN Become(p, "create")
     ELSE IF ~moved /\ Exact(p) THEN Adopt(p, "existing")
     ELSE Fail(p)
  /\ UNCHANGED <<data, disk, lock, moved, kept, faults, foreign>>

\* The identity of the new file may not be had, twice; then nothing is cleaned up, and
\* nothing says so.
CreateStaging(p) ==
  /\ me[p].pc = "create"
  /\ files' = [files EXCEPT ![Staging(p)] = p]
  /\ content' = [content EXCEPT ![p] = "partial"]
  /\ \/ NoFault /\ me' = [me EXCEPT ![p].pc = "write", ![p].owns = TRUE]
     \/ Fault /\ me' = [me EXCEPT ![p] = Failed([@ EXCEPT !.dirty = TRUE])]
  /\ UNCHANGED <<data, durable, synced, lock, moved, kept, foreign>>

WriteStaging(p) ==
  /\ me[p].pc = "write"
  /\ content' = [content EXCEPT ![p] = data[p]]
  /\ Become(p, "flush")
  /\ UNCHANGED <<data, files, durable, synced, lock, moved, kept, faults, foreign>>

Staged(p) == At(Staging(p)) = [inode |-> p, content |-> data[p]]

\* _bind_staging_file before and after the fsync.
FlushStaging(p) ==
  /\ me[p].pc = "flush"
  /\ IF Staged(p)
     THEN /\ synced' = synced \cup {p}
          /\ Become(p, "verify")
     ELSE /\ Fail(p)
          /\ UNCHANGED synced
  /\ UNCHANGED <<data, files, durable, content, lock, moved, kept, faults, foreign>>

VerifyStaging(p) ==
  /\ me[p].pc = "verify"
  /\ IF ~moved /\ Staged(p) THEN Become(p, "install") ELSE Fail(p)
  /\ UNCHANGED <<data, disk, lock, moved, kept, faults, foreign>>

Rename(from, to) == files' = [files EXCEPT ![to] = files[from], ![from] = 0]

\* Mutant: a rename that replaces what it finds.
Free_Always(n) == TRUE

\* A rename leaves an existing file alone.
Free(n) == files[n] = 0

\* The file that moves is the one that has the staging name now.  A failure may be
\* reported of a rename that was done.
Install(p) ==
  /\ me[p].pc = "install"
  /\ IF files[Staging(p)] # 0 /\ Free(Destination)
     THEN /\ Rename(Staging(p), Destination)
          /\ \/ NoFault /\ Become(p, "installed")
             \/ Fault /\ Fail(p)
     ELSE /\ IF files[Staging(p)] = p THEN Become(p, "raced") ELSE Fail(p)
          /\ UNCHANGED <<files, faults>>
  /\ UNCHANGED <<data, durable, content, synced, lock, moved, kept, foreign>>

ReadRaced(p) ==
  /\ me[p].pc = "raced"
  /\ IF Exact(p) THEN Adopt(p, "raced") ELSE Fail(p)
  /\ UNCHANGED <<data, disk, lock, moved, kept, faults, foreign>>

ReadInstalled(p) ==
  /\ me[p].pc = "installed"
  /\ IF ~moved /\ files[Destination] = p /\ Exact(p) THEN Adopt(p, "installed") ELSE Fail(p)
  /\ UNCHANGED <<data, disk, lock, moved, kept, faults, foreign>>

\* _fsync_exact_named_file.
SyncDestination(p) ==
  /\ me[p].pc = "sync"
  /\ IF At(Destination) = me[p].base
     THEN /\ synced' = synced \cup {files[Destination]}
          /\ Become(p, "confirm")
     ELSE /\ Fail(p)
          /\ UNCHANGED synced
  /\ UNCHANGED <<data, files, durable, content, lock, moved, kept, faults, foreign>>

\* A publisher that lost the race still has to remove its own staging file.
Confirm(p) ==
  /\ me[p].pc = "confirm"
  /\ IF ~Undisturbed(p) THEN Fail(p)
     ELSE IF me[p].route = "raced"
     THEN me' = [me EXCEPT ![p].pc = "clean", ![p].target = "staging"]
     ELSE Become(p, "sync parent")
  /\ UNCHANGED <<data, disk, lock, moved, kept, faults, foreign>>

\* Mutant: the parent is synced only for a file of one's own.
SyncParent_IfInstalled(p) ==
  /\ me[p].pc = "sync parent"
  /\ durable' = IF me[p].route = "installed" THEN files ELSE durable
  /\ Become(p, "accept")
  /\ UNCHANGED <<data, files, content, synced, lock, moved, kept, faults, foreign>>

SyncParent(p) ==
  /\ me[p].pc = "sync parent"
  /\ durable' = files
  /\ Become(p, "accept")
  /\ UNCHANGED <<data, files, content, synced, lock, moved, kept, faults, foreign>>

Accept(p) ==
  /\ me[p].pc = "accept"
  /\ IF Undisturbed(p)
     THEN /\ me' = [me EXCEPT ![p].pc = "release", ![p].outcome = "ok"]
          /\ kept' = kept \cup {p}
     ELSE /\ Fail(p)
          /\ UNCHANGED kept
  /\ UNCHANGED <<data, disk, lock, moved, faults, foreign>>

-----------------------------------------------------------------------------
(***************************************************************************)
(* _remove_owned_entry: a look, a move to a name nobody knows, another     *)
(* look, and then the file is deleted or given back.                       *)
(***************************************************************************)
MyTarget(p) == TargetName(p, me[p].target)
MyQuarantine(p) == Quarantine(p, me[p].target)

\* The rollback goes on with the next target whatever became of the first.
Removed(r, done) ==
  IF r.outcome # "error"
    THEN IF done THEN [r EXCEPT !.pc = "sync parent"] ELSE Failed(r)
  ELSE IF r.target = "destination" THEN [r EXCEPT !.pc = "clean", !.target = "staging"]
  ELSE [r EXCEPT !.pc = "sync rollback"]

RemovalOver(p, done) == me' = [me EXCEPT ![p] = Removed(@, done)]
RemovalFailed(p) == me' = [me EXCEPT ![p] = Removed([@ EXCEPT !.dirty = TRUE], FALSE)]

LookAtTarget(p) ==
  /\ me[p].pc = "clean"
  /\ IF files[MyTarget(p)] = p THEN Become(p, "quarantine") ELSE RemovalOver(p, FALSE)
  /\ UNCHANGED <<data, disk, lock, moved, kept, faults, foreign>>

\* It may have been replaced since; the move may fail for good.
MoveToQuarantine(p) ==
  /\ me[p].pc = "quarantine"
  /\ \/ /\ files[MyTarget(p)] # 0
        /\ Rename(MyTarget(p), MyQuarantine(p))
        /\ Become(p, "judge")
        /\ NoFault
     \/ /\ files[MyTarget(p)] = 0
        /\ RemovalOver(p, FALSE)
        /\ NoFault /\ UNCHANGED files
     \/ /\ Fault
        /\ RemovalFailed(p)
        /\ UNCHANGED files
  /\ UNCHANGED <<data, durable, content, synced, lock, moved, kept, foreign>>

\* Mutant: whatever was moved is deleted.
Owned_Always(p) == TRUE

Owned(p) == files[MyQuarantine(p)] = p

DeleteQuarantined(p) ==
  /\ me[p].pc = "judge" /\ Owned(p)
  /\ \/ /\ files' = [files EXCEPT ![MyQuarantine(p)] = 0]
        /\ RemovalOver(p, TRUE)
        /\ NoFault
     \/ Fault /\ RemovalFailed(p) /\ UNCHANGED files
  /\ UNCHANGED <<data, durable, content, synced, lock, moved, kept, foreign>>

\* A foreign file that cannot be given back stays under the random name.
RestoreQuarantined(p) ==
  /\ me[p].pc = "judge" /\ ~Owned(p)
  /\ IF Free(MyTarget(p))
     THEN /\ Rename(MyQuarantine(p), MyTarget(p))
          /\ RemovalOver(p, FALSE)
     ELSE /\ RemovalFailed(p)
          /\ UNCHANGED files
  /\ UNCHANGED <<data, durable, content, synced, lock, moved, kept, faults, foreign>>

\* Mutant: the rollback does not sync the directory.
SyncRollback_Skipped(p) ==
  /\ me[p].pc = "sync rollback"
  /\ Become(p, "release")
  /\ UNCHANGED <<data, disk, lock, moved, kept, faults, foreign>>

SyncRollback(p) ==
  /\ me[p].pc = "sync rollback"
  /\ \/ durable' = files /\ Become(p, "release") /\ NoFault
     \/ /\ Fault
        /\ me' = [me EXCEPT ![p].pc = "release", ![p].dirty = TRUE]
        /\ UNCHANGED durable
  /\ UNCHANGED <<data, files, content, synced, lock, moved, kept, foreign>>

\* Mutant: after an error the lock is kept.
Release_IfComplete(p) ==
  /\ me[p].pc = "release"
  /\ lock' = IF me[p].outcome = "ok" THEN 0 ELSE lock
  /\ Become(p, "end")
  /\ UNCHANGED <<data, disk, moved, kept, faults, foreign>>

\* An unlock that fails is raised even by a complete publication; the lock goes
\* with the descriptor.
Raised(r) == [r EXCEPT !.outcome = IF @ = "ok" THEN "raised" ELSE @]

Release(p) ==
  /\ me[p].pc = "release"
  /\ lock' = 0
  /\ \/ /\ NoFault
        /\ me' = [me EXCEPT ![p] = Ended(@, "end")]
     \/ /\ Fault
        /\ me' = [me EXCEPT ![p] = Ended(Raised(@), "end")]
  /\ UNCHANGED <<data, disk, moved, kept, foreign>>

-----------------------------------------------------------------------------
Over == {"end", "dead"}

\* A call of the body fails without effect.
CallFails(p) ==
  /\ me[p].pc \in {"read", "create", "write", "flush", "verify", "install", "raced",
                   "installed", "sync", "confirm", "sync parent", "accept"}
  /\ Fault /\ Fail(p)
  /\ UNCHANGED <<data, disk, lock, moved, kept, foreign>>

Die(r) == IF r.pc \in Over THEN r ELSE Ended(r, "dead")

Crash(p) ==
  /\ me[p].pc \notin Over
  /\ Fault
  /\ me' = [me EXCEPT ![p] = Die(@)]
  /\ lock' = IF lock = p THEN 0 ELSE lock
  /\ UNCHANGED <<data, disk, moved, kept, foreign>>

\* What was not synced may or may not have reached the disk.
PowerLoss ==
  /\ Fault
  /\ \E lost \in SUBSET {n \in Names : files[n] # durable[n]} :
       /\ files' = [n \in Names |-> IF n \in lost THEN durable[n] ELSE files[n]]
       /\ durable' = files'
  /\ \E torn \in SUBSET {i \in Inodes \ synced : content[i] # "none"} :
       content' = [i \in Inodes |-> IF i \in torn THEN "partial" ELSE content[i]]
  /\ synced' = Inodes
  /\ me' = [p \in Publishers |-> Die(me[p])]
  /\ lock' = 0
  /\ UNCHANGED <<data, moved, kept, foreign>>

-----------------------------------------------------------------------------
(***************************************************************************)
(* Somebody else, bound by no lock, changes the public names.              *)
(***************************************************************************)
ForeignChange ==
  /\ Quiet /\ foreign < MaxForeign
  /\ foreign' = foreign + 1
  /\ UNCHANGED <<data, durable, lock, me, faults>>

Touched(n) == kept' = IF n = Destination THEN {} ELSE kept

Put(n) ==
  /\ ForeignChange
  /\ files' = [files EXCEPT ![n] = N + foreign']
  /\ \E c \in Contents \cup {"other"} : content' = [content EXCEPT ![N + foreign'] = c]
  /\ synced' = synced \ {N + foreign'}
  /\ Touched(n)
  /\ UNCHANGED moved

Remove(n) ==
  /\ files[n] # 0
  /\ ForeignChange
  /\ files' = [files EXCEPT ![n] = 0]
  /\ Touched(n)
  /\ UNCHANGED <<content, synced, moved>>

Tamper(n) ==
  /\ files[n] # 0
  /\ ForeignChange
  /\ content' = [content EXCEPT ![files[n]] = "other"]
  /\ synced' = synced \ {files[n]}
  /\ Touched(n)
  /\ UNCHANGED <<files, moved>>

MoveParent ==
  /\ ~moved /\ ForeignChange
  /\ moved' = TRUE
  /\ UNCHANGED <<files, content, synced, kept>>

PublicNames == {Destination} \cup {Staging(p) : p \in {q \in Publishers : files[Staging(q)] # 0}}

Foreign == MoveParent \/ \E n \in PublicNames : Put(n) \/ Remove(n) \/ Tamper(n)

-----------------------------------------------------------------------------
Init ==
  /\ data \in [Publishers -> Contents]
  /\ files = [n \in Names |-> 0]
  /\ durable = files
  /\ content = [i \in Inodes |-> "none"]
  /\ synced = {}
  /\ lock = 0
  /\ moved = FALSE
  /\ me = [p \in Publishers |-> Call]
  /\ kept = {}
  /\ faults = 0 /\ foreign = 0

Body(p) ==
  \/ ReadExisting(p) \/ CreateStaging(p) \/ WriteStaging(p) \/ FlushStaging(p)
  \/ VerifyStaging(p) \/ Install(p) \/ ReadRaced(p) \/ ReadInstalled(p)
  \/ SyncDestination(p) \/ Confirm(p) \/ SyncParent(p) \/ Accept(p)

Cleanup(p) ==
  \/ LookAtTarget(p) \/ MoveToQuarantine(p) \/ DeleteQuarantined(p) \/ RestoreQuarantined(p)
  \/ SyncRollback(p) \/ Release(p)

Next ==
  \/ \E p \in Publishers :
       Lock(p) \/ Body(p) \/ Cleanup(p) \/ CallFails(p) \/ Crash(p)
  \/ PowerLoss \/ Foreign

Spec == Init /\ [][Next]_vars

\* A process that is in the call goes on, and the lock is granted in the end.
Fairness ==
  \A p \in Publishers : WF_vars(Lock(p)) /\ WF_vars(Body(p)) /\ WF_vars(Cleanup(p))

FairSpec == Spec /\ Fairness
-----------------------------------------------------------------------------
TypeOK ==
  /\ data \in [Publishers -> Contents]
  /\ files \in [Names -> Inodes \cup {0}]
  /\ durable \in [Names -> Inodes \cup {0}]
  /\ content \in [Inodes -> Contents \cup {"none", "partial", "other"}]
  /\ synced \subseteq Inodes
  /\ lock \in Publishers \cup {0}
  /\ moved \in BOOLEAN
  /\ me \in [Publishers ->
       [pc : {"waiting", "read", "create", "write", "flush", "verify", "install",
              "raced", "installed", "sync", "confirm", "sync parent", "accept", "clean",
              "quarantine", "judge", "sync rollback", "release"} \cup Over,
        route : {"none", "existing", "raced", "installed"},
        base : [inode : Inodes \cup {0}, content : Contents \cup {"none"}],
        target : Targets, owns : BOOLEAN,
        outcome : {"none", "ok", "raised", "error"}, dirty : BOOLEAN]]
  /\ kept \subseteq Publishers
  /\ faults \in 0..MaxFaults /\ foreign \in 0..MaxForeign

\* What a publisher returned for stays published, exact and whole, until somebody
\* else touches the destination: no other publisher, no rollback of a failed one,
\* no crash and no loss of power takes it away.  So publishers that disagree on
\* the content are never both told that they succeeded.
PublishedStays == \A p \in kept : Exact(p)

\* A file is deleted only by the publisher that made it, or by somebody else:
\* neither the install nor the rollback loses a file that was put under one of
\* their names in the meantime.
IsNamed(i) == \E n \in Names : files[n] = i

ForeignFilesSurvive ==
  [][\A i \in Inodes : IsNamed(i) /\ ~IsNamed(i)' =>
       \/ i \in Publishers /\ me[i]' # me[i]
       \/ foreign' # foreign
       \/ PowerLoss]_vars

\* A publisher that returns, or fails and reports no failed cleanup, leaves its
\* file at the destination if it was accepted there and nowhere otherwise, unless it
\* could not identify the file it had just made; a loss of power brings nothing back.
NothingLeftBehind ==
  \A p \in Publishers, n \in Names :
    me[p].pc = "end" /\ ~me[p].dirty /\ files[n] = p =>
      n = Destination /\ me[p].outcome # "error"

\* Whoever waits for the lock gets it and ends, though others fail or die with it.
EveryPublisherEnds == \A p \in Publishers : <>(me[p].pc \in Over)
=============================================================================
