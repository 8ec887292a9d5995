-------------------------- MODULE OrderBookCatalog --------------------------
(***************************************************************************)
(* The catalog of order books (workbench/order_books.py and                *)
(* write_manifest of order_books/archive.py).  A process serves one        *)
(* request at a time, generation included, since the routes call the       *)
(* service from the event loop; several processes may share the runtime    *)
(* directory and each can stop at any step.                                *)
(*                                                                         *)
(* A book is generated from its request by a pure function, so a book      *)
(* stands for its request too.  Books are numbered in the order of their   *)
(* identities.                                                             *)
(***************************************************************************)
EXTENDS Integers, Sequences, FiniteSets, Functions

CONSTANTS
  Processes,
  Books,      \* the books that can be asked for, numbers
  Fixtures,   \* those committed with the code
  Capacity,   \* _MAX_CATALOG_FILES: 256 in the code
  Limit,      \* books of a page
  Regimes,    \* sets of books a listing can be restricted to
  MaxCrashes, MaxFaults

ASSUME Parameters ==
  /\ IsFiniteSet(Processes)
  /\ Books \subseteq Nat \ {0} /\ Fixtures \subseteq Books /\ IsFiniteSet(Fixtures)
  /\ Limit \in Nat \ {0} /\ Capacity \in Nat /\ Cardinality(Fixtures) < Capacity
  /\ Regimes \subseteq SUBSET Books
  /\ MaxCrashes \in Nat /\ MaxFaults \in Nat

VARIABLES
  published,   \* books with a file in the runtime directory
  temporaries, \* processes that have a temporary file there
  left,        \* temporary files nobody will remove
  proc,        \* what each process does and for which book
  listing,     \* a client's listing of the catalog, page by page
  crashes, faults

vars == <<published, temporaries, left, proc, listing, crashes, faults>>

Idle == [pc |-> "idle", book |-> 0]
NoListing == [state |-> "none", regime |-> {}, after |-> 0, got |-> <<>>, before |-> {}]

Stored == published \cup Fixtures
Entries == Cardinality(published) + Cardinality(temporaries) + left
Fault == faults < MaxFaults /\ faults' = faults + 1

Goto(p, step) == proc' = [proc EXCEPT ![p].pc = step]
Answer(p) == proc' = [proc EXCEPT ![p] = Idle]

\* _runtime_paths: too many entries, or one that is hidden.
Refused == Entries + Cardinality(Fixtures) > Capacity \/ temporaries # {} \/ left > 0

-----------------------------------------------------------------------------
(***************************************************************************)
(* generate                                                                *)
(***************************************************************************)
Generate(p, b) ==
  /\ proc[p].pc = "idle"
  /\ proc' = [proc EXCEPT ![p] = [pc |-> "catalog", book |-> b]]
  /\ UNCHANGED <<published, temporaries, left, listing, crashes, faults>>

\* Mutant: the committed books are not looked at.
ReadCatalog_RuntimeOnly(p) ==
  /\ proc[p].pc = "catalog"
  /\ IF Refused \/ proc[p].book \in published THEN Answer(p) ELSE Goto(p, "capacity")
  /\ UNCHANGED <<published, temporaries, left, listing, crashes, faults>>

\* An existing book is the answer.
ReadCatalog(p) ==
  /\ proc[p].pc = "catalog"
  /\ IF Refused \/ proc[p].book \in Stored THEN Answer(p) ELSE Goto(p, "capacity")
  /\ UNCHANGED <<published, temporaries, left, listing, crashes, faults>>

\* Mutant: one more book than the catalog accepts.
CheckCapacity_OffByOne(p) ==
  /\ proc[p].pc = "capacity"
  /\ IF Refused \/ Entries + Cardinality(Fixtures) > Capacity
     THEN Answer(p) ELSE Goto(p, "create")
  /\ UNCHANGED <<published, temporaries, left, listing, crashes, faults>>

\* The directory is read a second time; then the book is generated, which takes long.
CheckCapacity(p) ==
  /\ proc[p].pc = "capacity"
  /\ IF Refused \/ Entries + Cardinality(Fixtures) >= Capacity
     THEN Answer(p) ELSE Goto(p, "create")
  /\ UNCHANGED <<published, temporaries, left, listing, crashes, faults>>

Create(p) ==
  /\ proc[p].pc = "create"
  /\ \/ temporaries' = temporaries \cup {p} /\ Goto(p, "link") /\ UNCHANGED faults
     \/ Fault /\ Answer(p) /\ UNCHANGED temporaries
  /\ UNCHANGED <<published, left, listing, crashes>>

\* Writing or linking may fail; a file of that name is left as it is.
Link(p) ==
  /\ proc[p].pc = "link"
  /\ \/ published' = published \cup {proc[p].book} /\ Goto(p, "unlink") /\ UNCHANGED faults
     \/ Fault /\ Goto(p, "fail") /\ UNCHANGED published
  /\ UNCHANGED <<temporaries, left, listing, crashes>>

\* Mutant: the temporary file is removed on the good path only.
Unlink_Success(p) ==
  /\ proc[p].pc \in {"unlink", "fail"}
  /\ temporaries' = IF proc[p].pc = "fail" THEN temporaries ELSE temporaries \ {p}
  /\ Answer(p)
  /\ UNCHANGED <<published, left, listing, crashes, faults>>

\* The finally of write_manifest included: every path removes the temporary file, unless
\* os.unlink raises.  What is published is read back, and is the answer.
Unlink(p) ==
  /\ proc[p].pc \in {"unlink", "fail"}
  /\ temporaries' = temporaries \ {p}
  /\ \/ UNCHANGED <<left, faults>>
     \/ Fault /\ left' = left + 1
  /\ Answer(p)
  /\ UNCHANGED <<published, listing, crashes>>

Crash(p) ==
  /\ proc[p].pc # "idle"
  /\ crashes < MaxCrashes /\ crashes' = crashes + 1
  /\ Answer(p)
  /\ temporaries' = temporaries \ {p}
  /\ left' = left + IF p \in temporaries THEN 1 ELSE 0
  /\ UNCHANGED <<published, listing, faults>>

-----------------------------------------------------------------------------
(***************************************************************************)
(* list_books: the client asks for pages until there is no cursor.         *)
(***************************************************************************)
Matching == Stored \cap listing.regime

Begin ==
  /\ listing.state # "paging"
  /\ \E s \in Regimes :
       listing' = [NoListing EXCEPT !.state = "paging", !.regime = s, !.before = Stored \cap s]
  /\ UNCHANGED <<published, temporaries, left, proc, crashes, faults>>

\* Mutant: the cursor counts the books instead of naming the last one.
Remaining_ByPosition ==
  {b \in Matching : Cardinality({c \in Matching : c < b}) >= Len(listing.got)}

Remaining == {b \in Matching : b > listing.after}

CursorKnown == listing.after = 0 \/ listing.after \in Matching

\* The books of S that come first, as many as a page holds; a finite set in order.
Smallest(S) == {b \in S : Cardinality({c \in S : c < b}) < Limit}
InOrder(S) ==
  [i \in 1..Cardinality(S) |-> CHOOSE b \in S : Cardinality({c \in S : c <= b}) = i]

Selected == InOrder(Smallest(Remaining))

ListPage(p) ==
  /\ proc[p].pc = "idle" /\ listing.state = "paging"
  /\ IF Refused
     THEN listing' = [listing EXCEPT !.state = "refused"]
     ELSE IF ~CursorKnown
     THEN listing' = [listing EXCEPT !.state = "rejected"]
     ELSE listing' = [listing EXCEPT
            !.got = @ \o Selected,
            !.after = IF Selected = <<>> THEN @ ELSE Selected[Len(Selected)],
            !.state = IF Cardinality(Remaining) > Limit THEN "paging" ELSE "done"]
  /\ UNCHANGED <<published, temporaries, left, proc, crashes, faults>>

-----------------------------------------------------------------------------
Init ==
  /\ published = {} /\ temporaries = {} /\ left = 0
  /\ proc = [p \in Processes |-> Idle]
  /\ listing = NoListing
  /\ crashes = 0 /\ faults = 0

Next ==
  \/ Begin
  \/ \E p \in Processes :
       \/ \E b \in Books : Generate(p, b)
       \/ ReadCatalog(p) \/ CheckCapacity(p) \/ Create(p) \/ Link(p) \/ Unlink(p)
       \/ Crash(p) \/ ListPage(p)

Spec == Init /\ [][Next]_vars

-----------------------------------------------------------------------------
\* The states are of the kinds the comments of the variables say; a committed book
\* is never generated again.
TypeOK ==
  /\ published \subseteq Books \ Fixtures /\ temporaries \subseteq Processes
  /\ left \in 0..(MaxCrashes + MaxFaults)
  /\ \A p \in Processes :
       /\ proc[p].pc \in {"idle", "catalog", "capacity", "create", "link", "unlink", "fail"}
       /\ proc[p].book \in Books \cup {0}
  /\ listing.state \in {"none", "paging", "done", "refused", "rejected"}
  /\ listing.regime \in Regimes \cup {{}}
  /\ crashes \in 0..MaxCrashes /\ faults \in 0..MaxFaults

\* The catalog is refused only while a process is publishing a book, after one died
\* doing so or could not remove its temporary file, or when it holds more than its
\* limit; and that it exceeds by no more books than there are other processes, which
\* checked the capacity in time.
RefusedForKnownReasons ==
  /\ Refused => \/ \E p \in Processes : proc[p].pc \in {"link", "unlink", "fail"}
                \/ left > 0
                \/ Cardinality(Stored) > Capacity
  /\ Cardinality(Stored) < Capacity + Cardinality(Processes)

\* Whatever is generated between two pages, a listing that reaches its end shows
\* every book there was at its beginning, each book once and in order, and only
\* books there are; no cursor of its own is rejected.
ListingIsExact ==
  /\ listing.state # "rejected"
  /\ listing.state = "done" =>
       /\ listing.before \subseteq Range(listing.got)
       /\ Range(listing.got) \subseteq Matching
       /\ \A i, j \in DOMAIN listing.got : i < j => listing.got[i] < listing.got[j]
=============================================================================
