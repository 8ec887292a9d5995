----------------------- MODULE OrderBookCatalogProofs -----------------------
(***************************************************************************)
(* The catalog of order books, for every set of processes and of books,    *)
(* every capacity and every page size.                                     *)
(*                                                                         *)
(* How far the catalog can exceed its limit is no invariant by itself: the *)
(* room a process found is used up only when it links its book.  Room      *)
(* counts the processes under way between the two as books.  A listing is  *)
(* exact since its cursor names a book: ListingBehind says what a client   *)
(* has seen when it stands behind that book.                               *)
(***************************************************************************)
EXTENDS OrderBookCatalog, FiniteSetTheorems, FunctionTheorems, SequenceTheorems, TLAPS

Publishing == {"link", "unlink", "fail"}

\* A process stands for a book that is asked for, and for no committed one once it
\* has seen the catalog; a temporary file is there while its process publishes.
ProcessesAgree ==
  /\ proc \in [Processes -> [pc : {"idle", "catalog", "capacity", "create"} \cup Publishing,
                             book : Books \cup {0}]]
  /\ \A p \in Processes :
       /\ proc[p].pc # "idle" => proc[p].book \in Books
       /\ proc[p].pc \in {"capacity", "create"} \cup Publishing => proc[p].book \notin Fixtures
       /\ p \in temporaries <=> proc[p].pc \in Publishing

FilesAgree ==
  /\ published \subseteq Books \ Fixtures /\ IsFiniteSet(published)
  /\ temporaries \subseteq Processes
  /\ left \in 0..(MaxCrashes + MaxFaults) /\ left <= crashes + faults
  /\ crashes \in 0..MaxCrashes /\ faults \in 0..MaxFaults

\* The processes that found room for their book and have not linked it.
Reserving == {p \in Processes : proc[p].pc \in {"create", "link"}}

Room == Cardinality(Stored) + Cardinality(Reserving) < Capacity + Cardinality(Processes)

Increasing(s) == \A i, j \in DOMAIN s : i < j => s[i] < s[j]

\* The client has what there was up to its cursor, in order, and the cursor is the
\* last book it has.
ListingBehind ==
  /\ listing.got \in Seq(Books) /\ Increasing(listing.got)
  /\ listing.after = IF listing.got = <<>> THEN 0 ELSE listing.got[Len(listing.got)]
  /\ Range(listing.got) \subseteq Matching
  /\ listing.before \subseteq Matching
  /\ \A b \in listing.before : b <= listing.after => b \in Range(listing.got)

ListingAgrees ==
  /\ listing \in [state : {"none", "paging", "done", "refused"}, regime : Regimes \cup {{}},
                  after : Nat, got : Seq(Books), before : SUBSET Books]
  /\ listing.state \in {"paging", "done"} => ListingBehind
  /\ listing.state = "done" => listing.before \subseteq Range(listing.got)

CatalogInv == ProcessesAgree /\ FilesAgree /\ Room /\ ListingAgrees

-----------------------------------------------------------------------------
(***************************************************************************)
(* What the operators of a page return.                                    *)
(***************************************************************************)

\* The number of books up to a book grows with the book.
LEMMA PlaceGrows ==
  ASSUME NEW S \in SUBSET Nat, IsFiniteSet(S), NEW a \in S, NEW b \in S, a < b
  PROVE  Cardinality({c \in S : c <= a}) < Cardinality({c \in S : c <= b})
<1> DEFINE A == {c \in S : c <= a}
           B == {c \in S : c <= b}
<1>1. A \in SUBSET B /\ B \in SUBSET S /\ b \in B /\ b \notin A
  <2>1. a \in Nat /\ b \in Nat /\ b <= b /\ ~(b <= a)
    OBVIOUS
  <2>2. \A c \in S : c <= a => c <= b
    BY <2>1
  <2> QED
    BY <2>1, <2>2
<1>2. IsFiniteSet(A) /\ IsFiniteSet(B)
  BY <1>1, FS_Subset
<1>3. Cardinality(A) <= Cardinality(B) /\ Cardinality(A) # Cardinality(B)
  BY <1>1, <1>2, FS_Subset
<1>4. Cardinality(A) \in Nat /\ Cardinality(B) \in Nat
  BY <1>2, FS_CardinalityType
<1> QED
  BY <1>3, <1>4

\* InOrder lists a finite set of books: each once, in increasing order.
LEMMA InOrderLists ==
  ASSUME NEW S \in SUBSET Nat, IsFiniteSet(S)
  PROVE  /\ InOrder(S) \in Seq(S) /\ Len(InOrder(S)) = Cardinality(S)
         /\ Range(InOrder(S)) = S
         /\ Increasing(InOrder(S))
<1> DEFINE n == Cardinality(S)
           Place(b) == Cardinality({c \in S : c <= b})
           place == [b \in S |-> Place(b)]
<1>1. n \in Nat
  BY FS_CardinalityType
<1>2. \A b \in S : Place(b) \in 1..n
  <2> TAKE b \in S
  <2> DEFINE B == {c \in S : c <= b}
  <2>1. B \in SUBSET S /\ b \in B
    OBVIOUS
  <2>2. IsFiniteSet(B) /\ Cardinality(B) <= n
    BY <2>1, FS_Subset
  <2>3. Cardinality(B) \in Nat /\ Cardinality(B) # 0
    BY <2>1, <2>2, FS_CardinalityType, FS_EmptySet
  <2> QED
    BY <1>1, <2>2, <2>3
<1>3. \A a, b \in S : a < b => Place(a) < Place(b)
  BY PlaceGrows
<1>4. place \in Injection(S, 1..n)
  <2>1. place \in [S -> 1..n]
    BY <1>2
  <2>2. ASSUME NEW a \in S, NEW b \in S, place[a] = place[b] PROVE a = b
    <3>1. Place(a) = Place(b) /\ Place(a) \in Int /\ Place(b) \in Int
      BY <1>1, <1>2, <2>2
    <3>2. a \in Nat /\ b \in Nat /\ ~(a < b) /\ ~(b < a)
      BY <1>3, <3>1
    <3> QED
      BY <3>2
  <2> QED
    BY <2>1, <2>2, Fun_IsInj
<1>5. IsFiniteSet(1..n) /\ Cardinality(1..n) = n
  BY <1>1, FS_Interval
<1>6. place \in Surjection(S, 1..n)
  BY <1>4, <1>5, FS_Injection
<1>7. \A i \in 1..n : \E b \in S : Place(b) = i
  <2>1. \A i \in 1..n : \E b \in S : place[b] = i
    <3> HIDE DEF place, n, Place
    <3> QED
      BY <1>6, Fun_SurjectionProperties
  <2> QED
    BY <2>1
<1>8. InOrder(S) = [i \in 1..n |-> CHOOSE b \in S : Place(b) = i]
  BY DEF InOrder
<1>9. \A i \in 1..n : InOrder(S)[i] \in S /\ Place(InOrder(S)[i]) = i
  BY <1>7, <1>8
<1> HIDE DEF Place
<1>10. InOrder(S) \in [1..n -> S]
  BY <1>8, <1>9
<1>11. InOrder(S) \in Seq(S) /\ Len(InOrder(S)) = n /\ DOMAIN InOrder(S) = 1..n
  BY <1>1, <1>10, SeqDef
<1>12. \A b \in S : InOrder(S)[Place(b)] = b
  <2> TAKE b \in S
  <2>1. Place(b) \in 1..n /\ Place(b) \in Int
    BY <1>1, <1>2
  <2> DEFINE a == InOrder(S)[Place(b)]
  <2>2. a \in S /\ Place(a) = Place(b)
    BY <1>9, <2>1
  <2> HIDE DEF a
  <2>3. a \in Nat /\ b \in Nat
    BY <2>2
  <2>4. ~(a < b) /\ ~(b < a)
    BY <1>3, <2>1, <2>2
  <2>5. a = b
    BY <2>3, <2>4
  <2> QED
    BY <2>5 DEF a
<1>13. Range(InOrder(S)) = S
  BY <1>2, <1>9, <1>11, <1>12 DEF Range
<1>14. Increasing(InOrder(S))
  <2> SUFFICES ASSUME NEW i \in 1..n, NEW j \in 1..n, i < j
               PROVE  InOrder(S)[i] < InOrder(S)[j]
    BY <1>11 DEF Increasing
  <2> DEFINE a == InOrder(S)[i]
             b == InOrder(S)[j]
  <2>1. a \in S /\ b \in S /\ Place(a) = i /\ Place(b) = j
    BY <1>9
  <2> HIDE DEF a, b
  <2>2. a \in Nat /\ b \in Nat /\ i \in Nat /\ j \in Nat
    BY <1>1, <2>1
  <2>3. a # b
    BY <2>1, <2>2
  <2>4. ~(b < a)
    BY <1>3, <2>1, <2>2
  <2> QED
    BY <2>2, <2>3, <2>4 DEF a, b
<1> QED
  BY <1>11, <1>13, <1>14

\* Smallest takes the first books of a set, and all of them if they fit on a page.
LEMMA SmallestComesFirst ==
  ASSUME NEW S \in SUBSET Nat, IsFiniteSet(S)
  PROVE  /\ Smallest(S) \in SUBSET S /\ IsFiniteSet(Smallest(S))
         /\ \A b \in Smallest(S), c \in S : c < b => c \in Smallest(S)
         /\ Cardinality(S) <= Limit => Smallest(S) = S
<1> DEFINE Below(b) == {c \in S : c < b}
<1>1. \A b \in S : /\ Below(b) \in SUBSET S /\ b \notin Below(b)
                   /\ IsFiniteSet(Below(b)) /\ Cardinality(Below(b)) \in Nat
  <2> TAKE b \in S
  <2>1. Below(b) \in SUBSET S /\ b \notin Below(b)
    OBVIOUS
  <2> QED
    BY <2>1, FS_Subset, FS_CardinalityType
<1>2. Smallest(S) \in SUBSET S
  BY DEF Smallest
<1>3. ASSUME NEW b \in Smallest(S), NEW c \in S, c < b PROVE c \in Smallest(S)
  <2>1. b \in S /\ Cardinality(Below(b)) < Limit
    BY DEF Smallest
  <2>2. Below(c) \in SUBSET Below(b)
    <3>1. b \in Nat /\ c \in Nat /\ \A d \in S : d \in Nat /\ (d < c => d < b)
      BY <1>3, <2>1
    <3> QED
      BY <3>1
  <2>3. Cardinality(Below(c)) <= Cardinality(Below(b))
    BY <1>1, <2>1, <2>2, FS_Subset
  <2>4. Cardinality(Below(c)) < Limit
    BY <1>1, <2>1, <2>3, Parameters
  <2> QED
    BY <2>4 DEF Smallest
<1>4. ASSUME Cardinality(S) <= Limit, NEW b \in S PROVE b \in Smallest(S)
  <2>1. Cardinality(Below(b)) <= Cardinality(S) /\ Cardinality(Below(b)) # Cardinality(S)
    BY <1>1, FS_Subset
  <2>2. Cardinality(Below(b)) < Limit
    BY <1>1, <1>4, <2>1, FS_CardinalityType, Parameters
  <2> QED
    BY <2>2 DEF Smallest
<1> QED
  BY <1>2, <1>3, <1>4, FS_Subset

\* A longer increasing sequence from one that ends below another.
LEMMA IncreasingJoins ==
  ASSUME NEW s \in Seq(Nat), NEW t \in Seq(Nat), Increasing(s), Increasing(t),
         \A i \in 1..Len(s), j \in 1..Len(t) : s[i] < t[j]
  PROVE  Increasing(s \o t)
<1>1. /\ s \o t \in Seq(Nat) /\ Len(s \o t) = Len(s) + Len(t)
      /\ \A i \in 1..Len(s) + Len(t) :
           (s \o t)[i] = IF i <= Len(s) THEN s[i] ELSE t[i - Len(s)]
  BY ConcatProperties
<1>2. DOMAIN (s \o t) = 1..Len(s) + Len(t) /\ DOMAIN s = 1..Len(s) /\ DOMAIN t = 1..Len(t)
  BY <1>1, LenProperties
<1>3. Len(s) \in Nat /\ Len(t) \in Nat
  BY LenProperties
<1> SUFFICES ASSUME NEW i \in 1..Len(s) + Len(t), NEW j \in 1..Len(s) + Len(t), i < j
             PROVE  (s \o t)[i] < (s \o t)[j]
  BY <1>2 DEF Increasing
<1>4. CASE j <= Len(s)
  <2>1. i \in 1..Len(s) /\ j \in 1..Len(s) /\ (s \o t)[i] = s[i] /\ (s \o t)[j] = s[j]
    BY <1>1, <1>3, <1>4
  <2> QED
    BY <1>2, <2>1 DEF Increasing
<1>5. CASE i <= Len(s) /\ ~(j <= Len(s))
  <2>1. /\ i \in 1..Len(s) /\ j - Len(s) \in 1..Len(t)
        /\ (s \o t)[i] = s[i] /\ (s \o t)[j] = t[j - Len(s)]
    BY <1>1, <1>3, <1>5
  <2> QED
    BY <2>1
<1>6. CASE ~(i <= Len(s))
  <2>1. /\ i - Len(s) \in 1..Len(t) /\ j - Len(s) \in 1..Len(t) /\ i - Len(s) < j - Len(s)
        /\ (s \o t)[i] = t[i - Len(s)] /\ (s \o t)[j] = t[j - Len(s)]
    BY <1>1, <1>3, <1>6
  <2> QED
    BY <1>2, <2>1 DEF Increasing
<1> QED
  BY <1>3, <1>4, <1>5, <1>6

-----------------------------------------------------------------------------
(***************************************************************************)
(* How many books and how many reservations there are.                     *)
(***************************************************************************)

\* The books of the directory and those committed with the code are different ones.
LEMMA StoredAreCounted ==
  ASSUME FilesAgree
  PROVE  /\ IsFiniteSet(Stored) /\ Cardinality(Stored) \in Nat
         /\ Cardinality(published) \in Nat /\ Cardinality(Fixtures) \in Nat
         /\ Cardinality(Stored) = Cardinality(published) + Cardinality(Fixtures)
<1>1. IsFiniteSet(published) /\ IsFiniteSet(Fixtures) /\ published \cap Fixtures = {}
  BY Parameters DEF FilesAgree
<1>2. Cardinality(published) \in Nat /\ Cardinality(Fixtures) \in Nat
  BY <1>1, FS_CardinalityType
<1>3. /\ IsFiniteSet(Stored)
      /\ Cardinality(Stored) =
           Cardinality(published) + Cardinality(Fixtures) - Cardinality(published \cap Fixtures)
  BY <1>1, FS_Union DEF Stored
<1>4. Cardinality(published \cap Fixtures) = 0
  BY <1>1, FS_EmptySet
<1> QED
  BY <1>2, <1>3, <1>4

LEMMA TemporariesAreCounted ==
  ASSUME FilesAgree
  PROVE  Cardinality(temporaries) \in Nat /\ Entries \in Nat /\ Entries >= Cardinality(published)
<1>1. IsFiniteSet(temporaries)
  BY Parameters, FS_Subset DEF FilesAgree
<1>2. Cardinality(temporaries) \in Nat
  BY <1>1, FS_CardinalityType
<1>3. Cardinality(published) \in Nat /\ left \in Nat
  BY StoredAreCounted, Parameters DEF FilesAgree
<1> QED
  BY <1>2, <1>3 DEF Entries

LEMMA ReservingIsCounted ==
  /\ IsFiniteSet(Reserving) /\ Cardinality(Reserving) \in Nat
  /\ Cardinality(Processes) \in Nat /\ Cardinality(Reserving) <= Cardinality(Processes)
<1>1. Reserving \in SUBSET Processes
  BY DEF Reserving
<1>2. IsFiniteSet(Reserving) /\ Cardinality(Reserving) <= Cardinality(Processes)
  BY <1>1, Parameters, FS_Subset
<1> QED
  BY <1>2, Parameters, FS_CardinalityType

\* Whoever gives up, or was not under way, takes no room.
LEMMA RoomRemains ==
  ASSUME Room, FilesAgree, published' = published, Reserving' \subseteq Reserving
  PROVE  Room'
<1>1. Stored' = Stored
  BY DEF Stored
<1>2. Cardinality(Reserving') <= Cardinality(Reserving) /\ IsFiniteSet(Reserving')
  BY ReservingIsCounted, FS_Subset
<1>3. Cardinality(Reserving') \in Nat
  BY <1>2, FS_CardinalityType
<1> QED
  BY <1>1, <1>2, <1>3, StoredAreCounted, ReservingIsCounted, Parameters DEF Room

-----------------------------------------------------------------------------
(***************************************************************************)
(* Each action of a process keeps its part of the invariant.               *)
(***************************************************************************)
ProcessInv == ProcessesAgree /\ FilesAgree /\ Room

\* A process that comes to stand at a step where it has no temporary file and no
\* room, and whose temporary file is gone.
LEMMA StepAside ==
  ASSUME ProcessInv, NEW p \in Processes, NEW entry, published' = published,
         entry \in [pc : {"idle", "catalog", "capacity"}, book : Books \cup {0}],
         entry.pc # "idle" => entry.book \in Books,
         entry.pc = "capacity" => entry.book \notin Fixtures,
         proc' = [proc EXCEPT ![p] = entry], temporaries' = temporaries \ {p}
  PROVE  ProcessesAgree' /\ Room'
<1>1. ProcessesAgree'
  BY DEF ProcessInv, ProcessesAgree, Publishing
<1>2. Reserving' \subseteq Reserving
  BY DEF ProcessInv, ProcessesAgree, Reserving
<1> QED
  BY <1>1, <1>2, RoomRemains DEF ProcessInv

LEMMA GenerateKeeps ==
  ASSUME ProcessInv, NEW p \in Processes, NEW b \in Books, Generate(p, b)
  PROVE  ProcessInv'
<1> DEFINE entry == [pc |-> "catalog", book |-> b]
<1>1. proc' = [proc EXCEPT ![p] = entry] /\ proc[p].pc = "idle"
  BY DEF Generate
<1>2. /\ entry \in [pc : {"idle", "catalog", "capacity"}, book : Books \cup {0}]
      /\ entry.pc = "catalog" /\ entry.book \in Books
  OBVIOUS
<1>3. p \notin temporaries
  BY <1>1 DEF ProcessInv, ProcessesAgree, Publishing
<1>4. temporaries' = temporaries \ {p} /\ published' = published
  BY <1>3 DEF Generate
<1> HIDE DEF entry
<1>5. ProcessesAgree' /\ Room'
  BY <1>1, <1>2, <1>4, StepAside
<1>6. FilesAgree'
  BY DEF ProcessInv, FilesAgree, Generate
<1> QED
  BY <1>5, <1>6 DEF ProcessInv

\* A process that answers, whatever it has done.
LEMMA AnswerKeeps ==
  ASSUME ProcessInv, NEW p \in Processes, Answer(p), published' = published,
         temporaries' = temporaries \ {p}
  PROVE  ProcessesAgree' /\ Room'
<1>1. proc' = [proc EXCEPT ![p] = Idle]
  BY DEF Answer
<1>2. /\ Idle \in [pc : {"idle", "catalog", "capacity"}, book : Books \cup {0}]
      /\ Idle.pc = "idle"
  BY DEF Idle
<1> QED
  BY <1>1, <1>2, StepAside

LEMMA ReadCatalogKeeps ==
  ASSUME ProcessInv, NEW p \in Processes, ReadCatalog(p)
  PROVE  ProcessInv'
<1>1. p \notin temporaries /\ proc[p].pc = "catalog" /\ proc[p].book \in Books
  BY DEF ProcessInv, ProcessesAgree, Publishing, ReadCatalog
<1>2. temporaries' = temporaries \ {p} /\ published' = published
  BY <1>1 DEF ReadCatalog
<1>3. ProcessesAgree' /\ Room'
  <2>1. CASE Answer(p)
    BY <1>2, <2>1, AnswerKeeps
  <2>2. CASE Goto(p, "capacity") /\ proc[p].book \notin Stored
    <3> DEFINE entry == [proc[p] EXCEPT !.pc = "capacity"]
    <3>1. proc[p] \in [pc : {"idle", "catalog", "capacity", "create"} \cup Publishing,
                       book : Books \cup {0}]
      BY DEF ProcessInv, ProcessesAgree
    <3>2. /\ entry \in [pc : {"idle", "catalog", "capacity"}, book : Books \cup {0}]
          /\ entry.pc = "capacity" /\ entry.book = proc[p].book
      BY <3>1
    <3>3. proc' = [proc EXCEPT ![p] = entry]
      BY <2>2 DEF Goto
    <3>4. entry.book \in Books \ Fixtures
      BY <1>1, <2>2, <3>2 DEF Stored
    <3> HIDE DEF entry
    <3> QED
      BY <1>2, <3>2, <3>3, <3>4, StepAside
  <2> QED
    BY <2>1, <2>2 DEF ReadCatalog
<1>4. FilesAgree'
  BY DEF ProcessInv, FilesAgree, ReadCatalog
<1> QED
  BY <1>3, <1>4 DEF ProcessInv

\* Who finds the catalog below its limit takes room: at most every process has some.
LEMMA CheckCapacityKeeps ==
  ASSUME ProcessInv, NEW p \in Processes, CheckCapacity(p)
  PROVE  ProcessInv'
<1>1. p \notin temporaries /\ proc[p].pc = "capacity" /\ proc[p].book \in Books \ Fixtures
  BY DEF ProcessInv, ProcessesAgree, Publishing, CheckCapacity
<1>2. temporaries' = temporaries /\ published' = published
  BY DEF CheckCapacity
<1>3. FilesAgree'
  BY DEF ProcessInv, FilesAgree, CheckCapacity
<1>4. ProcessesAgree' /\ Room'
  <2>1. CASE Answer(p)
    BY <1>1, <1>2, <2>1, AnswerKeeps
  <2>2. CASE Goto(p, "create") /\ ~(Entries + Cardinality(Fixtures) >= Capacity)
    <3>1. ProcessesAgree'
      BY <1>1, <1>2, <2>2 DEF ProcessInv, ProcessesAgree, Goto, Publishing
    <3>2. Stored' = Stored
      BY <1>2 DEF Stored
    <3>3. Cardinality(Stored) < Capacity
      BY <2>2, StoredAreCounted, TemporariesAreCounted, Parameters DEF ProcessInv
    <3>4. Reserving' \in SUBSET Processes
      BY DEF Reserving
    <3>5. IsFiniteSet(Reserving') /\ Cardinality(Reserving') <= Cardinality(Processes)
      BY <3>4, Parameters, FS_Subset
    <3>6. Cardinality(Reserving') \in Nat /\ Cardinality(Processes) \in Nat
      BY <3>5, Parameters, FS_CardinalityType
    <3>7. Room'
      BY <3>2, <3>3, <3>5, <3>6, StoredAreCounted, Parameters DEF ProcessInv, Room
    <3> QED
      BY <3>1, <3>7
  <2> QED
    BY <2>1, <2>2 DEF CheckCapacity
<1> QED
  BY <1>3, <1>4 DEF ProcessInv

LEMMA CreateKeeps ==
  ASSUME ProcessInv, NEW p \in Processes, Create(p)
  PROVE  ProcessInv'
<1>1. p \notin temporaries /\ proc[p].pc = "create" /\ proc[p].book \in Books \ Fixtures
  BY DEF ProcessInv, ProcessesAgree, Publishing, Create
<1>2. published' = published
  BY DEF Create
<1>3. FilesAgree'
  BY Parameters DEF ProcessInv, FilesAgree, Create, Fault
<1>4. ProcessesAgree' /\ Room'
  <2>1. CASE Answer(p) /\ UNCHANGED temporaries
    BY <1>1, <1>2, <2>1, AnswerKeeps
  <2>2. CASE Goto(p, "link") /\ temporaries' = temporaries \cup {p}
    <3>1. ProcessesAgree'
      BY <1>1, <2>2 DEF ProcessInv, ProcessesAgree, Goto, Publishing
    <3>2. Reserving' \subseteq Reserving
      BY <1>1, <2>2 DEF ProcessInv, ProcessesAgree, Goto, Reserving
    <3> QED
      BY <1>2, <3>1, <3>2, RoomRemains DEF ProcessInv
  <2> QED
    BY <2>1, <2>2 DEF Create
<1> QED
  BY <1>3, <1>4 DEF ProcessInv

\* A link turns the room of its process into a book.
LEMMA LinkKeeps ==
  ASSUME ProcessInv, NEW p \in Processes, Link(p)
  PROVE  ProcessInv'
<1>1. p \in temporaries /\ proc[p].pc = "link" /\ proc[p].book \in Books \ Fixtures
  BY DEF ProcessInv, ProcessesAgree, Publishing, Link
<1>2. temporaries' = temporaries
  BY DEF Link
<1>3. CASE Goto(p, "unlink") /\ published' = published \cup {proc[p].book} /\ UNCHANGED faults
  <2>1. ProcessesAgree'
    BY <1>1, <1>2, <1>3 DEF ProcessInv, ProcessesAgree, Goto, Publishing
  <2>2. IsFiniteSet(published')
    BY <1>3, FS_AddElement DEF ProcessInv, FilesAgree
  <2>3. FilesAgree'
    BY <1>1, <1>3, <2>2 DEF ProcessInv, FilesAgree, Link
  <2>4. Stored' = Stored \cup {proc[p].book}
    BY <1>3 DEF Stored
  <2>5. Cardinality(Stored') <= Cardinality(Stored) + 1 /\ Cardinality(Stored') \in Nat
    <3>1. Cardinality(Stored') = IF proc[p].book \in Stored THEN Cardinality(Stored)
                                 ELSE Cardinality(Stored) + 1
      BY <2>4, StoredAreCounted, FS_AddElement DEF ProcessInv
    <3> QED
      BY <3>1, StoredAreCounted DEF ProcessInv
  <2>6. Reserving' = Reserving \ {p} /\ p \in Reserving
    BY <1>1, <1>3 DEF ProcessInv, ProcessesAgree, Goto, Reserving
  <2>7. Cardinality(Reserving') = Cardinality(Reserving) - 1
    BY <2>6, ReservingIsCounted, FS_RemoveElement
  <2>8. Room'
    BY <2>5, <2>7, StoredAreCounted, ReservingIsCounted, Parameters DEF ProcessInv, Room
  <2> QED
    BY <2>1, <2>3, <2>8 DEF ProcessInv
<1>4. CASE Fault /\ Goto(p, "fail") /\ UNCHANGED published
  <2>1. ProcessesAgree'
    BY <1>1, <1>2, <1>4 DEF ProcessInv, ProcessesAgree, Goto, Publishing
  <2>2. FilesAgree'
    BY <1>4, Parameters DEF ProcessInv, FilesAgree, Link, Fault
  <2>3. Reserving' \subseteq Reserving
    BY <1>1, <1>4 DEF ProcessInv, ProcessesAgree, Goto, Reserving
  <2> QED
    BY <1>4, <2>1, <2>2, <2>3, RoomRemains DEF ProcessInv
<1> QED
  BY <1>3, <1>4 DEF Link

LEMMA UnlinkKeeps ==
  ASSUME ProcessInv, NEW p \in Processes, Unlink(p)
  PROVE  ProcessInv'
<1>1. ProcessesAgree' /\ Room'
  BY AnswerKeeps DEF Unlink
<1>2. FilesAgree'
  <2>1. /\ published' = published /\ temporaries' = temporaries \ {p} /\ crashes' = crashes
        /\ \/ left' = left /\ faults' = faults
           \/ left' = left + 1 /\ faults < MaxFaults /\ faults' = faults + 1
    BY DEF Unlink, Fault
  <2> QED
    BY <2>1, Parameters DEF ProcessInv, FilesAgree
<1> QED
  BY <1>1, <1>2 DEF ProcessInv

LEMMA CrashKeeps ==
  ASSUME ProcessInv, NEW p \in Processes, Crash(p)
  PROVE  ProcessInv'
<1>1. ProcessesAgree' /\ Room'
  BY AnswerKeeps DEF Crash
<1>2. FilesAgree'
  BY Parameters DEF ProcessInv, FilesAgree, Crash
<1> QED
  BY <1>1, <1>2 DEF ProcessInv

-----------------------------------------------------------------------------
(***************************************************************************)
(* A listing, while books are generated and from page to page.             *)
(***************************************************************************)

\* More books do not make a listing wrong.
LEMMA ListingKept ==
  ASSUME ListingAgrees, listing' = listing, published \subseteq published'
  PROVE  ListingAgrees'
<1>1. Matching \subseteq Matching'
  BY DEF Matching, Stored
<1>2. ListingBehind => ListingBehind'
  BY <1>1 DEF ListingBehind
<1> QED
  BY <1>2 DEF ListingAgrees

LEMMA BeginKeeps ==
  ASSUME FilesAgree, ListingAgrees, Begin
  PROVE  ListingAgrees'
<1>1. PICK s \in Regimes :
        listing' = [NoListing EXCEPT !.state = "paging", !.regime = s, !.before = Stored \cap s]
  BY DEF Begin
<1>2. /\ listing'.state = "paging" /\ listing'.regime = s /\ listing'.after = 0
      /\ listing'.got = <<>> /\ listing'.before = Stored \cap s
      /\ listing' = [state |-> "paging", regime |-> s, after |-> 0, got |-> <<>>,
                     before |-> Stored \cap s]
  BY <1>1 DEF NoListing
<1>3. Stored' = Stored
  BY DEF Begin, Stored
<1>4. Stored \cap s \subseteq Books \cap (Nat \ {0})
  BY Parameters DEF Stored, FilesAgree
<1>5. <<>> \in Seq(Books) /\ DOMAIN <<>> = {} /\ Range(<<>>) = {}
  BY EmptySeq, LenProperties DEF Range
<1>6. ListingBehind'
  BY <1>2, <1>3, <1>4, <1>5 DEF ListingBehind, Increasing, Matching
<1>7. listing' \in [state : {"none", "paging", "done", "refused"}, regime : Regimes \cup {{}},
                    after : Nat, got : Seq(Books), before : SUBSET Books]
  BY <1>2, <1>4, <1>5
<1> QED
  BY <1>2, <1>6, <1>7 DEF ListingAgrees

\* The cursor of a listing names a book that is still there.
LEMMA CursorIsKnown ==
  ASSUME ListingBehind
  PROVE  CursorKnown
<1>1. CASE listing.got = <<>>
  BY <1>1 DEF ListingBehind, CursorKnown
<1>2. CASE listing.got # <<>>
  <2>1. Len(listing.got) \in 1..Len(listing.got) /\ DOMAIN listing.got = 1..Len(listing.got)
    BY <1>2, EmptySeq, LenProperties DEF ListingBehind
  <2>2. listing.after \in Range(listing.got)
    BY <1>2, <2>1 DEF ListingBehind, Range
  <2> QED
    BY <2>2 DEF ListingBehind, CursorKnown
<1> QED
  BY <1>1, <1>2

\* What is left to list, and the next page of it.
LEMMA PageFollows ==
  ASSUME FilesAgree, ListingAgrees, ListingBehind
  PROVE  /\ Matching \in SUBSET Books /\ Matching \in SUBSET Nat /\ IsFiniteSet(Matching)
         /\ Remaining \in SUBSET Matching /\ IsFiniteSet(Remaining)
         /\ Smallest(Remaining) \in SUBSET Remaining
         /\ \A b \in Smallest(Remaining), c \in Remaining : c < b => c \in Smallest(Remaining)
         /\ Cardinality(Remaining) <= Limit => Smallest(Remaining) = Remaining
         /\ Selected \in Seq(Books) /\ Increasing(Selected)
         /\ Range(Selected) = Smallest(Remaining)
<1>1. Matching \in SUBSET Books /\ Matching \in SUBSET Nat
  BY Parameters DEF FilesAgree, Matching, Stored
<1>2. IsFiniteSet(Matching)
  <2>1. Matching \in SUBSET Stored
    BY DEF Matching
  <2> QED
    BY <2>1, StoredAreCounted, FS_Subset
<1>3. Remaining \in SUBSET Matching
  BY DEF Remaining
<1>4. IsFiniteSet(Remaining) /\ Remaining \in SUBSET Nat
  BY <1>1, <1>2, <1>3, FS_Subset
<1> DEFINE first == Smallest(Remaining)
<1>5. /\ first \in SUBSET Remaining /\ IsFiniteSet(first)
      /\ \A b \in first, c \in Remaining : c < b => c \in first
      /\ Cardinality(Remaining) <= Limit => first = Remaining
  BY <1>4, SmallestComesFirst
<1>6. first \in SUBSET Nat
  BY <1>4, <1>5
<1> HIDE DEF first
<1>7. InOrder(first) \in Seq(first) /\ Increasing(InOrder(first)) /\ Range(InOrder(first)) = first
  BY <1>5, <1>6, InOrderLists
<1>8. first \subseteq Books
  BY <1>1, <1>3, <1>5
<1>9. InOrder(first) \in Seq(Books)
  BY <1>7, <1>8, SeqMonotonic
<1> QED
  BY <1>1, <1>2, <1>3, <1>4, <1>5, <1>7, <1>9 DEF first, Selected

\* A page brings the client from its cursor to the last book of the page.
LEMMA PageKeeps ==
  ASSUME FilesAgree, ListingAgrees, listing.state = "paging", UNCHANGED published,
         listing' = [listing EXCEPT
            !.got = @ \o Selected,
            !.after = IF Selected = <<>> THEN @ ELSE Selected[Len(Selected)],
            !.state = IF Cardinality(Remaining) > Limit THEN "paging" ELSE "done"]
  PROVE  ListingAgrees'
<1> DEFINE got == listing.got
           n == Len(got)
           m == Len(Selected)
           R == Remaining
           F == Smallest(Remaining)
<1>1. ListingBehind
  BY DEF ListingAgrees
<1>2. /\ Matching \in SUBSET Books /\ Matching \in SUBSET Nat /\ R \in SUBSET Matching
      /\ IsFiniteSet(R) /\ F \in SUBSET R
      /\ \A b \in F, c \in R : c < b => c \in F
      /\ Cardinality(R) <= Limit => F = R
      /\ Selected \in Seq(Books) /\ Increasing(Selected) /\ Range(Selected) = F
  BY <1>1, PageFollows
<1>3. /\ got \in Seq(Books) /\ Increasing(got) /\ Range(got) \subseteq Matching
      /\ listing.after = IF got = <<>> THEN 0 ELSE got[n]
      /\ listing.before \subseteq Matching
      /\ \A b \in listing.before : b <= listing.after => b \in Range(got)
      /\ listing.after \in Nat
  BY <1>1 DEF ListingBehind, ListingAgrees
<1>4. /\ listing'.got = got \o Selected
      /\ listing'.after = IF Selected = <<>> THEN listing.after ELSE Selected[m]
      /\ listing'.state = IF Cardinality(R) > Limit THEN "paging" ELSE "done"
      /\ listing'.regime = listing.regime /\ listing'.before = listing.before
      /\ DOMAIN listing' = DOMAIN listing
  BY DEF ListingAgrees
<1>5. /\ n \in Nat /\ DOMAIN got = 1..n /\ m \in Nat /\ DOMAIN Selected = 1..m
      /\ got \in Seq(Nat) /\ Selected \in Seq(Nat)
      /\ (got = <<>> <=> n = 0) /\ (Selected = <<>> <=> m = 0)
  <2>1. Books \subseteq Nat
    BY Parameters
  <2> QED
    BY <1>2, <1>3, <2>1, LenProperties, SeqMonotonic, EmptySeq
<1>6. /\ got \o Selected \in Seq(Books) /\ Len(got \o Selected) = n + m
      /\ \A i \in 1..n + m : (got \o Selected)[i] = IF i <= n THEN got[i] ELSE Selected[i - n]
      /\ Range(got \o Selected) = Range(got) \cup F
  BY <1>2, <1>3, ConcatProperties, RangeConcatenation
<1>7. \A i \in 1..m : Selected[i] \in F /\ Selected[i] > listing.after /\ Selected[i] \in Nat
  <2> TAKE i \in 1..m
  <2>1. Selected[i] \in F
    BY <1>2, <1>5 DEF Range
  <2>2. Selected[i] \in R /\ Selected[i] \in Nat
    BY <1>2, <2>1
  <2> QED
    BY <2>1, <2>2 DEF Remaining
<1>8. \A i \in 1..n : got[i] \in Nat /\ got[i] <= listing.after
  <2> TAKE i \in 1..n
  <2>1. got[i] \in Nat /\ got[n] \in Nat /\ n \in 1..n /\ got # <<>>
    BY <1>5, ElementOfSeq
  <2>2. i = n \/ i < n
    BY <1>5
  <2>3. i = n \/ got[i] < got[n]
    BY <1>3, <1>5, <2>1, <2>2 DEF Increasing
  <2>4. listing.after = got[n]
    BY <1>3, <2>1
  <2> QED
    BY <2>1, <2>3, <2>4
<1>9. Increasing(got \o Selected)
  <2>1. \A i \in 1..n, j \in 1..m : got[i] < Selected[j]
    BY <1>3, <1>7, <1>8
  <2> QED
    BY <1>2, <1>3, <1>5, <2>1, IncreasingJoins
<1>10. listing'.after = IF got \o Selected = <<>> THEN 0
                        ELSE (got \o Selected)[Len(got \o Selected)]
  <2>1. got \o Selected = <<>> <=> n + m = 0
    BY <1>5, <1>6, EmptySeq
  <2>2. CASE m = 0
    BY <1>3, <1>4, <1>5, <1>6, <2>1, <2>2
  <2>3. CASE m # 0
    <3>1. n + m \in 1..n + m /\ ~(n + m <= n) /\ (n + m) - n = m
      BY <1>5, <2>3
    <3> QED
      BY <1>4, <1>5, <1>6, <2>1, <2>3, <3>1
  <2> QED
    BY <2>2, <2>3
<1>11. \A b \in listing.before : b <= listing'.after => b \in Range(got) \cup F
  <2> SUFFICES ASSUME NEW b \in listing.before, b <= listing'.after,
                      ~(b <= listing.after)
               PROVE  b \in F
    BY <1>3
  <2>1. b \in Nat /\ b \in Matching
    BY <1>2, <1>3
  <2>2. b \in R
    BY <1>3, <2>1 DEF Remaining
  <2>3. m # 0 /\ m \in 1..m /\ listing'.after = Selected[m]
    BY <1>4, <1>5
  <2>4. Selected[m] \in F /\ Selected[m] \in Nat
    BY <1>7, <2>3
  <2>5. b = Selected[m] \/ b < Selected[m]
    BY <2>1, <2>3, <2>4
  <2> QED
    BY <1>2, <2>2, <2>4, <2>5
<1>12. Matching' = Matching
  BY <1>4 DEF Matching, Stored
<1>13. ListingBehind'
  BY <1>2, <1>3, <1>4, <1>6, <1>9, <1>10, <1>11, <1>12 DEF ListingBehind
<1>14. listing'.state = "done" => listing'.before \subseteq Range(listing'.got)
  <2> SUFFICES ASSUME Cardinality(R) <= Limit, NEW b \in listing.before
               PROVE  b \in Range(got) \cup F
    BY <1>2, <1>4, <1>6, Parameters, FS_CardinalityType
  <2>1. b \in Nat /\ b \in Matching
    BY <1>2, <1>3
  <2>2. CASE b <= listing.after
    BY <1>3, <2>2
  <2>3. CASE ~(b <= listing.after)
    BY <1>2, <1>3, <2>1, <2>3 DEF Remaining
  <2> QED
    BY <2>2, <2>3
<1>15. listing'.after \in Nat
  BY <1>3, <1>4, <1>5, <1>7
<1>16. listing' \in [state : {"none", "paging", "done", "refused"}, regime : Regimes \cup {{}},
                     after : Nat, got : Seq(Books), before : SUBSET Books]
  <2>1. got \o Selected \in Seq(Books)
    BY <1>6
  <2>2. (IF Selected = <<>> THEN listing.after ELSE Selected[m]) \in Nat
    BY <1>4, <1>15
  <2> HIDE DEF got, m
  <2>3. (IF Cardinality(R) > Limit THEN "paging" ELSE "done") \in {"paging", "done"}
    OBVIOUS
  <2> QED
    BY <2>1, <2>2, <2>3 DEF ListingAgrees, got, m
<1> QED
  BY <1>13, <1>14, <1>16 DEF ListingAgrees

LEMMA ListPageKeeps ==
  ASSUME FilesAgree, ListingAgrees, NEW p \in Processes, ListPage(p)
  PROVE  ListingAgrees'
<1>1. listing.state = "paging" /\ UNCHANGED published
  BY DEF ListPage
<1>2. ListingBehind /\ CursorKnown
  BY <1>1, CursorIsKnown DEF ListingAgrees
<1>3. CASE listing' = [listing EXCEPT !.state = "refused"]
  BY <1>3 DEF ListingAgrees
<1>4. CASE listing' = [listing EXCEPT
            !.got = @ \o Selected,
            !.after = IF Selected = <<>> THEN @ ELSE Selected[Len(Selected)],
            !.state = IF Cardinality(Remaining) > Limit THEN "paging" ELSE "done"]
  BY <1>1, <1>4, PageKeeps
<1> QED
  BY <1>2, <1>3, <1>4 DEF ListPage

-----------------------------------------------------------------------------
LEMMA CatalogInvInit == Init => CatalogInv
<1> SUFFICES ASSUME Init PROVE CatalogInv
  OBVIOUS
<1>1. ProcessesAgree
  BY DEF Init, ProcessesAgree, Idle, Publishing
<1>2. FilesAgree
  BY FS_EmptySet, Parameters DEF Init, FilesAgree
<1>3. Room
  <2>1. Stored = Fixtures /\ Reserving = {}
    BY DEF Init, Stored, Reserving, Idle
  <2>2. Cardinality(Reserving) = 0 /\ Cardinality(Processes) \in Nat
    BY <2>1, FS_EmptySet, ReservingIsCounted
  <2>3. Cardinality(Fixtures) \in Nat /\ Cardinality(Fixtures) < Capacity
    BY Parameters, FS_CardinalityType
  <2> QED
    BY <2>1, <2>2, <2>3, Parameters DEF Room
<1>4. ListingAgrees
  BY EmptySeq DEF Init, ListingAgrees, NoListing
<1> QED
  BY <1>1, <1>2, <1>3, <1>4 DEF CatalogInv

LEMMA CatalogInvStep == CatalogInv /\ [Next]_vars => CatalogInv'
<1> SUFFICES ASSUME CatalogInv, [Next]_vars PROVE CatalogInv'
  OBVIOUS
<1>1. ProcessInv /\ ListingAgrees /\ FilesAgree
  BY DEF CatalogInv, ProcessInv
<1>2. ASSUME UNCHANGED <<published, temporaries, left, proc, crashes, faults>>
      PROVE  ProcessInv'
  BY <1>1, <1>2 DEF ProcessInv, ProcessesAgree, FilesAgree, Room, Stored, Reserving
<1>3. CASE Begin
  <2>1. ListingAgrees'
    BY <1>1, <1>3, BeginKeeps
  <2> QED
    BY <1>2, <1>3, <2>1 DEF Begin, CatalogInv, ProcessInv
<1>4. ASSUME NEW p \in Processes, ListPage(p) PROVE CatalogInv'
  <2>1. ListingAgrees'
    BY <1>1, <1>4, ListPageKeeps
  <2> QED
    BY <1>2, <1>4, <2>1 DEF ListPage, CatalogInv, ProcessInv
<1>5. ASSUME NEW p \in Processes,
             \/ \E b \in Books : Generate(p, b)
             \/ ReadCatalog(p) \/ CheckCapacity(p) \/ Create(p) \/ Link(p) \/ Unlink(p)
             \/ Crash(p)
      PROVE  CatalogInv'
  <2>1. ProcessInv'
    BY <1>1, <1>5, GenerateKeeps, ReadCatalogKeeps, CheckCapacityKeeps, CreateKeeps, LinkKeeps,
       UnlinkKeeps, CrashKeeps
  <2>2. listing' = listing /\ published \subseteq published'
    BY <1>5 DEF Generate, ReadCatalog, CheckCapacity, Create, Link, Unlink, Crash
  <2>3. ListingAgrees'
    BY <1>1, <2>2, ListingKept
  <2> QED
    BY <2>1, <2>3 DEF CatalogInv, ProcessInv
<1>6. CASE UNCHANGED vars
  BY <1>1, <1>2, <1>6, ListingKept DEF vars, CatalogInv, ProcessInv
<1> QED
  BY <1>3, <1>4, <1>5, <1>6 DEF Next

LEMMA CatalogInvAlways == Spec => []CatalogInv
<1> QED
  BY CatalogInvInit, CatalogInvStep, PTL DEF Spec

\* The states are of the kinds the comments of the variables say, and no process is
\* ever about to publish a committed book again (OrderBookService.generate).
THEOREM CatalogTypes == Spec => []TypeOK
<1>1. CatalogInv => TypeOK
  BY DEF CatalogInv, ProcessesAgree, FilesAgree, ListingAgrees, Publishing, TypeOK
<1> QED
  BY <1>1, CatalogInvAlways, PTL

\* However many processes publish and whichever of them die: the catalog is refused
\* only for the reasons the code means, and it exceeds its limit by less than there
\* are processes (OrderBookService.generate and _runtime_paths).
THEOREM RefusalIsBounded == Spec => []RefusedForKnownReasons
<1>1. ASSUME CatalogInv PROVE RefusedForKnownReasons
  <2>1. FilesAgree /\ ProcessesAgree /\ Room
    BY <1>1 DEF CatalogInv
  <2>2. Cardinality(Stored) < Capacity + Cardinality(Processes)
    BY <2>1, StoredAreCounted, ReservingIsCounted, Parameters DEF Room
  <2>3. ASSUME temporaries # {} PROVE \E p \in Processes : proc[p].pc \in Publishing
    BY <2>1, <2>3 DEF FilesAgree, ProcessesAgree
  <2>4. ASSUME temporaries = {}, left = 0, Entries + Cardinality(Fixtures) > Capacity
        PROVE  Cardinality(Stored) > Capacity
    <3>1. Entries = Cardinality(published)
      BY <2>1, <2>4, StoredAreCounted, FS_EmptySet DEF Entries
    <3> QED
      BY <2>1, <2>4, <3>1, StoredAreCounted
  <2>5. left # 0 => left > 0
    BY <2>1 DEF FilesAgree
  <2> QED
    BY <2>2, <2>3, <2>4, <2>5 DEF RefusedForKnownReasons, Refused, Publishing
<1> QED
  BY <1>1, CatalogInvAlways, PTL

\* A listing that is read page by page while books are published misses none of
\* those there were, repeats none, and is never told that its own cursor is unknown
\* (OrderBookService.list_books).
THEOREM ListingsAreExact == Spec => []ListingIsExact
<1>1. CatalogInv => ListingIsExact
  BY DEF CatalogInv, ListingAgrees, ListingBehind, ListingIsExact, Increasing
<1> QED
  BY <1>1, CatalogInvAlways, PTL
=============================================================================
