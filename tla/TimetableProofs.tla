--------------------------- MODULE TimetableProofs ---------------------------
(* Proofs about Timetable: for any courses, plans, times and number of       *)
(* requests, over any interleaving of edits, imports and publications.       *)
EXTENDS Timetable, SequenceTheorems, FiniteSetTheorems, WellFoundedInduction, TLAPS

-----------------------------------------------------------------------------
(* Finite sets *)

LEMMA LeastNat ==
  ASSUME NEW T, T \subseteq Nat, T # {}
  PROVE  \E x \in T : \A y \in T : x <= y
<1>1. PICK x \in T : \A y \in T : ~(<<y, x>> \in OpToRel(<, Nat))
  BY NatLessThanWellFounded, WFMin
<1>2. \A y \in T : ~(y < x)
  BY <1>1 DEF OpToRel
<1> QED
  BY <1>2

\* By the subset with the fewest elements that has no greatest one.
LEMMA GreatestOfFinite ==
  ASSUME NEW S, IsFiniteSet(S), S # {}, S \subseteq Int
  PROVE  \E x \in S : \A y \in S : y <= x
<1> DEFINE Bad == {T \in SUBSET S : T # {} /\ ~\E x \in T : \A y \in T : y <= x}
<1> SUFFICES ASSUME Bad # {} PROVE FALSE
  OBVIOUS
<1>1. PICK T \in Bad : \A U \in Bad : ~(<<U, T>> \in StrictSubsetOrdering(S))
  <2>1. IsWellFoundedOn(StrictSubsetOrdering(S), SUBSET S)
    BY FS_StrictSubsetOrderingWellFounded, FS_FiniteSubsetsOfFinite
  <2>2. Bad \subseteq SUBSET S
    OBVIOUS
  <2> HIDE DEF Bad
  <2> QED
    BY <2>1, <2>2, WFMin
<1>2. PICK z \in T : TRUE
  OBVIOUS
<1>3. \A U \in Bad : U \subseteq T => U = T
  BY <1>1 DEF StrictSubsetOrdering
<1>4. CASE T = {z}
  BY <1>4
<1>5. CASE T # {z}
  <2>1. T \ {z} \notin Bad /\ T \ {z} # {} /\ T \ {z} \in SUBSET S
    BY <1>2, <1>3, <1>5
  <2>2. PICK x \in T \ {z} : \A y \in T \ {z} : y <= x
    BY <2>1
  <2>3. x \in Int /\ z \in Int /\ (z <= x \/ x <= z) /\ \A y \in T : y \in Int
    OBVIOUS
  <2> QED
    BY <2>2, <2>3
<1> QED
  BY <1>4, <1>5

\* The elements of a finite set, each once.
LEMMA SetToSeqOf ==
  ASSUME NEW S, IsFiniteSet(S)
  PROVE  /\ Cardinality(S) \in Nat
         /\ SetToSeq(S) \in [1..Cardinality(S) -> S]
         /\ \A x \in S : \E i \in 1..Cardinality(S) : SetToSeq(S)[i] = x
         /\ \A i, j \in 1..Cardinality(S) : SetToSeq(S)[i] = SetToSeq(S)[j] => i = j
<1>1. Cardinality(S) \in Nat /\ ExistsBijection(1..Cardinality(S), S)
  BY FS_CardinalityType
<1>2. \E f \in [1..Cardinality(S) -> S] : IsInjective(f)
  BY <1>1 DEF ExistsBijection, Bijection, Injection
<1>3. SetToSeq(S) \in [1..Cardinality(S) -> S] /\ IsInjective(SetToSeq(S))
  BY <1>2 DEF SetToSeq
<1>4. SetToSeq(S) \in Injection(1..Cardinality(S), S)
  BY <1>3 DEF Injection
<1>5. IsFiniteSet(1..Cardinality(S)) /\ Cardinality(1..Cardinality(S)) = Cardinality(S)
  BY <1>1, FS_Interval
<1>6. SetToSeq(S) \in Surjection(1..Cardinality(S), S)
  BY <1>4, <1>5, FS_Injection
<1> QED
  BY <1>1, <1>3, <1>6 DEF IsInjective, Surjection

LEMMA FirstByStart ==
  ASSUME NEW S, S # {}, S \subseteq Nat, NEW f \in [S -> Nat]
  PROVE  \E i \in S : \A j \in S : f[i] < f[j] \/ (f[i] = f[j] /\ i <= j)
<1> DEFINE starts == {f[i] : i \in S}
<1>1. PICK h \in starts : \A y \in starts : h <= y
  <2>1. starts # {} /\ starts \subseteq Nat
    OBVIOUS
  <2> HIDE DEF starts
  <2> QED
    BY <2>1, LeastNat
<1> DEFINE first == {i \in S : f[i] = h}
<1>2. PICK i \in first : \A y \in first : i <= y
  <2>1. first # {} /\ first \subseteq Nat
    BY <1>1
  <2> HIDE DEF first
  <2> QED
    BY <2>1, LeastNat
<1>3. ASSUME NEW j \in S
      PROVE  f[i] < f[j] \/ (f[i] = f[j] /\ i <= j)
  <2>1. h <= f[j] /\ f[i] = h /\ h \in Nat /\ f[j] \in Nat
    BY <1>1
  <2>2. f[j] = h => i <= j
    BY <1>2
  <2> QED
    BY <2>1, <2>2
<1> QED
  BY <1>3

LEMMA LastByStart ==
  ASSUME NEW S, IsFiniteSet(S), S # {}, S \subseteq Nat, NEW f \in [S -> Nat]
  PROVE  \E i \in S : \A j \in S : f[j] < f[i] \/ (f[j] = f[i] /\ j <= i)
<1> DEFINE starts == {f[i] : i \in S}
<1>1. PICK h \in starts : \A y \in starts : y <= h
  <2>1. starts # {} /\ starts \subseteq Int
    OBVIOUS
  <2>2. f \in Surjection(S, starts)
    BY DEF Surjection
  <2> HIDE DEF starts
  <2>3. IsFiniteSet(starts)
    BY <2>2, FS_Surjection
  <2> QED
    BY <2>1, <2>3, GreatestOfFinite
<1> DEFINE last == {i \in S : f[i] = h}
<1>2. PICK i \in last : \A y \in last : y <= i
  <2>1. last # {} /\ last \subseteq Int /\ last \in SUBSET S
    BY <1>1
  <2> HIDE DEF last
  <2>2. IsFiniteSet(last)
    BY <2>1, FS_Subset
  <2> QED
    BY <2>1, <2>2, GreatestOfFinite
<1>3. ASSUME NEW j \in S
      PROVE  f[j] < f[i] \/ (f[j] = f[i] /\ j <= i)
  <2>1. f[j] <= h /\ f[i] = h /\ h \in Nat /\ f[j] \in Nat
    BY <1>1
  <2>2. f[j] = h => j <= i
    BY <1>2
  <2> QED
    BY <2>1, <2>2
<1> QED
  BY <1>3

-----------------------------------------------------------------------------
(* Rows *)

LEMMA SlotFields ==
  ASSUME NEW s \in Slot
  PROVE  /\ s.course \in Courses /\ s.time \in Times /\ s.room \in Rooms \cup {NoRoom}
         /\ s.published \in BOOLEAN /\ s # Gone
         /\ s.published => s.since \in 0..MaxDay
         /\ s.time[1] \in Nat /\ s.time[2] \in Nat
         /\ At(s) \in Place
<1>1. /\ s.course \in Courses /\ s.time \in Times /\ s.room \in Rooms \cup {NoRoom}
      /\ s.published \in BOOLEAN
      /\ s.published => s.since \in 0..MaxDay
      /\ "published" \in DOMAIN s
  BY DEF Slot
<1>2. "published" \notin DOMAIN Gone
  BY DEF Gone
<1>3. s # Gone
  BY <1>1, <1>2
<1> QED
  BY <1>1, <1>3, TimetableAssumption DEF At, Place

LEMMA ClassFields ==
  ASSUME NEW a \in Class
  PROVE  /\ a.course \in Courses /\ a.time \in Times /\ a.room \in Rooms \cup {NoRoom}
         /\ a.time[1] \in Nat /\ a.time[2] \in Nat /\ At(a) \in Place
<1>1. a.course \in Courses /\ a.time \in Times /\ a.room \in Rooms \cup {NoRoom}
  BY DEF Class
<1> QED
  BY <1>1, TimetableAssumption DEF At, Place

LEMMA SlotRow ==
  ASSUME NEW c \in Courses, NEW t \in Times, NEW room \in Rooms \cup {NoRoom}
  PROVE  /\ \A d \in 0..MaxDay :
              [course |-> c, time |-> t, room |-> room, published |-> TRUE, since |-> d] \in Slot
         /\ [course |-> c, time |-> t, room |-> room, published |-> FALSE, since |-> NoDate] \in Slot
  BY DEF Slot

LEMMA Rows ==
  ASSUME TypeOK
  PROVE  /\ Len(slots) \in Nat /\ Ids = 1..Len(slots)
         /\ slots \in [Ids -> Slot \cup {Gone}]
         /\ \A i : Exists(i) => i \in Ids /\ slots[i] \in Slot
<1>1. slots \in Seq(Slot \cup {Gone})
  BY DEF TypeOK
<1>2. /\ Len(slots) \in Nat /\ DOMAIN slots = 1..Len(slots)
      /\ slots \in [1..Len(slots) -> Slot \cup {Gone}]
  BY <1>1, LenProperties
<1> QED
  BY <1>2 DEF Ids, Exists

\* A row exists if it is a class, published or a draft.
LEMMA RowsExist ==
  ASSUME TypeOK, NEW i, Published(i) \/ Draft(i) \/ Exists(i)
  PROVE  i \in Ids /\ slots[i] \in Slot /\ Exists(i) /\ (Published(i) <=> ~Draft(i))
  BY Rows DEF Published, Draft

LEMMA ScheduleTyped ==
  ASSUME TypeOK, NEW c
  PROVE  Schedule(c) \in SUBSET Place
<1>1. \A i \in Ids : Published(i) => At(slots[i]) \in Place
  BY RowsExist, SlotFields
<1> QED
  BY <1>1 DEF Schedule

LEMMA SessionRows ==
  ASSUME TypeOK
  PROVE  /\ Len(sessions) \in Nat /\ DOMAIN sessions = 1..Len(sessions)
         /\ sessions \in [1..Len(sessions) ->
                            [course : Courses, slot : Nat, start : Nat, date : 0..MaxDay]]
<1>1. sessions \in Seq([course : Courses, slot : Nat, start : Nat, date : 0..MaxDay])
  BY DEF TypeOK
<1> QED
  BY <1>1, LenProperties

-----------------------------------------------------------------------------
(* The class of the hour *)

LEMMA FirstIs ==
  ASSUME TypeOK, NEW S, S # {}, \A i \in S : Published(i)
  PROVE  /\ FirstOf(S) \in S
         /\ \A j \in S : \/ slots[FirstOf(S)].time[1] < slots[j].time[1]
                         \/ slots[FirstOf(S)].time[1] = slots[j].time[1] /\ FirstOf(S) <= j
<1> DEFINE f == [i \in S |-> slots[i].time[1]]
<1>1. S \subseteq Nat /\ f \in [S -> Nat]
  BY RowsExist, Rows, SlotFields
<1>2. PICK i \in S : \A j \in S : f[i] < f[j] \/ (f[i] = f[j] /\ i <= j)
  <2> HIDE DEF f
  <2> QED
    BY <1>1, FirstByStart
<1>3. \A j \in S : \/ slots[i].time[1] < slots[j].time[1]
                   \/ slots[i].time[1] = slots[j].time[1] /\ i <= j
  BY <1>2
<1> QED
  BY <1>3 DEF FirstOf

LEMMA LastIs ==
  ASSUME TypeOK, NEW S, S # {}, \A i \in S : Published(i)
  PROVE  LastOf(S) \in S
<1> DEFINE f == [i \in S |-> slots[i].time[1]]
<1>1. S \subseteq Ids /\ S \subseteq Nat /\ f \in [S -> Nat]
  BY RowsExist, Rows, SlotFields
<1>2. IsFiniteSet(S)
  <2>1. S \in SUBSET (1..Len(slots)) /\ Len(slots) \in Int
    BY <1>1, Rows
  <2>2. IsFiniteSet(1..Len(slots))
    BY <2>1, FS_Interval
  <2> QED
    BY <2>1, <2>2, FS_Subset
<1>3. PICK i \in S : \A j \in S : f[j] < f[i] \/ (f[j] = f[i] /\ j <= i)
  <2> HIDE DEF f
  <2> QED
    BY <1>1, <1>2, LastByStart
<1>4. ASSUME NEW j \in S \ {i}
      PROVE  FirstOf({i, j}) = j
  <2>1. f[j] < f[i] \/ (f[j] = f[i] /\ j < i)
    <3>1. f[j] < f[i] \/ (f[j] = f[i] /\ j <= i)
      BY <1>3
    <3> QED
      BY <1>1, <3>1
  <2>2. /\ FirstOf({i, j}) \in {i, j}
        /\ \/ slots[FirstOf({i, j})].time[1] < slots[j].time[1]
           \/ slots[FirstOf({i, j})].time[1] = slots[j].time[1] /\ FirstOf({i, j}) <= j
    BY FirstIs
  <2>3. FirstOf({i, j}) = i => f[i] < f[j] \/ (f[i] = f[j] /\ i <= j)
    BY <2>2
  <2>4. f[i] \in Nat /\ f[j] \in Nat /\ i \in Nat /\ j \in Nat
    BY <1>1
  <2> HIDE DEF f
  <2> QED
    BY <2>1, <2>2, <2>3, <2>4
<1>5. \E k \in S : \A j \in S \ {k} : FirstOf({k, j}) = j
  BY <1>4
<1> QED
  BY <1>5 DEF LastOf

\* A class is started under a published class, or none.
LEMMA SlotForIs ==
  ASSUME TypeOK, NEW c, NEW now, SlotFor(c, now) # NoSlot
  PROVE  Published(SlotFor(c, now)) /\ slots[SlotFor(c, now)].course = c
<1> DEFINE mine == {i \in Ids : Published(i) /\ slots[i].course = c}
           ahead == {i \in mine : slots[i].time[2] > now}
<1>1. mine # {} /\ (ahead # {} => SlotFor(c, now) = FirstOf(ahead))
      /\ (ahead = {} => SlotFor(c, now) = LastOf(mine))
  BY DEF SlotFor
<1>2. ahead # {} => FirstOf(ahead) \in ahead
  BY FirstIs
<1>3. LastOf(mine) \in mine
  BY <1>1, LastIs
<1> QED
  BY <1>1, <1>2, <1>3

-----------------------------------------------------------------------------
(* What a request holds *)

Befores == UNION {[C -> SUBSET Place] : C \in SUBSET Courses}

Ordered(t) == t[1] < t[2]

\* Every class asked for ends after it starts.
Bookable == {a \in Class : Ordered(a.time)}

CreateJob == [op : {"create"}, class : Bookable, before : Befores, alone : BOOLEAN]
UpdateJob == [op : {"update"}, id : Nat, class : Bookable, seen : Slot, before : Befores,
              alone : BOOLEAN]
DeleteJob == [op : {"delete"}, id : Nat, seen : Slot, filed : SUBSET Nat, before : Befores,
              alone : BOOLEAN]
SaveJob == [op : {"save"}, plan : {P \in SUBSET Bookable : IsFiniteSet(P)}, old : SUBSET Nat,
            alone : BOOLEAN]

\* The drafts and old classes are rows of the timetable that was read.
PublishJob ==
  {j \in [op : {"publish"}, drafts : SUBSET Nat, seen : Seq(Slot \cup {Gone}),
          courses : SUBSET Courses, old : SUBSET (Nat \ {NoSlot}), before : Befores, alone : BOOLEAN] :
     /\ \A d \in j.drafts : j.seen[d] \in Slot
     /\ \A i \in j.old : j.seen[i] \in Slot /\ j.seen[i].published}

EditedJob == [op : {"edited"}, courses : SUBSET Courses, before : Befores, alone : BOOLEAN]
PublishedJob ==
  {j \in [op : {"published"}, courses : SUBSET Courses, before : Befores, after : Befores,
          alone : BOOLEAN] : DOMAIN j.after = j.courses}

Asked == CreateJob \cup UpdateJob \cup DeleteJob \cup SaveJob \cup PublishJob
Job == Asked \cup EditedJob \cup PublishedJob \cup {Idle}

Asking(r) == request[r].op \in {"create", "update", "delete", "save", "publish"}
Pending(r) == request[r].op \in {"edited", "published"}

\* A request about one row of the timetable.
OfRow(j) == j.op \in {"update", "delete"}

\* What becomes of a request when another commits.
Overtaken(j) == IF j = Idle THEN Idle ELSE [j EXCEPT !.alone = FALSE]

LEMMA JobKinds ==
  ASSUME NEW j \in Job
  PROVE  /\ j.op = "create" => j \in CreateJob
         /\ j.op = "update" => j \in UpdateJob
         /\ j.op = "delete" => j \in DeleteJob
         /\ j.op = "save" => j \in SaveJob
         /\ j.op = "publish" => j \in PublishJob
         /\ j.op = "edited" => j \in EditedJob
         /\ j.op = "published" => j \in PublishedJob
         /\ j.op = "idle" <=> j = Idle
         /\ j.op \in {"create", "update", "delete", "save", "publish", "edited", "published", "idle"}
  BY DEF Job, Asked, CreateJob, UpdateJob, DeleteJob, SaveJob, PublishJob, EditedJob, PublishedJob, Idle

LEMMA OvertakenIs ==
  ASSUME NEW j \in Job
  PROVE  /\ Overtaken(j) \in Job /\ Overtaken(j).op = j.op
         /\ j.op # "idle" => ~Overtaken(j).alone
         /\ j.op \in {"edited", "published"} => Overtaken(j).courses = j.courses
         /\ OfRow(j) => Overtaken(j).id = j.id /\ Overtaken(j).seen = j.seen
<1> DEFINE k == [j EXCEPT !.alone = FALSE]
<1>1. CASE j \in CreateJob
  <2>1. k \in CreateJob /\ ~k.alone /\ k.op = "create" /\ j.op = "create"
    BY <1>1 DEF CreateJob
  <2>2. k \in Job /\ Overtaken(j) = k
    BY <2>1 DEF Overtaken, Job, Asked, Idle
  <2> HIDE DEF k
  <2> QED
    BY <2>1, <2>2 DEF OfRow
<1>2. CASE j \in UpdateJob
  <2>1. k \in UpdateJob /\ ~k.alone /\ k.op = "update" /\ j.op = "update" /\ k.id = j.id /\ k.seen = j.seen
    BY <1>2 DEF UpdateJob
  <2>2. k \in Job /\ Overtaken(j) = k
    BY <2>1 DEF Overtaken, Job, Asked, Idle
  <2> HIDE DEF k
  <2> QED
    BY <2>1, <2>2 DEF OfRow
<1>3. CASE j \in SaveJob
  <2>1. k \in SaveJob /\ ~k.alone /\ k.op = "save" /\ j.op = "save"
    BY <1>3 DEF SaveJob
  <2>2. k \in Job /\ Overtaken(j) = k
    BY <2>1 DEF Overtaken, Job, Asked, Idle
  <2> HIDE DEF k
  <2> QED
    BY <2>1, <2>2 DEF OfRow
<1>4. CASE j \in PublishJob
  <2>1. k \in PublishJob /\ ~k.alone /\ k.op = "publish" /\ j.op = "publish"
    BY <1>4 DEF PublishJob
  <2>2. k \in Job /\ Overtaken(j) = k
    BY <2>1 DEF Overtaken, Job, Asked, Idle
  <2> HIDE DEF k
  <2> QED
    BY <2>1, <2>2 DEF OfRow
<1>5. CASE j \in EditedJob
  <2>1. k \in EditedJob /\ ~k.alone /\ k.op = "edited" /\ j.op = "edited" /\ k.courses = j.courses
    BY <1>5 DEF EditedJob
  <2>2. k \in Job /\ Overtaken(j) = k
    BY <2>1 DEF Overtaken, Job, Asked, Idle
  <2> HIDE DEF k
  <2> QED
    BY <2>1, <2>2 DEF OfRow
<1>6. CASE j \in PublishedJob
  <2>1. k \in PublishedJob /\ ~k.alone /\ k.op = "published" /\ j.op = "published" /\ k.courses = j.courses
    BY <1>6 DEF PublishedJob
  <2>2. k \in Job /\ Overtaken(j) = k
    BY <2>1 DEF Overtaken, Job, Asked, Idle
  <2> HIDE DEF k
  <2> QED
    BY <2>1, <2>2 DEF OfRow
<1>7. CASE j = Idle
  BY <1>7 DEF Overtaken, Idle, OfRow
<1>8. CASE j \in DeleteJob
  <2>1. k \in DeleteJob /\ ~k.alone /\ k.op = "delete" /\ j.op = "delete" /\ k.id = j.id /\ k.seen = j.seen
    BY <1>8 DEF DeleteJob
  <2>2. k \in Job /\ Overtaken(j) = k
    BY <2>1 DEF Overtaken, Job, Asked, Idle
  <2> HIDE DEF k
  <2> QED
    BY <2>1, <2>2 DEF OfRow
<1> QED
  BY <1>1, <1>2, <1>3, <1>4, <1>5, <1>6, <1>7, <1>8 DEF Job, Asked

\* What a class or a row holds stays what it is.
Noted ==
  \A r \in Requests :
    OfRow(request[r]) =>
      LET j == request[r] IN
      j.id \in Ids /\ (j.seen.published /\ Exists(j.id) => Published(j.id))

Typed == TypeOK /\ request \in [Requests -> Job] /\ Noted

LEMMA SchedulesTyped ==
  ASSUME TypeOK, NEW C \in SUBSET Courses
  PROVE  Schedules(C) \in Befores /\ \A c \in C : Schedules(C)[c] = Schedule(c)
<1>1. Schedules(C) \in [C -> SUBSET Place]
  BY ScheduleTyped DEF Schedules
<1> QED
  BY <1>1 DEF Befores, Schedules

-----------------------------------------------------------------------------
(* The rows after a commit *)

Session == [course : Courses, slot : Nat, start : Nat, date : 0..MaxDay]

\* Rows are never taken up again, and a published class goes or stays so.
RowsLast ==
  /\ Ids \subseteq Ids'
  /\ \A i \in Ids : slots'[i] # Gone =>
       slots[i] # Gone /\ (slots[i].published => slots'[i].published)

LEMMA SeqFromFunction ==
  ASSUME NEW S, NEW n \in Nat, NEW f \in [1..n -> S]
  PROVE  f \in Seq(S) /\ Len(f) = n /\ DOMAIN f = 1..n
<1>1. f \in Seq(S)
  BY SeqDef
<1> QED
  BY <1>1, LenProperties

LEMMA UnfiledIs ==
  ASSUME TypeOK, NEW those
  PROVE  /\ Unfiled(those) \in Seq(Session) /\ DOMAIN Unfiled(those) = DOMAIN sessions
         /\ \A k \in DOMAIN sessions :
              Unfiled(those)[k].slot = IF k \in those THEN NoSlot ELSE sessions[k].slot
<1>1. ASSUME NEW k \in DOMAIN sessions
      PROVE  /\ [sessions[k] EXCEPT !.slot = NoSlot] \in Session
             /\ [sessions[k] EXCEPT !.slot = NoSlot].slot = NoSlot
             /\ sessions[k] \in Session
  BY SessionRows DEF Session, NoSlot
<1>2. Unfiled(those) \in [1..Len(sessions) -> Session] /\ Len(sessions) \in Nat
  BY <1>1, SessionRows DEF Unfiled
<1> QED
  BY <1>1, <1>2, SeqFromFunction, SessionRows DEF Unfiled

LEMMA DetachedIs ==
  ASSUME TypeOK, NEW gone
  PROVE  /\ Detached(gone) \in Seq(Session) /\ DOMAIN Detached(gone) = DOMAIN sessions
         /\ \A k \in DOMAIN sessions :
              Detached(gone)[k].slot = IF sessions[k].slot \in gone THEN NoSlot
                                       ELSE sessions[k].slot
  BY UnfiledIs DEF Detached

LEMMA CommittedIs ==
  ASSUME Typed, NEW r \in Requests, NEW courses, courses \subseteq Courses,
         NEW job \in Job, Committed(r, courses, job)
  PROVE  /\ request' \in [Requests -> Job] /\ request'[r] = job
         /\ \A q \in Requests \ {r} : request'[q] = Overtaken(request[q])
         /\ raced' \subseteq Courses /\ raced \subseteq raced'
         /\ request[r].alone => raced' = raced
         /\ ~request[r].alone => courses \subseteq raced'
<1>1. request \in [Requests -> Job] /\ raced \subseteq Courses
  BY DEF Typed, TypeOK
<1>2. request' = [q \in Requests |-> IF q = r THEN job ELSE Overtaken(request[q])]
  BY DEF Committed, Overtaken
<1>3. \A q \in Requests : Overtaken(request[q]) \in Job
  BY <1>1, OvertakenIs
<1> QED
  BY <1>1, <1>2, <1>3 DEF Committed

LEMMA NotedStays ==
  ASSUME Typed, NEW r \in Requests, ~OfRow(request'[r]), RowsLast,
         \A q \in Requests \ {r} : request'[q] = Overtaken(request[q]) \/ request'[q] = request[q]
  PROVE  Noted'
<1>1. ASSUME NEW q \in Requests, OfRow(request'[q])
      PROVE  /\ request'[q].id \in DOMAIN slots'
             /\ request'[q].seen.published /\ slots'[request'[q].id] # Gone =>
                  slots'[request'[q].id].published
  <2>1. request[q] \in Job /\ q # r
    BY <1>1 DEF Typed
  <2>2. /\ OfRow(request[q])
        /\ request'[q].id = request[q].id /\ request'[q].seen = request[q].seen
    BY <1>1, <2>1, OvertakenIs DEF OfRow
  <2>3. /\ request[q].id \in Ids
        /\ request[q].seen.published /\ slots[request[q].id] # Gone =>
             slots[request[q].id].published
    BY <2>2 DEF Typed, Noted, Exists, Published
  <2>4. PICK i \in Ids : i = request[q].id
    BY <2>3
  <2>5. i \in DOMAIN slots'
    BY DEF RowsLast, Ids
  <2>6. slots'[i] # Gone => slots[i] # Gone /\ (slots[i].published => slots'[i].published)
    BY DEF RowsLast
  <2> QED
    BY <2>2, <2>3, <2>4, <2>5, <2>6
<1> QED
  BY <1>1 DEF Noted, Exists, Published, Ids

\* The tables of people and courses stay as they were.
PeopleStay == UNCHANGED <<offered, teachers, registered, told, today, missed, joined>>

LEMMA TypeStays ==
  ASSUME Typed, PeopleStay, slots' \in Seq(Slot \cup {Gone}), sessions' \in Seq(Session),
         begun' \in 0..MaxBegun, raced' \subseteq Courses, stripped' \subseteq Courses,
         Ids \subseteq Ids', strained' \subseteq strained
  PROVE  TypeOK'
<1>1. strained' \subseteq Ids' \X Ids'
  BY DEF Typed, TypeOK
<1> HIDE DEF Ids
<1> QED
  BY <1>1 DEF Typed, TypeOK, PeopleStay, People, Session

-----------------------------------------------------------------------------
(* What each commit does to the rows, and that it keeps the types *)

LEMMA CreateRows ==
  ASSUME Typed, NEW r \in Requests, CommitCreate(r)
  PROVE  /\ request[r] \in CreateJob
         /\ OnTimetable(request[r].class) \in Slot
         /\ slots' \in Seq(Slot \cup {Gone})
         /\ Ids' = Ids \cup {Len(slots) + 1} /\ Len(slots) + 1 \notin Ids
         /\ slots'[Len(slots) + 1] = OnTimetable(request[r].class)
         /\ \A i \in Ids : slots'[i] = slots[i]
         /\ RowsLast
<1>1. request[r] \in CreateJob
  BY JobKinds DEF CommitCreate, Typed
<1>2. OnTimetable(request[r].class) \in Slot
  <2>1. request[r].class \in Class /\ today \in 0..MaxDay
    BY <1>1 DEF CreateJob, Bookable, Typed, TypeOK
  <2> QED
    BY <2>1, ClassFields, SlotRow DEF OnTimetable
<1>3. slots' = Append(slots, OnTimetable(request[r].class))
  BY DEF CommitCreate
<1>4. slots \in Seq(Slot \cup {Gone}) /\ Ids = 1..Len(slots) /\ Len(slots) \in Nat
  BY Rows DEF Typed, TypeOK
<1> HIDE DEF Ids
<1>5. /\ slots' \in Seq(Slot \cup {Gone}) /\ Len(slots') = Len(slots) + 1
      /\ slots'[Len(slots) + 1] = OnTimetable(request[r].class)
      /\ \A i \in 1..Len(slots) : slots'[i] = slots[i]
  BY <1>2, <1>3, <1>4, AppendProperties
<1>6. DOMAIN slots' = 1..Len(slots')
  BY <1>5, LenProperties
<1>7. Ids' = Ids \cup {Len(slots) + 1} /\ Len(slots) + 1 \notin Ids
  BY <1>4, <1>5, <1>6 DEF Ids
<1>8. \A i \in Ids : slots'[i] = slots[i]
  BY <1>4, <1>5
<1> QED
  BY <1>1, <1>2, <1>5, <1>7, <1>8 DEF RowsLast

LEMMA UpdateRows ==
  ASSUME Typed, NEW r \in Requests, CommitUpdate(r), Exists(request[r].id)
  PROVE  LET j == request[r]
             now == slots[j.id]
         IN  /\ j \in UpdateJob /\ j.id \in Ids /\ now \in Slot
             /\ slots'[j.id] = Updated(now, j.seen, j.class) /\ slots'[j.id] \in Slot
             /\ slots'[j.id].published = now.published
             /\ slots' \in Seq(Slot \cup {Gone}) /\ Ids' = Ids
             /\ \A i \in Ids \ {j.id} : slots'[i] = slots[i]
             /\ RowsLast
<1> DEFINE j == request[r]
           now == slots[j.id]
           new == Updated(now, j.seen, j.class)
<1>1. j \in UpdateJob
  BY JobKinds DEF CommitUpdate, Typed
<1>2. j.id \in Ids /\ now \in Slot /\ (j.seen.published => now.published)
  <2>1. j.op = "update" /\ Exists(j.id)
    BY DEF CommitUpdate
  <2>2. j.id \in Ids /\ (j.seen.published => Published(j.id))
    BY <2>1 DEF Typed, Noted, OfRow
  <2> QED
    BY <2>1, <2>2, RowsExist DEF Published, Typed
<1>3. new \in Slot /\ new.published = now.published
  <2>1. /\ j.class.course \in Courses /\ j.class.time \in Times
        /\ j.class.room \in Rooms \cup {NoRoom} /\ today \in 0..MaxDay
    BY <1>1, ClassFields DEF UpdateJob, Bookable, Typed, TypeOK
  <2>2. /\ now.course \in Courses /\ now.time \in Times /\ now.room \in Rooms \cup {NoRoom}
        /\ now.published \in BOOLEAN /\ (now.published => now.since \in 0..MaxDay)
        /\ (~now.published => now.since = NoDate)
    BY <1>2 DEF Slot
  <2>3. /\ new.course \in Courses /\ new.time \in Times /\ new.room \in Rooms \cup {NoRoom}
        /\ new.published = now.published
        /\ (now.published => new.since \in 0..MaxDay) /\ (~now.published => new.since = NoDate)
    BY <1>2, <2>1, <2>2 DEF Updated
  <2>4. new = [course |-> new.course, time |-> new.time, room |-> new.room,
               published |-> new.published, since |-> new.since]
    BY DEF Updated
  <2> HIDE DEF new, now, j
  <2>5. CASE now.published
    <3>1. new = [course |-> new.course, time |-> new.time, room |-> new.room,
                 published |-> TRUE, since |-> new.since]
      BY <2>2, <2>3, <2>4, <2>5
    <3> QED
      BY <2>3, <2>5, <3>1, SlotRow
  <2>6. CASE ~now.published
    <3>1. new = [course |-> new.course, time |-> new.time, room |-> new.room,
                 published |-> FALSE, since |-> NoDate]
      BY <2>2, <2>3, <2>4, <2>6
    <3> QED
      BY <2>3, <3>1, SlotRow
  <2> QED
    BY <2>3, <2>5, <2>6
<1>4. slots' = [slots EXCEPT ![j.id] = new]
  BY DEF CommitUpdate
<1>5. slots \in Seq(Slot \cup {Gone}) /\ Ids = 1..Len(slots)
  BY Rows DEF Typed, TypeOK
<1> HIDE DEF new
<1>6. /\ slots' \in Seq(Slot \cup {Gone}) /\ Len(slots') = Len(slots)
      /\ \A i \in 1..Len(slots) : slots'[i] = IF i = j.id THEN new ELSE slots[i]
  BY <1>2, <1>3, <1>4, <1>5, ExceptSeq
<1>7. Ids' = Ids
  BY <1>4 DEF Ids
<1>8. slots'[j.id] = new /\ \A i \in Ids \ {j.id} : slots'[i] = slots[i]
  BY <1>2, <1>5, <1>6
<1>9. now # Gone
  BY <1>2, SlotFields
<1> QED
  BY <1>1, <1>2, <1>3, <1>6, <1>7, <1>8, <1>9 DEF RowsLast, new

LEMMA DeleteRows ==
  ASSUME Typed, NEW r \in Requests, CommitDelete(r), FiledUnder(request[r].id) \subseteq request[r].filed
  PROVE  LET i == request[r].id IN
         /\ request[r] \in DeleteJob
         /\ i \in Ids /\ slots'[i] = Gone
         /\ slots' \in Seq(Slot \cup {Gone}) /\ Ids' = Ids
         /\ \A k \in Ids \ {i} : slots'[k] = slots[k]
         /\ RowsLast
<1> DEFINE i == request[r].id
<1>1. request[r] \in DeleteJob /\ i \in Ids
  BY JobKinds DEF CommitDelete, Typed, Noted, OfRow
<1>2. slots' = [slots EXCEPT ![i] = Gone]
  BY DEF CommitDelete
<1>3. slots \in Seq(Slot \cup {Gone}) /\ Ids = 1..Len(slots)
  BY Rows DEF Typed, TypeOK
<1> HIDE DEF i
<1>4. /\ slots' \in Seq(Slot \cup {Gone})
      /\ \A k \in 1..Len(slots) : slots'[k] = IF k = i THEN Gone ELSE slots[k]
  BY <1>1, <1>2, <1>3, ExceptSeq
<1>5. Ids' = Ids
  BY <1>2 DEF Ids
<1>6. slots'[i] = Gone /\ \A k \in Ids \ {i} : slots'[k] = slots[k]
  BY <1>1, <1>3, <1>4
<1>7. RowsLast
  BY <1>1, <1>5, <1>6 DEF RowsLast
<1> QED
  BY <1>1, <1>4, <1>5, <1>6, <1>7 DEF i

\* A plan becomes drafts at the end, one for each of its classes.
DraftRow(a) ==
  [course |-> a.course, time |-> a.time, room |-> a.room, published |-> FALSE, since |-> NoDate]

LEMMA DraftRowIs ==
  ASSUME NEW a \in Class
  PROVE  /\ DraftRow(a) \in Slot /\ ~DraftRow(a).published
         /\ DraftRow(a).course = a.course /\ DraftRow(a).time = a.time /\ DraftRow(a).room = a.room
         /\ \A b \in Class : DraftRow(b) = DraftRow(a) => b = a
<1>1. DraftRow(a) \in Slot
  BY ClassFields, SlotRow DEF DraftRow
<1>2. \A b \in Class : DraftRow(b) = DraftRow(a) => b = a
  <2> SUFFICES ASSUME NEW b \in Class, DraftRow(b) = DraftRow(a) PROVE b = a
    OBVIOUS
  <2>1. b.course = a.course /\ b.time = a.time /\ b.room = a.room
    BY DEF DraftRow
  <2> QED
    BY <2>1 DEF Class
<1> QED
  BY <1>1, <1>2 DEF DraftRow

LEMMA SaveRows ==
  ASSUME Typed, NEW r \in Requests, CommitSave(r)
  PROVE  LET j == request[r]
             new == Ids' \ Ids
         IN  /\ j \in SaveJob
             /\ slots' \in Seq(Slot \cup {Gone}) /\ Ids \subseteq Ids'
             /\ \A i \in Ids : slots'[i] = IF i \in j.old THEN Gone ELSE slots[i]
             /\ \A n \in new : \E a \in j.plan : slots'[n] = DraftRow(a)
             /\ \A a \in j.plan : \E n \in new : slots'[n] = DraftRow(a)
             /\ \A m, n \in new : slots'[m] = slots'[n] => m = n
             /\ RowsLast
<1> DEFINE j == request[r]
           kept == [i \in Ids |-> IF i \in j.old THEN Gone ELSE slots[i]]
           drafts == {DraftRow(a) : a \in j.plan}
           row == [a \in j.plan |-> DraftRow(a)]
<1>1. j \in SaveJob
  BY JobKinds DEF CommitSave, Typed
<1>2. j.plan \subseteq Class /\ IsFiniteSet(j.plan)
  BY <1>1 DEF SaveJob, Bookable
<1>3. Ids = 1..Len(slots) /\ Len(slots) \in Nat /\ slots \in [Ids -> Slot \cup {Gone}]
  BY Rows DEF Typed
<1>4. kept \in Seq(Slot \cup {Gone}) /\ Len(kept) = Len(slots) /\ DOMAIN kept = Ids
  <2>1. kept \in [1..Len(slots) -> Slot \cup {Gone}]
    BY <1>3
  <2> HIDE DEF kept
  <2> QED
    BY <1>3, <2>1, SeqFromFunction
<1>5. IsFiniteSet(drafts)
  <2>1. row \in Surjection(j.plan, drafts)
    BY DEF Surjection
  <2> HIDE DEF row, drafts, j
  <2> QED
    BY <1>2, <2>1, FS_Surjection
<1> DEFINE N == Cardinality(drafts)
           ds == SetToSeq(drafts)
<1>6. /\ N \in Nat /\ ds \in [1..N -> drafts]
      /\ \A d \in drafts : \E k \in 1..N : ds[k] = d
      /\ \A k, m \in 1..N : ds[k] = ds[m] => k = m
  <2> HIDE DEF drafts
  <2> QED
    BY <1>5, SetToSeqOf
<1>7. drafts \subseteq Slot
  BY <1>2, DraftRowIs
<1>8. slots' = kept \o ds
  BY DEF CommitSave, DraftRow
<1> HIDE DEF kept, drafts, ds, N
<1>9. ds \in Seq(Slot \cup {Gone}) /\ Len(ds) = N
  <2>1. ds \in [1..N -> Slot \cup {Gone}]
    BY <1>6, <1>7
  <2> QED
    BY <1>6, <2>1, SeqFromFunction
<1>10. /\ slots' \in Seq(Slot \cup {Gone}) /\ Len(slots') = Len(slots) + N
       /\ \A i \in 1..Len(slots) + N :
            slots'[i] = IF i <= Len(slots) THEN kept[i] ELSE ds[i - Len(slots)]
  <2>1. Len(kept \o ds) = Len(kept) + Len(ds) /\ kept \o ds \in Seq(Slot \cup {Gone})
    BY <1>4, <1>9, ConcatProperties
  <2>2. \A i \in 1..Len(kept) + Len(ds) :
          (kept \o ds)[i] = IF i <= Len(kept) THEN kept[i] ELSE ds[i - Len(kept)]
    BY <1>4, <1>9, ConcatProperties
  <2> QED
    BY <1>4, <1>8, <1>9, <2>1, <2>2
<1>11. Ids' = 1..Len(slots) + N
  BY <1>10, LenProperties DEF Ids
<1>12. \A i \in Ids : slots'[i] = IF i \in j.old THEN Gone ELSE slots[i]
  <2>1. \A i \in Ids : slots'[i] = kept[i]
    BY <1>3, <1>6, <1>10
  <2> QED
    BY <2>1 DEF kept
<1>13. \A n \in Ids' \ Ids : n - Len(slots) \in 1..N /\ slots'[n] = ds[n - Len(slots)]
  BY <1>3, <1>6, <1>10, <1>11
<1>14. \A k \in 1..N : k + Len(slots) \in Ids' \ Ids /\ slots'[k + Len(slots)] = ds[k]
  <2> SUFFICES ASSUME NEW k \in 1..N
               PROVE  k + Len(slots) \in Ids' \ Ids /\ slots'[k + Len(slots)] = ds[k]
    OBVIOUS
  <2>1. PICK i \in 1..Len(slots) + N : i = k + Len(slots)
    BY <1>3, <1>6
  <2>2. i \notin Ids /\ i \in Ids' /\ ~(i <= Len(slots)) /\ i - Len(slots) = k
    BY <1>3, <1>6, <1>11, <2>1
  <2>3. slots'[i] = ds[i - Len(slots)]
    BY <1>10, <2>2
  <2> QED
    BY <2>1, <2>2, <2>3
<1>15. \A n \in Ids' \ Ids : slots'[n] \in drafts
  BY <1>6, <1>13
<1>16. \A d \in drafts : \E n \in Ids' \ Ids : slots'[n] = d
  BY <1>6, <1>14
<1>17. ASSUME NEW m \in Ids' \ Ids, NEW n \in Ids' \ Ids, slots'[m] = slots'[n]
       PROVE  m = n
  <2>1. m - Len(slots) = n - Len(slots)
    BY <1>6, <1>13, <1>17
  <2> QED
    BY <1>3, <1>6, <1>11, <2>1
<1>18. Ids \subseteq Ids'
  BY <1>3, <1>6, <1>11
<1>19. RowsLast
  BY <1>12, <1>18 DEF RowsLast
<1> QED
  BY <1>1, <1>10, <1>12, <1>15, <1>16, <1>17, <1>18, <1>19 DEF drafts

LEMMA PublishRows ==
  ASSUME Typed, NEW r \in Requests, CommitPublish(r), \A d \in request[r].drafts : Exists(d)
  PROVE  LET j == request[r] IN
         /\ j \in PublishJob /\ j.drafts \subseteq Ids
         /\ slots' \in Seq(Slot \cup {Gone}) /\ Ids' = Ids
         /\ \A d \in j.drafts :
              /\ slots[d] \in Slot /\ slots'[d] \in Slot /\ slots'[d].published
              /\ slots'[d].course = slots[d].course
              /\ slots'[d].time = slots[d].time /\ slots'[d].room = slots[d].room
         /\ \A i \in Ids \ j.drafts : slots'[i] = IF i \in j.old THEN Gone ELSE slots[i]
         /\ RowsLast
<1> DEFINE j == request[r]
           since(i) == IF Reissued(j, i) = {} THEN today
                       ELSE j.seen[CHOOSE k \in Reissued(j, i) : TRUE].since
           new == [i \in Ids |->
                     IF i \in j.drafts
                       THEN [slots[i] EXCEPT !.published = TRUE, !.since = since(i)]
                     ELSE IF i \in SwappedOut(j) THEN Gone ELSE slots[i]]
<1>1. j \in PublishJob
  BY JobKinds DEF CommitPublish, Typed
<1>2. slots' = new
  BY DEF CommitPublish, RolledBack
<1>3. Ids = 1..Len(slots) /\ Len(slots) \in Nat /\ slots \in [Ids -> Slot \cup {Gone}]
  BY Rows DEF Typed
<1>4. j.drafts \subseteq Ids /\ \A d \in j.drafts : slots[d] \in Slot
  BY Rows DEF Typed
<1>5. \A i \in j.drafts : since(i) \in 0..MaxDay
  <2> SUFFICES ASSUME NEW i \in j.drafts PROVE since(i) \in 0..MaxDay
    OBVIOUS
  <2>1. \A k \in Reissued(j, i) : j.seen[k].since \in 0..MaxDay
    BY <1>1, SlotFields DEF PublishJob, Reissued
  <2>2. today \in 0..MaxDay
    BY DEF Typed, TypeOK
  <2> QED
    BY <2>1, <2>2
<1> HIDE DEF j, since
<1>6. ASSUME NEW d \in j.drafts
      PROVE  /\ new[d] \in Slot /\ new[d].published /\ new[d].course = slots[d].course
             /\ new[d].time = slots[d].time /\ new[d].room = slots[d].room
  <2>1. new[d] = [slots[d] EXCEPT !.published = TRUE, !.since = since(d)]
    BY <1>4
  <2>2. slots[d] \in Slot /\ since(d) \in 0..MaxDay
    BY <1>4, <1>5
  <2> HIDE DEF new
  <2>3. new[d] = [course |-> slots[d].course, time |-> slots[d].time, room |-> slots[d].room,
                  published |-> TRUE, since |-> since(d)]
    BY <2>1, <2>2 DEF Slot
  <2>4. [course |-> slots[d].course, time |-> slots[d].time, room |-> slots[d].room,
         published |-> TRUE, since |-> since(d)] \in Slot
    BY <2>2, SlotFields, SlotRow
  <2> QED
    BY <2>3, <2>4
<1>7. \A i \in Ids \ j.drafts : new[i] = IF i \in j.old THEN Gone ELSE slots[i]
  BY DEF SwappedOut
<1>8. DOMAIN new = Ids
  OBVIOUS
<1> HIDE DEF new
<1>9. new \in [1..Len(slots) -> Slot \cup {Gone}]
  <2>1. \A i \in Ids : new[i] \in Slot \cup {Gone}
    BY <1>3, <1>6, <1>7
  <2>2. new = [i \in Ids |-> new[i]]
    BY <1>8 DEF new
  <2> QED
    BY <1>3, <2>1, <2>2
<1>10. new \in Seq(Slot \cup {Gone})
  BY <1>3, <1>9, SeqFromFunction
<1>11. Ids' = Ids
  BY <1>2, <1>8 DEF Ids
<1>12. RowsLast
  BY <1>2, <1>4, <1>6, <1>7, <1>11, SlotFields DEF RowsLast
<1> QED
  BY <1>1, <1>2, <1>4, <1>6, <1>7, <1>10, <1>11, <1>12 DEF j

\* A commit leaves every other request what it was, but no longer alone.
Others(r) == \A q \in Requests \ {r} : request'[q] = Overtaken(request[q])

LEMMA CommitTyped ==
  ASSUME Typed, NEW r \in Requests, PeopleStay, Others(r), RowsLast,
         request' \in [Requests -> Job], ~OfRow(request'[r]),
         slots' \in Seq(Slot \cup {Gone}), sessions' \in Seq(Session), begun' \in 0..MaxBegun,
         raced' \subseteq Courses, stripped' \subseteq Courses, strained' \subseteq strained
  PROVE  Typed'
<1>1. TypeOK'
  BY TypeStays DEF RowsLast
<1>2. Noted'
  BY NotedStays DEF Others
<1> QED
  BY <1>1, <1>2 DEF Typed

LEMMA SessionsTyped ==
  ASSUME Typed
  PROVE  /\ sessions \in Seq(Session) /\ begun \in 0..MaxBegun
         /\ raced \subseteq Courses /\ stripped \subseteq Courses /\ missed \subseteq Courses
  BY DEF Typed, TypeOK, Session

LEMMA CreateCommits ==
  ASSUME Typed, NEW r \in Requests, CommitCreate(r)
  PROVE  LET j == request[r]
             c == j.class.course
         IN  /\ c \in Courses /\ PeopleStay /\ Others(r)
             /\ request'[r] = TellNow({c}, j.before) /\ request'[r] \in EditedJob
             /\ raced \subseteq raced' /\ (j.alone => raced' = raced) /\ (~j.alone => c \in raced')
             /\ strained' = strained
             /\ Typed'
<1> DEFINE j == request[r]
           c == j.class.course
<1>1. c \in Courses /\ j.before \in Befores
  BY CreateRows, ClassFields DEF CreateJob, Bookable
<1>2. TellNow({c}, j.before) \in EditedJob
  BY <1>1 DEF TellNow, EditedJob
<1>3. Committed(r, {c}, TellNow({c}, j.before))
  BY DEF CommitCreate
<1>4. TellNow({c}, j.before) \in Job
  BY <1>2 DEF Job
<1> HIDE DEF j, c
<1>5. /\ request' \in [Requests -> Job] /\ request'[r] = TellNow({c}, j.before)
      /\ Others(r) /\ raced' \subseteq Courses /\ raced \subseteq raced'
      /\ (request[r].alone => raced' = raced) /\ (~request[r].alone => {c} \subseteq raced')
  BY <1>1, <1>3, <1>4, CommittedIs DEF Others
<1>6. /\ PeopleStay /\ sessions' = sessions /\ begun' = begun /\ stripped' = stripped
      /\ strained' = strained
  BY DEF CommitCreate, PeopleStay
<1>7. ~OfRow(request'[r])
  BY <1>5 DEF TellNow, OfRow
<1>8. Typed'
  BY <1>5, <1>6, <1>7, CreateRows, SessionsTyped, CommitTyped
<1> QED
  BY <1>1, <1>2, <1>5, <1>6, <1>8 DEF j, c

LEMMA UpdateCommits ==
  ASSUME Typed, NEW r \in Requests, CommitUpdate(r), Exists(request[r].id)
  PROVE  LET j == request[r]
             C == {j.seen.course, j.class.course}
             D == C \cup {slots[j.id].course}
         IN  /\ D \subseteq Courses /\ PeopleStay /\ Others(r)
             /\ request'[r] = TellNow(C, j.before) /\ request'[r] \in EditedJob
             /\ raced \subseteq raced' /\ (j.alone => raced' = raced) /\ (~j.alone => D \subseteq raced')
             /\ stripped \subseteq stripped'
             /\ ~j.seen.published /\ j.class.course # j.seen.course => j.seen.course \in stripped'
             /\ strained' = {e \in strained : j.id \notin {e[1], e[2]}}
             /\ Typed'
<1> DEFINE j == request[r]
           C == {j.seen.course, j.class.course}
           D == C \cup {slots[j.id].course}
<1>1. /\ j.seen.course \in Courses /\ j.class.course \in Courses /\ slots[j.id].course \in Courses
      /\ j.before \in Befores
  BY UpdateRows, ClassFields, SlotFields DEF UpdateJob, Bookable
<1>2. C \in SUBSET Courses /\ D \subseteq Courses
  BY <1>1
<1>3. TellNow(C, j.before) \in EditedJob
  BY <1>1, <1>2 DEF TellNow, EditedJob
<1>4. /\ Committed(r, D, TellNow(C, j.before))
      /\ stripped' = IF ~j.seen.published /\ j.class.course # j.seen.course
                       THEN stripped \cup {j.seen.course} ELSE stripped
      /\ strained' = {e \in strained : j.id \notin {e[1], e[2]}}
      /\ UNCHANGED <<sessions, offered, teachers, registered, told, today, begun, missed, joined>>
  BY DEF CommitUpdate
<1>5. TellNow(C, j.before) \in Job
  BY <1>3 DEF Job
<1>6. stripped \subseteq stripped' /\ stripped' \subseteq Courses
      /\ (~j.seen.published /\ j.class.course # j.seen.course => j.seen.course \in stripped')
  BY <1>1, <1>4, SessionsTyped
<1> HIDE DEF j, C, D
<1>7. /\ request' \in [Requests -> Job] /\ request'[r] = TellNow(C, j.before)
      /\ Others(r) /\ raced' \subseteq Courses /\ raced \subseteq raced'
      /\ (request[r].alone => raced' = raced) /\ (~request[r].alone => D \subseteq raced')
  BY <1>2, <1>4, <1>5, CommittedIs DEF Others
<1>8. PeopleStay /\ sessions' = sessions /\ begun' = begun /\ strained' \subseteq strained
  BY <1>4 DEF PeopleStay
<1>9. ~OfRow(request'[r])
  BY <1>7 DEF TellNow, OfRow
<1>10. RowsLast /\ slots' \in Seq(Slot \cup {Gone})
  BY UpdateRows
<1>11. Typed'
  BY <1>6, <1>7, <1>8, <1>9, <1>10, SessionsTyped, CommitTyped
<1> QED
  BY <1>2, <1>3, <1>4, <1>6, <1>7, <1>8, <1>11 DEF j, C, D

LEMMA DeleteCommits ==
  ASSUME Typed, NEW r \in Requests, CommitDelete(r), FiledUnder(request[r].id) \subseteq request[r].filed
  PROVE  LET j == request[r]
             c == j.seen.course
             D == {c} \cup {slots[i].course : i \in {k \in {j.id} : Exists(k)}}
                    \cup {sessions[k].course : k \in j.filed \cap DOMAIN sessions}
         IN  /\ c \in Courses /\ PeopleStay /\ Others(r)
             /\ request'[r] = TellNow({c}, j.before) /\ request'[r] \in EditedJob
             /\ raced \subseteq raced' /\ (j.alone => raced' = raced) /\ (~j.alone => D \subseteq raced')
             /\ stripped \subseteq stripped' /\ (~j.seen.published => c \in stripped')
             /\ strained' = strained /\ sessions' = Unfiled(j.filed)
             /\ Typed'
<1> DEFINE j == request[r]
           c == j.seen.course
           D == {c} \cup {slots[i].course : i \in {k \in {j.id} : Exists(k)}}
                  \cup {sessions[k].course : k \in j.filed \cap DOMAIN sessions}
<1>1. c \in Courses /\ j.before \in Befores
  BY DeleteRows, SlotFields DEF DeleteJob
<1>2. D \subseteq Courses
  <2>1. \A k : Exists(k) => slots[k].course \in Courses
    BY Rows, SlotFields DEF Typed
  <2>2. \A k \in DOMAIN sessions : sessions[k].course \in Courses
    BY SessionRows DEF Typed
  <2> QED
    BY <1>1, <2>1, <2>2
<1>3. TellNow({c}, j.before) \in EditedJob /\ ~OfRow(TellNow({c}, j.before))
  BY <1>1 DEF TellNow, EditedJob, OfRow
<1>4. /\ Committed(r, D, TellNow({c}, j.before))
      /\ stripped' = IF j.seen.published THEN stripped ELSE stripped \cup {c}
      /\ sessions' = Unfiled(j.filed)
      /\ UNCHANGED <<offered, teachers, registered, told, today, begun, missed, strained, joined>>
  BY DEF CommitDelete
<1>5. TellNow({c}, j.before) \in Job
  BY <1>3 DEF Job
<1>6. stripped \subseteq stripped' /\ stripped' \subseteq Courses
      /\ (~j.seen.published => c \in stripped')
  BY <1>1, <1>4, SessionsTyped
<1> HIDE DEF j, c, D
<1>7. /\ request' \in [Requests -> Job] /\ request'[r] = TellNow({c}, j.before)
      /\ Others(r) /\ raced' \subseteq Courses /\ raced \subseteq raced'
      /\ (request[r].alone => raced' = raced) /\ (~request[r].alone => D \subseteq raced')
  BY <1>2, <1>4, <1>5, CommittedIs DEF Others
<1>8. PeopleStay /\ begun' = begun /\ strained' = strained
  BY <1>4 DEF PeopleStay
<1>9. sessions' \in Seq(Session)
  BY <1>4, UnfiledIs DEF Typed
<1>10. RowsLast /\ slots' \in Seq(Slot \cup {Gone})
  BY DeleteRows
<1>11. Typed'
  BY <1>3, <1>6, <1>7, <1>8, <1>9, <1>10, SessionsTyped, CommitTyped
<1> QED
  BY <1>1, <1>3, <1>4, <1>6, <1>7, <1>8, <1>11 DEF j, c, D

LEMMA SaveCommits ==
  ASSUME Typed, NEW r \in Requests, CommitSave(r)
  PROVE  LET j == request[r]
             C == {a.course : a \in j.plan} \cup {slots[i].course : i \in {k \in j.old : Exists(k)}}
         IN  /\ PeopleStay /\ Others(r) /\ request'[r] = Idle
             /\ raced \subseteq raced' /\ (j.alone => raced' = raced) /\ (~j.alone => C \subseteq raced')
             /\ stripped' = stripped /\ strained' = strained /\ sessions' = Detached(j.old)
             /\ Typed'
<1> DEFINE j == request[r]
           C == {a.course : a \in j.plan} \cup {slots[i].course : i \in {k \in j.old : Exists(k)}}
<1>1. C \subseteq Courses
  <2>1. \A a \in j.plan : a.course \in Courses
    BY SaveRows, ClassFields DEF SaveJob, Bookable
  <2>2. \A k : Exists(k) => slots[k].course \in Courses
    BY Rows, SlotFields DEF Typed
  <2> QED
    BY <2>1, <2>2
<1>2. Committed(r, C, Idle) /\ sessions' = Detached(j.old)
  BY DEF CommitSave
<1>3. Idle \in Job /\ ~OfRow(Idle)
  BY DEF Job, Idle, OfRow
<1> HIDE DEF j, C
<1>4. /\ request' \in [Requests -> Job] /\ request'[r] = Idle
      /\ Others(r) /\ raced' \subseteq Courses /\ raced \subseteq raced'
      /\ (request[r].alone => raced' = raced) /\ (~request[r].alone => C \subseteq raced')
  BY <1>1, <1>2, <1>3, CommittedIs DEF Others
<1>5. PeopleStay /\ begun' = begun /\ stripped' = stripped /\ strained' = strained
  BY DEF CommitSave, PeopleStay
<1>6. sessions' \in Seq(Session)
  BY <1>2, DetachedIs DEF Typed
<1>7. RowsLast /\ slots' \in Seq(Slot \cup {Gone})
  BY SaveRows
<1>8. Typed'
  BY <1>3, <1>4, <1>5, <1>6, <1>7, SessionsTyped, CommitTyped
<1> QED
  BY <1>2, <1>4, <1>5, <1>8 DEF j, C

\* The sessions of the old classes go to the drafts, or to none.
LEMMA TakenOverIs ==
  ASSUME TypeOK, NEW job, job \in PublishJob, job.drafts \subseteq Ids
  PROVE  /\ TakenOver(job) \in Seq(Session) /\ DOMAIN TakenOver(job) = DOMAIN sessions
         /\ \A k \in DOMAIN sessions :
              \/ TakenOver(job)[k].slot \in job.drafts \cup {NoSlot}
              \/ TakenOver(job)[k].slot = sessions[k].slot /\ sessions[k].slot \notin job.old
<1> DEFINE heirs(k) == {d \in job.drafts : sessions[k].slot \in Reissued(job, d)}
<1>1. ASSUME NEW k \in DOMAIN sessions
      PROVE  /\ TakenOver(job)[k] \in Session
             /\ \/ TakenOver(job)[k].slot \in job.drafts \cup {NoSlot}
                \/ TakenOver(job)[k].slot = sessions[k].slot /\ sessions[k].slot \notin job.old
  <2>1. sessions[k] \in Session
    BY SessionRows DEF Session
  <2>2. CASE heirs(k) # {}
    <3> DEFINE d == CHOOSE e \in heirs(k) : TRUE
    <3>1. d \in job.drafts
      BY <2>2
    <3>2. TakenOver(job)[k] = [sessions[k] EXCEPT !.slot = d]
      BY <2>2 DEF TakenOver
    <3>3. d \in Nat
      BY <3>1, Rows
    <3> HIDE DEF d
    <3> QED
      BY <2>1, <3>1, <3>2, <3>3 DEF Session
  <2>3. CASE heirs(k) = {}
    <3>1. TakenOver(job)[k] = Detached(job.old)[k]
      BY <2>3 DEF TakenOver
    <3>2. Detached(job.old)[k] \in Session
      BY DetachedIs, SessionRows, ElementOfSeq, LenProperties
    <3> QED
      BY <3>1, <3>2, DetachedIs
  <2> QED
    BY <2>2, <2>3
<1>2. DOMAIN TakenOver(job) = DOMAIN sessions /\ TakenOver(job) = [k \in DOMAIN sessions |-> TakenOver(job)[k]]
  BY DEF TakenOver
<1>3. TakenOver(job) \in [1..Len(sessions) -> Session] /\ Len(sessions) \in Nat
  BY <1>1, <1>2, SessionRows
<1> QED
  BY <1>1, <1>2, <1>3, SeqFromFunction

LEMMA PublishCommits ==
  ASSUME Typed, NEW r \in Requests, CommitPublish(r), \A d \in request[r].drafts : Exists(d)
  PROVE  LET j == request[r]
             C == j.courses \cup
                    {slots[i].course : i \in {k \in j.drafts \cup j.old : Exists(k)}}
             after == [c \in j.courses |->
                         {At(j.seen[d]) : d \in {e \in j.drafts : j.seen[e].course = c}}]
         IN  /\ PeopleStay /\ Others(r)
             /\ request'[r] = [op |-> "published", courses |-> j.courses, before |-> j.before,
                               after |-> after, alone |-> TRUE]
             /\ request'[r] \in PublishedJob
             /\ raced \subseteq raced' /\ (j.alone => raced' = raced) /\ (~j.alone => C \subseteq raced')
             /\ stripped' = stripped /\ strained' = strained /\ sessions' = TakenOver(j)
             /\ Typed'
<1> DEFINE j == request[r]
           C == j.courses \cup {slots[i].course : i \in {k \in j.drafts \cup j.old : Exists(k)}}
           after == [c \in j.courses |->
                       {At(j.seen[d]) : d \in {e \in j.drafts : j.seen[e].course = c}}]
           job == [op |-> "published", courses |-> j.courses, before |-> j.before,
                   after |-> after, alone |-> TRUE]
<1>1. j \in PublishJob /\ j.courses \subseteq Courses /\ j.before \in Befores
  BY PublishRows DEF PublishJob
<1>2. C \subseteq Courses
  <2>1. \A k : Exists(k) => slots[k].course \in Courses
    BY Rows, SlotFields DEF Typed
  <2> QED
    BY <1>1, <2>1
<1>3. after \in Befores /\ DOMAIN after = j.courses
  <2>1. \A d \in j.drafts : At(j.seen[d]) \in Place
    BY <1>1, SlotFields DEF PublishJob
  <2>2. after \in [j.courses -> SUBSET Place]
    BY <2>1
  <2> HIDE DEF after, j
  <2> QED
    BY <1>1, <2>2 DEF Befores
<1>4. Committed(r, C, job) /\ sessions' = TakenOver(j) /\ stripped' = stripped
      /\ UNCHANGED <<offered, teachers, registered, told, today, begun, missed, strained, joined>>
  BY DEF CommitPublish
<1>5. job \in PublishedJob /\ ~OfRow(job)
  <2> HIDE DEF after, j
  <2> QED
    BY <1>1, <1>3 DEF PublishedJob, OfRow
<1>6. job \in Job
  BY <1>5 DEF Job
<1> HIDE DEF j, C, job
<1>7. /\ request' \in [Requests -> Job] /\ request'[r] = job
      /\ Others(r) /\ raced' \subseteq Courses /\ raced \subseteq raced'
      /\ (request[r].alone => raced' = raced) /\ (~request[r].alone => C \subseteq raced')
  BY <1>2, <1>4, <1>6, CommittedIs DEF Others
<1>8. PeopleStay /\ begun' = begun
  BY <1>4 DEF PeopleStay
<1>9. j.drafts \subseteq Ids /\ RowsLast /\ slots' \in Seq(Slot \cup {Gone})
  BY PublishRows DEF j
<1>10. sessions' \in Seq(Session)
  BY <1>1, <1>4, <1>9, TakenOverIs DEF Typed
<1>11. Typed'
  BY <1>4, <1>5, <1>7, <1>8, <1>9, <1>10, SessionsTyped, CommitTyped
<1> QED
  BY <1>4, <1>5, <1>7, <1>8, <1>11 DEF j, C, job

-----------------------------------------------------------------------------
(* Types *)

\* A handler that has read, or is done, touches no table.
LEMMA AskTyped ==
  ASSUME Typed, NEW r \in Requests, NEW job \in Job, Ask(r, job),
         OfRow(job) =>
           job.id \in Ids /\ (job.seen.published /\ Exists(job.id) => Published(job.id))
  PROVE  Typed'
<1>1. /\ request' = [request EXCEPT ![r] = job] /\ request \in [Requests -> Job]
      /\ begun < MaxBegun /\ begun' = begun + 1
      /\ UNCHANGED <<tables, told, today, raced, stripped, missed, strained, joined>>
  BY DEF Ask, Typed
<1>2. begun' \in 0..MaxBegun
  BY <1>1, SessionsTyped, TimetableAssumption
<1>3. TypeOK'
  BY <1>1, <1>2 DEF Typed, TypeOK, tables, People, Ids
<1>4. request' \in [Requests -> Job]
  BY <1>1
<1>5. Noted'
  <2>1. slots' = slots /\ \A q \in Requests : request'[q] = IF q = r THEN job ELSE request[q]
    BY <1>1 DEF tables
  <2> QED
    BY <2>1 DEF Typed, Noted, Exists, Published, Ids
<1> QED
  BY <1>3, <1>4, <1>5 DEF Typed

\* Steps that leave the rows alone and take no reading of them.
LEMMA QuietTyped ==
  ASSUME Typed, NEW r \in Requests, TypeOK', slots' = slots,
         request' = [request EXCEPT ![r] = Idle] \/ request' = request
  PROVE  Typed'
<1>1. Idle \in Job /\ ~OfRow(Idle)
  BY DEF Job, Idle, OfRow
<1>2. request' \in [Requests -> Job]
  BY <1>1 DEF Typed
<1>3. \A q \in Requests : request'[q] = request[q] \/ request'[q] = Idle
  BY DEF Typed
<1>4. Noted'
  BY <1>1, <1>3 DEF Typed, Noted, Exists, Published, Ids
<1> QED
  BY <1>2, <1>4 DEF Typed

\* What a handler has read and checked is still so.
ReadsTrue(j) ==
  /\ j.op = "create" => ValidSlot(j.class, NoSlot) /\ j.before = Schedules({j.class.course})
  /\ j.op = "update" =>
       /\ Exists(j.id) /\ ValidSlot(j.class, j.id) /\ j.seen = slots[j.id]
       /\ j.before = Schedules({j.seen.course, j.class.course})
  /\ j.op = "delete" =>
       /\ Exists(j.id) /\ j.seen = slots[j.id] /\ j.filed \subseteq FiledUnder(j.id)
       /\ j.before = Schedules({j.seen.course})
  /\ j.op = "save" =>
       /\ PlanOk(j.plan)
       /\ j.old = {i \in Ids : Draft(i) /\ slots[i].course \in {a.course : a \in j.plan}}
  /\ j.op = "publish" =>
       /\ j.drafts = {i \in Ids : Draft(i)} /\ j.seen = slots
       /\ j.courses = {slots[i].course : i \in j.drafts}
       /\ j.old = {i \in Ids : Published(i) /\ slots[i].course \in j.courses}
       /\ j.before = Schedules(j.courses)

LEMMA BeginTyped ==
  ASSUME Typed, NEW r \in Requests,
         \/ \E class \in Forms : BeginCreate(r, class)
         \/ \E i \in Ids, class \in Forms : BeginUpdate(r, i, class)
         \/ \E i \in Ids : BeginDelete(r, i)
         \/ \E plan \in Plans \cup {CopyPlan(kept) : kept \in SUBSET Courses} : BeginSave(r, plan)
         \/ BeginPublish(r)
  PROVE  \E job \in Asked : Ask(r, job) /\ ReadsTrue(job) /\ (job.alone => AllTold) /\ Typed'
<1>0. AllTold \in BOOLEAN /\ TypeOK /\ Asked \subseteq Job
  BY DEF AllTold, Typed, Job
<1>1. ASSUME NEW class \in Forms, BeginCreate(r, class)
      PROVE  \E job \in Asked : Ask(r, job) /\ ReadsTrue(job) /\ (job.alone => AllTold) /\ Typed'
  <2> DEFINE job == [op |-> "create", class |-> class, before |-> Schedules({class.course}),
                     alone |-> AllTold]
  <2>1. class \in Bookable /\ Schedules({class.course}) \in Befores
    BY <1>0, <1>1, ClassFields, SchedulesTyped, TimetableAssumption
       DEF Bookable, Ordered, BeginCreate, ValidSlot
  <2>2. job \in CreateJob /\ ~OfRow(job) /\ Ask(r, job)
    BY <1>0, <1>1, <2>1 DEF CreateJob, BeginCreate, OfRow
  <2>3. ReadsTrue(job) /\ (job.alone => AllTold)
    BY <1>1 DEF ReadsTrue, BeginCreate
  <2> HIDE DEF job
  <2>4. job \in Asked
    BY <2>2 DEF Asked
  <2> QED
    BY <1>0, <2>2, <2>3, <2>4, AskTyped
<1>2. ASSUME NEW i \in Ids, NEW class \in Forms, BeginUpdate(r, i, class)
      PROVE  \E job \in Asked : Ask(r, job) /\ ReadsTrue(job) /\ (job.alone => AllTold) /\ Typed'
  <2> DEFINE job == [op |-> "update", id |-> i, class |-> class, seen |-> slots[i],
                     before |-> Schedules({slots[i].course, class.course}), alone |-> AllTold]
  <2>1. class \in Bookable /\ slots[i] \in Slot /\ i \in Nat
    BY <1>0, <1>2, Rows, TimetableAssumption DEF BeginUpdate, Bookable, Ordered, ValidSlot
  <2>2. Schedules({slots[i].course, class.course}) \in Befores
    BY <1>0, <2>1, ClassFields, SlotFields, SchedulesTyped DEF Bookable
  <2>3. job \in UpdateJob /\ Ask(r, job) /\ job.id = i /\ job.seen = slots[i]
    BY <1>0, <1>2, <2>1, <2>2 DEF UpdateJob, BeginUpdate
  <2>4. ReadsTrue(job) /\ (job.alone => AllTold)
    BY <1>2 DEF ReadsTrue, BeginUpdate
  <2> HIDE DEF job
  <2>5. job \in Asked
    BY <2>3 DEF Asked
  <2> QED
    BY <1>0, <2>3, <2>4, <2>5, AskTyped DEF Published
<1>3. ASSUME NEW plan \in Plans \cup {CopyPlan(kept) : kept \in SUBSET Courses}, BeginSave(r, plan)
      PROVE  \E job \in Asked : Ask(r, job) /\ ReadsTrue(job) /\ (job.alone => AllTold) /\ Typed'
  <2> DEFINE old == {i \in Ids : Draft(i) /\ slots[i].course \in {a.course : a \in plan}}
             job == [op |-> "save", plan |-> plan, old |-> old, alone |-> AllTold]
  <2>1. plan \in SUBSET Bookable /\ IsFiniteSet(plan)
    <3>1. plan \in SUBSET Class /\ IsFiniteSet(plan)
      <4>1. CASE plan \in Plans
        BY <4>1, TimetableAssumption
      <4>2. CASE plan \in {CopyPlan(kept) : kept \in SUBSET Courses}
        <5>1. plan \in SUBSET LastYear
          BY <4>2 DEF CopyPlan
        <5> QED
          BY <5>1, FS_Subset, TimetableAssumption
      <4> QED
        BY <4>1, <4>2
    <3> QED
      BY <1>3, <3>1 DEF BeginSave, PlanOk, Bookable, Ordered
  <2>2. old \in SUBSET Nat
    BY <1>0, Rows
  <2>3. job \in SaveJob /\ ~OfRow(job) /\ Ask(r, job)
    BY <1>0, <1>3, <2>1, <2>2 DEF SaveJob, BeginSave, OfRow
  <2>4. ReadsTrue(job) /\ (job.alone => AllTold)
    BY <1>3 DEF ReadsTrue, BeginSave
  <2> HIDE DEF job
  <2>5. job \in Asked
    BY <2>3 DEF Asked
  <2> QED
    BY <1>0, <2>3, <2>4, <2>5, AskTyped
<1>4. ASSUME BeginPublish(r)
      PROVE  \E job \in Asked : Ask(r, job) /\ ReadsTrue(job) /\ (job.alone => AllTold) /\ Typed'
  <2> DEFINE drafts == {i \in Ids : Draft(i)}
             courses == {slots[i].course : i \in drafts}
             old == {i \in Ids : Published(i) /\ slots[i].course \in courses}
             job == [op |-> "publish", drafts |-> drafts, seen |-> slots, courses |-> courses,
                     old |-> old, before |-> Schedules(courses), alone |-> AllTold]
  <2>1. /\ drafts \in SUBSET Nat /\ old \in SUBSET (Nat \ {NoSlot}) /\ courses \in SUBSET Courses
        /\ \A d \in drafts : slots[d] \in Slot
        /\ \A i \in old : slots[i] \in Slot /\ slots[i].published
    BY <1>0, Rows, RowsExist, SlotFields DEF Published, NoSlot
  <2>2. Schedules(courses) \in Befores
    BY <1>0, <2>1, SchedulesTyped
  <2>3. slots \in Seq(Slot \cup {Gone}) /\ Ask(r, job)
    BY <1>0, <1>4 DEF TypeOK, BeginPublish
  <2>6. ReadsTrue(job) /\ (job.alone => AllTold)
    BY DEF ReadsTrue
  <2> HIDE DEF drafts, courses, old
  <2>4. job \in PublishJob /\ ~OfRow(job)
    BY <1>0, <2>1, <2>2, <2>3 DEF PublishJob, OfRow
  <2> HIDE DEF job
  <2>5. job \in Asked
    BY <2>4 DEF Asked
  <2> QED
    BY <1>0, <2>3, <2>4, <2>5, <2>6, AskTyped
<1>5. ASSUME NEW i \in Ids, BeginDelete(r, i)
      PROVE  \E job \in Asked : Ask(r, job) /\ ReadsTrue(job) /\ (job.alone => AllTold) /\ Typed'
  <2> DEFINE job == [op |-> "delete", id |-> i, seen |-> slots[i], filed |-> FiledUnder(i),
                     before |-> Schedules({slots[i].course}), alone |-> AllTold]
  <2>1. slots[i] \in Slot /\ i \in Nat /\ FiledUnder(i) \in SUBSET Nat
    BY <1>0, <1>5, Rows, SessionRows DEF BeginDelete, FiledUnder
  <2>2. Schedules({slots[i].course}) \in Befores
    BY <1>0, <2>1, SlotFields, SchedulesTyped
  <2>3. job \in DeleteJob /\ Ask(r, job) /\ job.id = i /\ job.seen = slots[i]
    BY <1>0, <1>5, <2>1, <2>2 DEF DeleteJob, BeginDelete
  <2>4. ReadsTrue(job) /\ (job.alone => AllTold)
    BY <1>5 DEF ReadsTrue, BeginDelete
  <2> HIDE DEF job
  <2>5. job \in Asked
    BY <2>3 DEF Asked
  <2> QED
    BY <1>0, <2>3, <2>4, <2>5, AskTyped DEF Published
<1> QED
  BY <1>1, <1>2, <1>3, <1>4, <1>5

LEMMA TellTyped ==
  ASSUME Typed, NEW r \in Requests, Tell(r) \/ TellFails(r)
  PROVE  Typed'
<1> DEFINE j == request[r]
<1>1. j \in EditedJob \/ j \in PublishedJob
  BY JobKinds DEF Typed, Tell, TellFails
<1>2. j.courses \subseteq Courses /\ \A c \in j.courses : After(j)[c] \in SUBSET Place
  <2>1. CASE j \in EditedJob
    BY <2>1, SchedulesTyped, ScheduleTyped DEF EditedJob, After, Typed
  <2>2. CASE j \in PublishedJob
    <3>1. j.op = "published" /\ j.after \in [j.courses -> SUBSET Place] /\ j.courses \subseteq Courses
      BY <2>2 DEF PublishedJob, Befores
    <3> QED
      BY <3>1 DEF After
  <2> QED
    BY <1>1, <2>1, <2>2
<1>3. /\ slots' = slots /\ sessions' = sessions /\ offered' = offered /\ teachers' = teachers
      /\ registered' = registered /\ strained' = strained /\ joined' \subseteq joined
      /\ today' = today /\ begun' = begun /\ stripped' = stripped
      /\ request' = [request EXCEPT ![r] = Idle]
  BY DEF Tell, TellFails, tables
<1>4. raced' \subseteq Courses /\ missed' \subseteq Courses
  BY <1>2, SessionsTyped DEF Tell, TellFails
<1>5. ASSUME NEW c \in Courses
      PROVE  told'[c] \in [People -> SUBSET Place]
  <2>1. told[c] \in [People -> SUBSET Place]
    BY DEF Typed, TypeOK
  <2>2. CASE TellFails(r)
    BY <2>1, <2>2 DEF TellFails
  <2>3. CASE Tell(r)
    <3>1. told'[c] = IF c \in Changed(j)
                       THEN [p \in People |-> IF p \in Affected(c) THEN After(j)[c] ELSE told[c][p]]
                       ELSE told[c]
      BY <2>3 DEF Tell
    <3>2. Changed(j) \subseteq j.courses
      BY DEF Changed
    <3> QED
      BY <1>2, <2>1, <3>1, <3>2
  <2> QED
    BY <2>2, <2>3
<1>6. TypeOK'
  BY <1>3, <1>4, <1>5 DEF Typed, TypeOK, People, Ids
<1> QED
  BY <1>3, <1>6, QuietTyped

LEMMA StartTyped ==
  ASSUME Typed, NEW c \in Courses, NEW now \in Hours, StartClass(c, now)
  PROVE  /\ TypeOK' /\ Published(SlotFor(c, now))
         /\ DOMAIN sessions' = 1..(Len(sessions) + 1)
         /\ \A k \in DOMAIN sessions : sessions'[k] = sessions[k]
         /\ sessions'[Len(sessions) + 1].slot = SlotFor(c, now)
<1> DEFINE i == SlotFor(c, now)
           s == [course |-> c, slot |-> i, start |-> slots[i].time[1], date |-> today]
<1>1. Published(i) /\ sessions' = Append(sessions, s)
  BY SlotForIs DEF StartClass, Typed
<1>2. i \in Nat /\ slots[i] \in Slot /\ today \in 0..MaxDay
  BY <1>1, Rows, RowsExist DEF Typed, TypeOK
<1>3. s \in Session /\ s.slot = i
  BY <1>2, SlotFields DEF Session
<1>4. sessions \in Seq(Session)
  BY SessionsTyped
<1> HIDE DEF s
<1>5. /\ sessions' \in Seq(Session) /\ Len(sessions') = Len(sessions) + 1
      /\ \A k \in 1..Len(sessions) : sessions'[k] = sessions[k]
      /\ sessions'[Len(sessions) + 1] = s
  BY <1>1, <1>3, <1>4, AppendProperties
<1>6. DOMAIN sessions' = 1..Len(sessions') /\ DOMAIN sessions = 1..Len(sessions)
  BY <1>4, <1>5, LenProperties
<1>7. TypeOK'
  BY <1>5 DEF Typed, TypeOK, StartClass, People, Session, Ids
<1> QED
  BY <1>1, <1>3, <1>5, <1>6, <1>7

\* What is no request's: courses uploaded, a class started, a day passed.
Elsewhere ==
  \/ \E plan \in Plans : AddMissing(plan)
  \/ \E c \in Courses, now \in Hours : StartClass(c, now)
  \/ NextDay
  \/ UNCHANGED vars

\* What neither reads, commits nor tells: those, and a request rolled back.
Aside == Elsewhere \/ \E r \in Requests : RolledBack(r) /\ Asking(r)

LEMMA AsideTyped ==
  ASSUME Typed, Aside
  PROVE  /\ Typed'
         /\ UNCHANGED <<slots, teachers, registered, told, raced, stripped, missed, strained, joined>>
         /\ offered \subseteq offered'
         /\ \A i : FiledUnder(i) \subseteq FiledUnder(i)'
         /\ \A q \in Requests : request'[q] = request[q] \/ (Asking(q) /\ request'[q] = Idle)
<1>1. CASE \E r \in Requests : RolledBack(r) /\ Asking(r)
  <2>1. PICK r \in Requests : RolledBack(r) /\ Asking(r)
    BY <1>1
  <2>2. TypeOK'
    BY <2>1 DEF RolledBack, Typed, TypeOK, tables, People, Ids
  <2>3. Typed'
    BY <2>1, <2>2, QuietTyped DEF RolledBack, tables
  <2> QED
    BY <2>1, <2>3 DEF RolledBack, tables, Typed, FiledUnder
<1>2. CASE \E plan \in Plans : AddMissing(plan)
  <2>1. PICK plan \in Plans : AddMissing(plan)
    BY <1>2
  <2>2. \A a \in plan : a.course \in Courses
    BY ClassFields, TimetableAssumption
  <2>3. TypeOK'
    BY <2>1, <2>2 DEF AddMissing, Missing, Typed, TypeOK, People, Ids
  <2>4. Noted' /\ request' = request
    BY <2>1 DEF AddMissing, Typed, Noted, Exists, Published, Ids
  <2> QED
    BY <2>1, <2>3, <2>4 DEF AddMissing, Typed, FiledUnder
<1>3. CASE \E c \in Courses, now \in Hours : StartClass(c, now)
  <2>1. PICK c \in Courses, now \in Hours : StartClass(c, now)
    BY <1>3
  <2>2. TypeOK'
    BY <2>1, StartTyped
  <2>3. Noted' /\ request' = request
    BY <2>1 DEF StartClass, Typed, Noted, Exists, Published, Ids
  <2>4. \A i : FiledUnder(i) \subseteq FiledUnder(i)'
    BY <2>1, StartTyped, SessionRows DEF FiledUnder, Typed
  <2> QED
    BY <2>1, <2>2, <2>3, <2>4 DEF StartClass, Typed
<1>4. CASE NextDay
  <2>1. today' \in 0..MaxDay
    BY <1>4, TimetableAssumption DEF NextDay, Typed, TypeOK
  <2>2. TypeOK'
    BY <1>4, <2>1 DEF NextDay, Typed, TypeOK, tables, People, Ids
  <2>3. Noted' /\ request' = request
    BY <1>4 DEF NextDay, tables, Typed, Noted, Exists, Published, Ids
  <2> QED
    BY <1>4, <2>2, <2>3 DEF NextDay, tables, Typed, FiledUnder
<1>5. CASE UNCHANGED vars
  <2>1. TypeOK' /\ Noted' /\ request' = request
    BY <1>5 DEF vars, tables, Typed, TypeOK, People, Noted, Exists, Published, Ids
  <2> QED
    BY <1>5, <2>1 DEF vars, tables, Typed, FiledUnder
<1> QED
  BY <1>1, <1>2, <1>3, <1>4, <1>5 DEF Aside, Elsewhere

-----------------------------------------------------------------------------
(* The invariant *)

\* A request nobody overtook commits or tells what it read.
ReadsHold(r) ==
  Asking(r) /\ request[r].alone => AllTold /\ ReadsTrue(request[r])

\* Whom a course concerns knows the schedule s, unless they came to it since.
Know(c, s) == \A p \in Affected(c) : <<c, p>> \in joined \/ told[c][p] = s

NoticeStands(r) ==
  Pending(r) /\ request[r].alone =>
    LET j == request[r] IN
    /\ j.courses \subseteq raced \/ \A q \in Requests \ {r} : ~Pending(q)
    /\ \A c \in j.courses \ raced :
         /\ c \notin missed => Know(c, j.before[c])
         /\ j.op = "published" => j.after[c] = Schedule(c)

\* Of a course nobody is to be told about, people know the schedule.
Untold(c) == \E r \in Requests : Pending(r) /\ c \in request[r].courses

Told(c) ==
  c \notin raced \cup missed /\ ~Untold(c) => Know(c, Schedule(c))

\* Drafts may clash only with the published classes they are to replace.
Drafted(c) == \E d \in Ids : Draft(d) /\ slots[d].course = c
Replaces(i, j) == Draft(i) /\ Published(j) /\ Drafted(slots[j].course)
Disturbed(i, j) == {slots[i].course, slots[j].course} \cap (raced \cup stripped) # {}
Strained(i, j) == {<<i, j>>, <<j, i>>} \subseteq strained

Apart(i, j) ==
  i # j /\ Exists(i) /\ Exists(j) /\ Clash(slots[i], slots[j]) =>
    Disturbed(i, j) \/ Strained(i, j) \/ Replaces(i, j) \/ Replaces(j, i)

ReadsAllHold == \A r \in Requests : ReadsHold(r)
NoticesStand == \A r \in Requests : NoticeStands(r)
AllAreTold == \A c \in Courses : Told(c)
AllApart == \A i, j \in Ids : Apart(i, j)

IInv ==
  /\ Typed /\ SessionsHaveTheirClass
  /\ ReadsAllHold /\ NoticesStand /\ AllAreTold /\ AllApart

LEMMA ClashOf ==
  ASSUME NEW a, NEW b, NEW c, NEW d, Clash(a, b),
         c.course = a.course, c.time = a.time, c.room = a.room,
         d.course = b.course, d.time = b.time, d.room = b.room
  PROVE  Clash(c, d) /\ Clash(d, c)
  BY DEF Clash, Overlap

LEMMA AffectedIs ==
  ASSUME TypeOK, NEW c \in Courses
  PROVE  Affected(c) \subseteq People
<1>1. registered[c] \subseteq Students /\ teachers[c] \subseteq Lecturers
  BY DEF TypeOK
<1> QED
  BY <1>1 DEF Affected, People

LEMMA InitKeeps ==
  ASSUME Init
  PROVE  IInv
<1>1. PICK P \in Plans \cup {{}} :
        /\ \A a \in P : a.time[1] < a.time[2]
        /\ \A a, b \in P : a # b => ~Clash(a, b)
        /\ slots = [i \in 1..Cardinality(P) |->
                     LET s == SetToSeq(P)[i] IN
                     [course |-> s.course, time |-> s.time, room |-> s.room,
                      published |-> TRUE, since |-> 0]]
        /\ offered \in {O \in SUBSET Courses : \A a \in P : a.course \in O}
  BY DEF Init
<1>2. P \subseteq Class /\ IsFiniteSet(P)
  BY TimetableAssumption, FS_EmptySet
<1> DEFINE N == Cardinality(P)
           s == SetToSeq(P)
<1>3. N \in Nat /\ s \in [1..N -> P] /\ \A i, j \in 1..N : s[i] = s[j] => i = j
  BY <1>2, SetToSeqOf
<1>4. Ids = 1..N
  BY <1>1 DEF Ids
<1>5. ASSUME NEW i \in Ids
      PROVE  /\ slots[i] \in Slot /\ slots[i].published /\ s[i] \in P
             /\ slots[i].course = s[i].course /\ slots[i].time = s[i].time
             /\ slots[i].room = s[i].room
  <2>1. s[i] \in Class /\ s[i] \in P
    BY <1>2, <1>3, <1>4
  <2>2. slots[i] = [course |-> s[i].course, time |-> s[i].time, room |-> s[i].room,
                    published |-> TRUE, since |-> 0]
    BY <1>1, <1>4
  <2>3. 0 \in 0..MaxDay
    BY TimetableAssumption
  <2> HIDE DEF s
  <2>4. slots[i] \in Slot
    BY <2>1, <2>2, <2>3, ClassFields, SlotRow
  <2> QED
    BY <2>1, <2>2, <2>4
<1>6. slots \in Seq(Slot \cup {Gone})
  <2>1. slots \in [1..N -> Slot \cup {Gone}]
    BY <1>1, <1>4, <1>5
  <2> HIDE DEF N
  <2> QED
    BY <1>3, <2>1, SeqFromFunction
<1>7. /\ sessions = <<>> /\ raced = {} /\ stripped = {} /\ missed = {} /\ today = 0 /\ begun = 0
      /\ request = [r \in Requests |-> Idle] /\ teachers \in Teachings
      /\ registered = Registered /\ strained = {} /\ joined = {}
      /\ told = [c \in Courses |-> [p \in People |-> Schedule(c)]]
  BY DEF Init
<1>8. \A c \in Courses : Schedule(c) \in SUBSET Place
  BY <1>5, SlotFields DEF Schedule
<1>9. TypeOK
  <2>1. offered \subseteq Courses /\ today \in 0..MaxDay /\ begun \in 0..MaxBegun
    BY <1>1, <1>7, TimetableAssumption
  <2>2. sessions \in Seq([course : Courses, slot : Nat, start : Nat, date : 0..MaxDay])
    BY <1>7, EmptySeq
  <2>3. \A c \in Courses : told[c] \in [People -> SUBSET Place]
    BY <1>7, <1>8
  <2>4. /\ teachers \in [Courses -> (SUBSET Lecturers) \ {{}}]
        /\ registered \in [Courses -> SUBSET Students]
    BY <1>7, TimetableAssumption
  <2> QED
    BY <1>6, <1>7, <2>1, <2>2, <2>3, <2>4 DEF TypeOK
<1>10. request \in [Requests -> Job] /\ \A r \in Requests : request[r].op = "idle"
  BY <1>7 DEF Job, Idle
<1>11. Typed /\ ReadsAllHold /\ NoticesStand
  BY <1>9, <1>10
     DEF Typed, Noted, OfRow, ReadsAllHold, ReadsHold, Asking, NoticesStand, NoticeStands, Pending
<1>12. AllAreTold
  <2>1. \A c \in Courses : Affected(c) \subseteq People
    BY <1>9, AffectedIs
  <2> QED
    BY <1>7, <2>1 DEF AllAreTold, Told, Know
<1>13. SessionsHaveTheirClass
  BY <1>7 DEF SessionsHaveTheirClass
<1>14. AllApart
  <2> SUFFICES ASSUME NEW i \in Ids, NEW j \in Ids, i # j, Clash(slots[i], slots[j]) PROVE FALSE
    BY DEF AllApart, Apart
  <2>1. s[i] # s[j] /\ s[i] \in P /\ s[j] \in P
    BY <1>3, <1>4, <1>5
  <2> HIDE DEF s
  <2>2. Clash(s[i], s[j])
    BY <1>5, ClashOf
  <2> QED
    BY <1>1, <2>1, <2>2
<1> QED
  BY <1>11, <1>12, <1>13, <1>14 DEF IInv

-----------------------------------------------------------------------------
(* Steps that leave the rows as they are *)

LEMMA SameRows ==
  ASSUME slots' = slots
  PROVE  /\ \A c : Schedule(c)' = Schedule(c)
         /\ \A C : Schedules(C)' = Schedules(C)
         /\ Ids' = Ids
         /\ \A i : /\ Exists(i)' <=> Exists(i)
                   /\ Published(i)' <=> Published(i)
                   /\ Draft(i)' <=> Draft(i)
  BY DEF Schedules, Schedule, Ids, Exists, Published, Draft

LEMMA SamePeople ==
  ASSUME teachers' = teachers, registered' = registered, told' = told, joined' = joined
  PROVE  \A c, s : Know(c, s)' <=> Know(c, s)
  BY DEF Know, Affected

LEMMA ReadsStay ==
  ASSUME slots' = slots, teachers' = teachers, offered \subseteq offered',
         \A i : FiledUnder(i) \subseteq FiledUnder(i)',
         NEW j, ReadsTrue(j)
  PROVE  ReadsTrue(j)'
<1>1. ASSUME NEW class, NEW i, ValidSlot(class, i)
      PROVE  ValidSlot(class, i)'
  BY <1>1 DEF ValidSlot, Clash, Exists, Ids
<1>2. ASSUME NEW plan, PlanOk(plan)
      PROVE  PlanOk(plan)'
  <2>1. Missing(plan)' = {}
    BY <1>2 DEF PlanOk, Missing
  <2>2. FitsStored(plan)'
    BY <1>2 DEF PlanOk, FitsStored, Clash, Exists, Ids
  <2> QED
    BY <1>2, <2>1, <2>2 DEF PlanOk, Clash
<1>3. j.op = "create" => ValidSlot(j.class, NoSlot)' /\ j.before = Schedules({j.class.course})'
  BY <1>1, SameRows DEF ReadsTrue
<1>4. j.op = "update" =>
        /\ Exists(j.id)' /\ ValidSlot(j.class, j.id)' /\ j.seen = slots'[j.id]
        /\ j.before = Schedules({j.seen.course, j.class.course})'
  BY <1>1, SameRows DEF ReadsTrue
<1>5. j.op = "save" =>
        /\ PlanOk(j.plan)'
        /\ j.old = {i \in Ids' : Draft(i)' /\ slots'[i].course \in {a.course : a \in j.plan}}
  BY <1>2, SameRows DEF ReadsTrue
<1>6. j.op = "publish" =>
        /\ j.drafts = {i \in Ids' : Draft(i)'} /\ j.seen = slots'
        /\ j.courses = {slots'[i].course : i \in j.drafts}
        /\ j.old = {i \in Ids' : Published(i)' /\ slots'[i].course \in j.courses}
        /\ j.before = Schedules(j.courses)'
  BY SameRows DEF ReadsTrue
<1>7. j.op = "delete" =>
        /\ Exists(j.id)' /\ j.seen = slots'[j.id] /\ j.filed \subseteq FiledUnder(j.id)'
        /\ j.before = Schedules({j.seen.course})'
  BY SameRows DEF ReadsTrue
<1> QED
  BY <1>3, <1>4, <1>5, <1>6, <1>7 DEF ReadsTrue

LEMMA ApartStays ==
  ASSUME AllApart, slots' = slots, teachers' = teachers,
         raced \subseteq raced', stripped \subseteq stripped', strained' = strained
  PROVE  AllApart'
<1> SUFFICES ASSUME NEW i \in Ids, NEW j \in Ids PROVE Apart(i, j)'
  BY DEF AllApart, Ids
<1>1. Apart(i, j)
  BY DEF AllApart
<1>2. /\ Clash(slots[i], slots[j])' <=> Clash(slots[i], slots[j])
      /\ Disturbed(i, j) => Disturbed(i, j)'
      /\ Strained(i, j) => Strained(i, j)'
  BY DEF Clash, Disturbed, Strained
<1>3. /\ Replaces(i, j)' <=> Replaces(i, j)
      /\ Replaces(j, i)' <=> Replaces(j, i)
      /\ Exists(i)' <=> Exists(i)
      /\ Exists(j)' <=> Exists(j)
  BY DEF Replaces, Drafted, Draft, Published, Exists, Ids
<1> QED
  BY <1>1, <1>2, <1>3 DEF Apart

LEMMA AsideKeeps ==
  ASSUME IInv, Aside
  PROVE  IInv'
<1>1. /\ Typed'
      /\ UNCHANGED <<slots, teachers, registered, told, raced, stripped, missed, strained, joined>>
      /\ offered \subseteq offered' /\ \A i : FiledUnder(i) \subseteq FiledUnder(i)'
  BY AsideTyped DEF IInv
<1>2. \A q \in Requests : request'[q] = request[q] \/ (Asking(q) /\ request'[q] = Idle)
  BY AsideTyped DEF IInv
<1>3. \A q \in Requests : /\ Pending(q)' <=> Pending(q)
                          /\ Pending(q) => request'[q] = request[q]
                          /\ Asking(q)' => request'[q] = request[q]
  BY <1>2 DEF Pending, Asking, Idle
<1>4. SessionsHaveTheirClass'
  <2>1. CASE \E c \in Courses, now \in Hours : StartClass(c, now)
    <3>1. PICK c \in Courses, now \in Hours : StartClass(c, now)
      BY <2>1
    <3>2. SessionsHaveTheirClass /\ Typed
      BY DEF IInv, Typed
    <3>3. /\ Published(SlotFor(c, now)) /\ DOMAIN sessions' = 1..(Len(sessions) + 1)
          /\ \A k \in DOMAIN sessions : sessions'[k] = sessions[k]
          /\ sessions'[Len(sessions) + 1].slot = SlotFor(c, now)
      BY <3>1, <3>2, StartTyped
    <3>4. DOMAIN sessions = 1..Len(sessions) /\ Len(sessions) \in Nat
      BY <3>2, SessionRows DEF Typed
    <3>5. ASSUME NEW k \in DOMAIN sessions', sessions'[k].slot # NoSlot
          PROVE  Published(sessions'[k].slot)
      <4>1. CASE k \in DOMAIN sessions
        BY <3>2, <3>3, <3>5, <4>1 DEF SessionsHaveTheirClass
      <4>2. CASE k \notin DOMAIN sessions
        <5>1. k = Len(sessions) + 1
          BY <3>3, <3>4, <4>2
        <5> QED
          BY <3>3, <5>1
      <4> QED
        BY <4>1, <4>2
    <3> QED
      BY <1>1, <3>5 DEF SessionsHaveTheirClass, Published, Exists, Ids
  <2>2. CASE ~\E c \in Courses, now \in Hours : StartClass(c, now)
    <3>1. sessions' = sessions
      BY <2>2 DEF Aside, Elsewhere, RolledBack, AddMissing, NextDay, vars, tables
    <3> QED
      BY <1>1, <3>1 DEF IInv, SessionsHaveTheirClass, Published, Exists, Ids
  <2> QED
    BY <2>1, <2>2
<1>5. AllTold' <=> AllTold
  BY <1>3 DEF AllTold, Pending
<1>6. ReadsAllHold'
  <2> SUFFICES ASSUME NEW q \in Requests, Asking(q)', request'[q].alone
               PROVE  AllTold' /\ ReadsTrue(request[q])' /\ request'[q] = request[q]
    BY DEF ReadsAllHold, ReadsHold
  <2>1. request'[q] = request[q]
    BY <1>3
  <2>2. AllTold /\ ReadsTrue(request[q])
    BY <2>1 DEF IInv, ReadsAllHold, ReadsHold, Asking
  <2>3. PICK j : j = request[q]
    OBVIOUS
  <2>4. ReadsTrue(j)'
    BY <1>1, <2>2, <2>3, ReadsStay
  <2> QED
    BY <1>5, <2>1, <2>2, <2>3, <2>4
<1>7. \A c : Untold(c)' <=> Untold(c)
  BY <1>3 DEF Untold
<1>8. NoticesStand'
  <2> SUFFICES ASSUME NEW q \in Requests PROVE NoticeStands(q)'
    BY DEF NoticesStand
  <2>1. NoticeStands(q)
    BY DEF IInv, NoticesStand
  <2> QED
    BY <1>1, <1>3, <2>1, SameRows, SamePeople DEF NoticeStands
<1>9. AllAreTold'
  <2> SUFFICES ASSUME NEW c \in Courses PROVE Told(c)'
    BY DEF AllAreTold
  <2>1. Told(c)
    BY DEF IInv, AllAreTold
  <2> QED
    BY <1>1, <1>7, <2>1, SameRows, SamePeople DEF Told
<1>10. AllApart'
  BY <1>1, ApartStays DEF IInv
<1> QED
  BY <1>1, <1>4, <1>6, <1>8, <1>9, <1>10 DEF IInv

LEMMA AskKeeps ==
  ASSUME IInv, NEW r \in Requests, NEW job \in Asked, Ask(r, job), ReadsTrue(job),
         job.alone => AllTold, Typed'
  PROVE  IInv'
<1>1. /\ UNCHANGED <<slots, teachers, registered, sessions, offered, told, raced, stripped, missed,
                     strained, joined>>
      /\ request[r] = Idle /\ request' = [request EXCEPT ![r] = job]
  BY DEF Ask, tables
<1>2. /\ request'[r] = job /\ \A q \in Requests \ {r} : request'[q] = request[q]
      /\ job.op \in {"create", "update", "delete", "save", "publish"}
  BY <1>1 DEF IInv, Typed, Asked, CreateJob, UpdateJob, DeleteJob, SaveJob, PublishJob
<1>3. \A q \in Requests : /\ Pending(q)' <=> Pending(q)
                          /\ Pending(q) => request'[q] = request[q] /\ q # r
  BY <1>1, <1>2 DEF Pending, Idle
<1>4. AllTold' <=> AllTold
  BY <1>3 DEF AllTold, Pending
<1>5. ASSUME NEW q \in Requests, Asking(q)', request'[q].alone
      PROVE  AllTold' /\ ReadsTrue(request[q])'
  <2>1. PICK j : j = request'[q]
    OBVIOUS
  <2>2. AllTold /\ ReadsTrue(j)
    <3>1. CASE q = r
      BY <1>2, <1>5, <2>1, <3>1
    <3>2. CASE q # r
      <4>1. Asking(q) /\ request[q].alone /\ j = request[q]
        BY <1>2, <1>5, <2>1, <3>2 DEF Asking
      <4> QED
        BY <4>1 DEF IInv, ReadsAllHold, ReadsHold
    <3> QED
      BY <3>1, <3>2
  <2>3. ReadsTrue(j)'
    BY <1>1, <2>2, ReadsStay DEF FiledUnder
  <2> QED
    BY <1>4, <2>1, <2>2, <2>3
<1>6. ReadsAllHold'
  BY <1>5 DEF ReadsAllHold, ReadsHold
<1>7. \A c : Untold(c)' <=> Untold(c)
  BY <1>3 DEF Untold
<1>8. NoticesStand'
  <2> SUFFICES ASSUME NEW q \in Requests PROVE NoticeStands(q)'
    BY DEF NoticesStand
  <2>1. NoticeStands(q)
    BY DEF IInv, NoticesStand
  <2> QED
    BY <1>1, <1>3, <2>1, SameRows, SamePeople DEF NoticeStands
<1>9. AllAreTold'
  <2> SUFFICES ASSUME NEW c \in Courses PROVE Told(c)'
    BY DEF AllAreTold
  <2>1. Told(c)
    BY DEF IInv, AllAreTold
  <2> QED
    BY <1>1, <1>7, <2>1, SameRows, SamePeople DEF Told
<1>10. AllApart'
  BY <1>1, ApartStays DEF IInv
<1>11. SessionsHaveTheirClass'
  BY <1>1 DEF IInv, SessionsHaveTheirClass, Published, Exists, Ids
<1> QED
  BY <1>6, <1>8, <1>9, <1>10, <1>11 DEF IInv

\* What r tells is what is published, unless it was overtaken.
LEMMA TellsTheSchedule ==
  ASSUME IInv, NEW r \in Requests, Pending(r), NEW c \in request[r].courses, c \in Courses,
         c \notin raced, request[r].alone
  PROVE  /\ After(request[r])[c] = Schedule(c)
         /\ c \notin missed => Know(c, request[r].before[c])
<1>1. NoticeStands(r)
  BY DEF IInv, NoticesStand
<1>2. CASE request[r].op = "published"
  BY <1>1, <1>2 DEF NoticeStands, After
<1>3. CASE request[r].op # "published"
  <2>1. After(request[r]) = Schedules(request[r].courses)
    BY <1>3 DEF After
  <2> QED
    BY <1>1, <2>1 DEF NoticeStands, Schedules
<1> QED
  BY <1>2, <1>3

\* The answer of a request that had people to tell.
LEMMA TellStep ==
  ASSUME IInv, NEW r \in Requests, Tell(r) \/ TellFails(r)
  PROVE  /\ Pending(r) /\ Typed' /\ request[r].courses \subseteq Courses
         /\ UNCHANGED <<slots, teachers, registered, sessions, offered, stripped, strained>>
         /\ request'[r] = Idle /\ \A q \in Requests \ {r} : request'[q] = request[q]
         /\ raced \subseteq raced'
<1>1. request[r] \in EditedJob \/ request[r] \in PublishedJob
  BY JobKinds DEF IInv, Typed, Tell, TellFails
<1>2. request[r].courses \subseteq Courses
  BY <1>1 DEF EditedJob, PublishedJob
<1>3. Typed'
  BY TellTyped DEF IInv
<1> QED
  BY <1>2, <1>3 DEF IInv, Typed, Tell, TellFails, tables, Pending

LEMMA TellKeeps ==
  ASSUME IInv, NEW r \in Requests, Tell(r) \/ TellFails(r)
  PROVE  IInv'
<1> DEFINE j == request[r]
<1>1. /\ Pending(r) /\ Typed' /\ j.courses \subseteq Courses
      /\ UNCHANGED <<slots, teachers, registered, sessions, offered, stripped, strained>>
      /\ request'[r] = Idle /\ \A q \in Requests \ {r} : request'[q] = request[q]
      /\ raced \subseteq raced'
  BY TellStep
<1>2. ~AllTold
  BY <1>1 DEF AllTold, Pending
<1>3. ReadsAllHold'
  <2> SUFFICES ASSUME NEW q \in Requests, Asking(q)', request'[q].alone PROVE FALSE
    BY DEF ReadsAllHold, ReadsHold
  <2>1. q # r /\ request'[q] = request[q] /\ Asking(q) /\ request[q].alone
    BY <1>1 DEF Asking, Idle
  <2> QED
    BY <1>2, <2>1 DEF IInv, ReadsAllHold, ReadsHold
<1>4. NoticesStand'
  <2> SUFFICES ASSUME NEW q \in Requests, Pending(q)', request'[q].alone
               PROVE  request'[q].courses \subseteq raced'
    BY DEF NoticesStand, NoticeStands
  <2>1. q # r /\ request'[q] = request[q] /\ Pending(q) /\ request[q].alone
    BY <1>1 DEF Pending, Idle
  <2>2. NoticeStands(q)
    BY DEF IInv, NoticesStand
  <2> QED
    BY <1>1, <2>1, <2>2 DEF NoticeStands
<1>5. ASSUME NEW c \in Courses, c \notin raced' \cup missed', ~Untold(c)',
             NEW p \in Affected(c)
      PROVE  <<c, p>> \in joined' \/ told'[c][p] = Schedule(c)
  <2>1. Told(c) /\ c \notin raced
    BY <1>1, <1>5 DEF IInv, AllAreTold
  <2>2. \A q \in Requests \ {r} : Pending(q) => c \notin request[q].courses
    BY <1>1, <1>5 DEF Untold, Pending
  <2>3. CASE c \notin j.courses
    <3>1. ~Untold(c)
      BY <2>2, <2>3 DEF Untold
    <3>2. c \notin missed /\ told'[c] = told[c] /\ (<<c, p>> \in joined => <<c, p>> \in joined')
      BY <1>5, <2>3 DEF Tell, TellFails, Changed
    <3> QED
      BY <1>5, <2>1, <3>1, <3>2 DEF Told, Know
  <2>4. CASE c \in j.courses
    <3>1. Tell(r)
      BY <1>5, <2>4 DEF TellFails
    <3>2. j.alone
      BY <1>5, <2>4, <3>1 DEF Tell
    <3>3. /\ After(j)[c] = Schedule(c)
          /\ c \notin missed => Know(c, j.before[c])
      BY <1>1, <2>1, <2>4, <3>2, TellsTheSchedule
    <3>4. /\ told'[c] = IF c \in Changed(j)
                          THEN [q \in People |-> IF q \in Affected(c) THEN After(j)[c] ELSE told[c][q]]
                          ELSE told[c]
          /\ joined' = {e \in joined : e[1] \notin Changed(j)}
          /\ c \notin missed \ Changed(j)
      BY <1>5, <3>1 DEF Tell
    <3>5. CASE c \in Changed(j)
      <4>1. p \in People
        BY <1>5, AffectedIs DEF IInv, Typed
      <4> QED
        BY <1>5, <3>3, <3>4, <3>5, <4>1
    <3>6. CASE c \notin Changed(j)
      BY <1>5, <2>4, <3>3, <3>4, <3>6 DEF Changed, Know
    <3> QED
      BY <3>5, <3>6
  <2> QED
    BY <2>3, <2>4
<1>6. AllAreTold'
  <2>1. \A c : Affected(c)' = Affected(c)
    BY <1>1 DEF Affected
  <2> QED
    BY <1>1, <1>5, <2>1, SameRows DEF AllAreTold, Told, Know
<1>7. AllApart'
  BY <1>1, ApartStays DEF IInv
<1>8. SessionsHaveTheirClass'
  BY <1>1 DEF IInv, SessionsHaveTheirClass, Published, Exists, Ids
<1> QED
  BY <1>1, <1>3, <1>4, <1>6, <1>7, <1>8 DEF IInv

-----------------------------------------------------------------------------
(* Commits *)

LEMMA OthersAre ==
  ASSUME Typed, NEW r \in Requests, Others(r), NEW q \in Requests, q # r
  PROVE  /\ Pending(q)' <=> Pending(q)
         /\ Pending(q) => request'[q].courses = request[q].courses /\ ~request'[q].alone
         /\ Asking(q)' => ~request'[q].alone
         /\ request[q].op = request'[q].op
<1>1. request[q] \in Job /\ request'[q] = Overtaken(request[q])
  BY DEF Typed, Others
<1>2. request'[q].op = request[q].op /\ (request[q].op # "idle" => ~request'[q].alone)
  BY <1>1, OvertakenIs
<1>3. Pending(q) => request'[q].courses = request[q].courses
  BY <1>1, OvertakenIs DEF Pending
<1> QED
  BY <1>2, <1>3 DEF Pending, Asking

\* The notice of a commit that nobody had overtaken is of what it changed.
LEMMA NoticeNew ==
  ASSUME IInv, NEW r \in Requests, PeopleStay, Others(r), raced \subseteq raced', ~Pending(r),
         request'[r].courses \subseteq Courses,
         request'[r].alone =>
           \/ request'[r].courses \subseteq raced'
           \/ /\ AllTold
              /\ \A c \in request'[r].courses \ raced' :
                   /\ request'[r].before[c] = Schedule(c)
                   /\ request'[r].op = "published" => request'[r].after[c] = Schedule(c)'
  PROVE  NoticeStands(r)'
<1> DEFINE j == request'[r]
<1>1. CASE ~j.alone \/ j.courses \subseteq raced'
  BY <1>1 DEF NoticeStands
<1>2. CASE j.alone /\ ~(j.courses \subseteq raced')
  <2>1. AllTold
    BY <1>2
  <2>2. \A q \in Requests \ {r} : ~Pending(q)'
    BY <2>1, OthersAre DEF IInv, AllTold, Pending
  <2>3. ASSUME NEW c \in j.courses \ raced'
        PROVE  /\ c \notin missed' =>
                    \A p \in Affected(c)' : <<c, p>> \in joined' \/ told'[c][p] = j.before[c]
               /\ j.op = "published" => j.after[c] = Schedule(c)'
    <3>1. Told(c) /\ ~Untold(c)
      BY <2>1, <2>3 DEF IInv, AllAreTold, Untold, AllTold, Pending
    <3>2. j.before[c] = Schedule(c) /\ (j.op = "published" => j.after[c] = Schedule(c)')
      BY <1>2, <2>3
    <3>3. told' = told /\ missed' = missed /\ joined' = joined /\ Affected(c)' = Affected(c)
      BY DEF PeopleStay, Affected
    <3> QED
      BY <3>1, <3>2, <3>3 DEF Told, Know
  <2> QED
    BY <1>2, <2>2, <2>3 DEF NoticeStands, Know
<1> QED
  BY <1>1, <1>2

LEMMA CommitKeeps ==
  ASSUME IInv, NEW r \in Requests, Typed', PeopleStay, Others(r), raced \subseteq raced',
         ~Pending(r), ~Asking(r)', NoticeStands(r)',
         \A c \in Courses : \/ c \in raced'
                            \/ Schedule(c)' = Schedule(c)
                            \/ Pending(r)' /\ c \in request'[r].courses,
         SessionsHaveTheirClass', AllApart'
  PROVE  IInv'
<1>0. Typed
  BY DEF IInv
<1>1. ReadsAllHold'
  BY <1>0, OthersAre DEF ReadsAllHold, ReadsHold
<1>2. NoticesStand'
  <2> SUFFICES ASSUME NEW q \in Requests, q # r PROVE NoticeStands(q)'
    BY DEF NoticesStand
  <2> QED
    BY <1>0, OthersAre DEF NoticeStands
<1>3. AllAreTold'
  <2> SUFFICES ASSUME NEW c \in Courses, c \notin raced' \cup missed', ~Untold(c)'
               PROVE  Know(c, Schedule(c))'
    BY DEF AllAreTold, Told
  <2>1. Schedule(c)' = Schedule(c)
    BY DEF Untold
  <2>2. ~Untold(c)
    BY <1>0, OthersAre DEF Untold
  <2>3. Told(c) /\ c \notin raced \cup missed
    BY DEF IInv, AllAreTold, PeopleStay
  <2>4. told' = told /\ joined' = joined /\ Affected(c)' = Affected(c)
    BY DEF PeopleStay, Affected
  <2> QED
    BY <2>1, <2>2, <2>3, <2>4 DEF Told, Know
<1> QED
  BY <1>1, <1>2, <1>3 DEF IInv

\* The schedule of a course none of whose classes changed.
LEMMA ScheduleStays ==
  ASSUME NEW c,
         \A i \in Ids : Published(i) /\ slots[i].course = c =>
           /\ i \in Ids' /\ slots'[i] # Gone /\ slots'[i].published /\ slots'[i].course = c
           /\ slots'[i].time = slots[i].time /\ slots'[i].room = slots[i].room,
         \A i \in Ids' : slots'[i] # Gone /\ slots'[i].published /\ slots'[i].course = c =>
           i \in Ids /\ Published(i) /\ slots[i].course = c
  PROVE  Schedule(c)' = Schedule(c)
<1>1. \A i : (i \in Ids' /\ Published(i)' /\ slots'[i].course = c)
               <=> (i \in Ids /\ Published(i) /\ slots[i].course = c)
  BY DEF Published, Exists
<1>2. \A i \in Ids : Published(i) /\ slots[i].course = c => At(slots'[i]) = At(slots[i])
  BY DEF At
<1>3. Schedule(c)' = {At(slots'[i]) : i \in {j \in Ids' : Published(j)' /\ slots'[j].course = c}}
  BY DEF Schedule, At
<1> QED
  BY <1>1, <1>2, <1>3 DEF Schedule

\* Rows that are as they were stay apart, if a course that lost its last draft
\* is remembered.
LEMMA OldApart ==
  ASSUME AllApart, teachers' = teachers, raced \subseteq raced', stripped \subseteq stripped',
         NEW i \in Ids, NEW j \in Ids,
         \/ \A c : Drafted(c) => Drafted(c)' \/ c \in raced' \cup stripped'
         \/ ~Draft(i) /\ ~Draft(j),
         i \in Ids', j \in Ids', Strained(i, j) => Strained(i, j)',
         slots'[i] = slots[i], slots'[j] = slots[j]
  PROVE  Apart(i, j)'
<1> SUFFICES ASSUME i # j, slots'[i] # Gone, slots'[j] # Gone, Clash(slots[i], slots[j])',
                    ~Disturbed(i, j)', ~Strained(i, j)'
             PROVE  Replaces(i, j)' \/ Replaces(j, i)'
  BY DEF Apart, Exists
<1>1. Clash(slots[i], slots[j]) /\ Exists(i) /\ Exists(j) /\ ~Disturbed(i, j)
  BY DEF Clash, Exists, Disturbed
<1>2. Replaces(i, j) \/ Replaces(j, i)
  BY <1>1 DEF AllApart, Apart
<1>3. \A c : Drafted(c) => Drafted(c)' \/ c \in raced' \cup stripped'
  <2>1. Draft(i) \/ Draft(j)
    BY <1>2 DEF Replaces
  <2> QED
    BY <2>1
<1>4. ASSUME NEW k \in {i, j}, Drafted(slots[k].course)
      PROVE  Drafted(slots[k].course)'
  <2>1. PICK c : c = slots[k].course
    OBVIOUS
  <2>2. c = slots'[k].course /\ c \notin raced' \cup stripped'
    BY <2>1 DEF Disturbed
  <2>3. Drafted(c)'
    BY <1>3, <1>4, <2>1, <2>2
  <2> QED
    BY <2>2, <2>3
<1>5. \A k \in {i, j} : /\ Draft(k) => Draft(k)'
                        /\ Published(k) => Published(k)'
  BY DEF Draft, Published, Exists
<1> QED
  BY <1>2, <1>4, <1>5 DEF Replaces

LEMMA ClashBefore ==
  ASSUME teachers' = teachers, NEW i, NEW j, Clash(slots[i], slots[j])', NEW a, NEW b,
         a.course = slots'[i].course, a.time = slots'[i].time, a.room = slots'[i].room,
         b.course = slots'[j].course, b.time = slots'[j].time, b.room = slots'[j].room
  PROVE  Clash(a, b) /\ Clash(b, a)
  BY DEF Clash, Overlap

\* The rows T a commit wrote are apart from all others.
LEMMA NewApart ==
  ASSUME AllApart, teachers' = teachers, raced \subseteq raced', stripped \subseteq stripped',
         NEW T, \A i \in Ids' \ T : i \in Ids /\ slots'[i] = slots[i],
         \/ \A c : Drafted(c) => Drafted(c)' \/ c \in raced' \cup stripped'
         \/ \A i \in Ids \ T : ~Draft(i),
         strained' = strained \/ strained' = {e \in strained : e[1] \notin T /\ e[2] \notin T},
         \A i \in T : \A j \in Ids' : Apart(i, j)'
  PROVE  AllApart'
<1> SUFFICES ASSUME NEW i \in Ids', NEW j \in Ids' PROVE Apart(i, j)'
  BY DEF AllApart
<1>1. CASE i \in T
  BY <1>1
<1>2. CASE j \in T
  <2>1. Apart(j, i)'
    BY <1>2
  <2>2. Clash(slots[i], slots[j])' => Clash(slots[j], slots[i])'
    BY DEF Clash, Overlap
  <2> QED
    BY <2>1, <2>2 DEF Apart, Disturbed, Strained
<1>3. CASE i \notin T /\ j \notin T
  <2>1. Strained(i, j) => Strained(i, j)'
    BY <1>3 DEF Strained
  <2> QED
    BY <1>3, <2>1, OldApart
<1> QED
  BY <1>1, <1>2, <1>3

LEMMA CreateKeeps ==
  ASSUME IInv, NEW r \in Requests, CommitCreate(r)
  PROVE  IInv'
<1> DEFINE j == request[r]
           c == j.class.course
<1>0. PICK n : n = Len(slots) + 1
  OBVIOUS
<1>1. /\ j \in CreateJob /\ OnTimetable(j.class) \in Slot
      /\ Ids' = Ids \cup {n} /\ n \notin Ids /\ slots'[n] = OnTimetable(j.class)
      /\ \A i \in Ids : slots'[i] = slots[i]
  BY <1>0, CreateRows DEF IInv
<1>2. /\ c \in Courses /\ PeopleStay /\ Others(r)
      /\ request'[r] = TellNow({c}, j.before) /\ request'[r] \in EditedJob
      /\ raced \subseteq raced' /\ (j.alone => raced' = raced) /\ (~j.alone => c \in raced')
      /\ strained' = strained /\ Typed'
  BY CreateCommits DEF IInv
<1>3. /\ j.op = "create" /\ UNCHANGED <<sessions, teachers>> /\ stripped' = stripped
  BY <1>2 DEF CommitCreate, PeopleStay
<1>4. ReadsHold(r) /\ Asking(r) /\ ~Pending(r)
  BY <1>3 DEF IInv, ReadsAllHold, Asking, Pending
<1>5. j.alone => AllTold /\ ValidSlot(j.class, NoSlot) /\ j.before = Schedules({c})
  BY <1>3, <1>4 DEF ReadsHold, ReadsTrue
<1>6. /\ Pending(r)' /\ ~Asking(r)' /\ request'[r].courses = {c}
      /\ request'[r].before = j.before /\ request'[r].op = "edited"
  BY <1>2 DEF TellNow, Pending, Asking
<1>7. slots'[n].course = c /\ slots'[n].time = j.class.time /\ slots'[n].room = j.class.room
      /\ slots'[n].published /\ slots'[n] # Gone
  <2>1. OnTimetable(j.class) # Gone
    BY <1>1, SlotFields
  <2> QED
    BY <1>1, <2>1 DEF OnTimetable
<1> HIDE DEF c, j
<1>8. NoticeStands(r)'
  <2>1. request'[r].courses \subseteq raced' \/ (AllTold /\ j.before[c] = Schedule(c))
    BY <1>2, <1>5, <1>6 DEF Schedules
  <2> QED
    BY <1>2, <1>4, <1>6, <2>1, NoticeNew
<1>9. ASSUME NEW d \in Courses, d # c
      PROVE  Schedule(d)' = Schedule(d)
  BY <1>1, <1>7, <1>9, ScheduleStays DEF Published, Exists
<1>10. SessionsHaveTheirClass'
  <2>1. ASSUME NEW k \in DOMAIN sessions, sessions[k].slot # NoSlot
        PROVE  Published(sessions[k].slot)'
    <3>1. PICK i : i = sessions[k].slot
      OBVIOUS
    <3>2. Published(i)
      BY <2>1, <3>1 DEF IInv, SessionsHaveTheirClass
    <3>3. Published(i)'
      BY <1>1, <3>2 DEF Published, Exists
    <3> QED
      BY <1>3, <3>1, <3>3
  <2> QED
    BY <1>3, <2>1 DEF SessionsHaveTheirClass
<1>11. ASSUME NEW i \in Ids', i # n
       PROVE  Apart(n, i)'
  <2> SUFFICES ASSUME slots'[i] # Gone, Clash(slots[n], slots[i])', ~Disturbed(n, i)' PROVE FALSE
    BY DEF Apart, Exists
  <2>1. c \notin raced'
    BY <1>7 DEF Disturbed
  <2>2. i \in Ids /\ slots'[i] = slots[i] /\ Exists(i)
    BY <1>1, <1>11 DEF Exists
  <2>3. Clash(j.class, slots[i])
    BY <1>3, <1>7, <2>2, ClashBefore DEF c
  <2>4. ValidSlot(j.class, NoSlot)
    BY <1>2, <1>5, <2>1
  <2>5. i # NoSlot
    BY <2>2, Rows DEF NoSlot, IInv, Typed
  <2> QED
    BY <2>2, <2>3, <2>4, <2>5 DEF ValidSlot
<1>12. AllApart'
  <2>1. \A d : Drafted(d) => Drafted(d)'
    BY <1>1 DEF Drafted, Draft, Exists
  <2>0. PICK T : T = {n}
    OBVIOUS
  <2>2. \A i \in Ids' \ T : i \in Ids /\ slots'[i] = slots[i]
    BY <1>1, <2>0
  <2>3. \A k \in T : \A i \in Ids' : Apart(k, i)'
    BY <1>11, <2>0 DEF Apart
  <2>4. AllApart /\ teachers' = teachers /\ raced \subseteq raced' /\ stripped \subseteq stripped'
    BY <1>2, <1>3 DEF IInv
  <2>5. \A d : Drafted(d) => Drafted(d)' \/ d \in raced' \cup stripped'
    BY <2>1
  <2> QED
    BY <1>2, <2>2, <2>3, <2>4, <2>5, NewApart
<1> QED
  BY <1>2, <1>4, <1>6, <1>8, <1>9, <1>10, <1>12, CommitKeeps

LEMMA UpdateKeeps ==
  ASSUME IInv, NEW r \in Requests, CommitUpdate(r), Exists(request[r].id)
  PROVE  IInv'
<1> DEFINE j == request[r]
           C == {j.seen.course, j.class.course}
<1>0. PICK n : n = j.id
  OBVIOUS
<1> DEFINE now == slots[n]
<1>1. /\ j \in UpdateJob /\ n \in Ids /\ now \in Slot
      /\ slots'[n] = Updated(now, j.seen, j.class) /\ slots'[n] \in Slot
      /\ slots'[n].published = now.published /\ Ids' = Ids
      /\ \A i \in Ids \ {n} : slots'[i] = slots[i]
  BY <1>0, UpdateRows DEF IInv
<1>2. /\ C \cup {now.course} \subseteq Courses /\ PeopleStay /\ Others(r)
      /\ request'[r] = TellNow(C, j.before) /\ request'[r] \in EditedJob
      /\ raced \subseteq raced' /\ (j.alone => raced' = raced)
      /\ (~j.alone => C \cup {now.course} \subseteq raced')
      /\ stripped \subseteq stripped'
      /\ (~j.seen.published /\ j.class.course # j.seen.course => j.seen.course \in stripped')
      /\ strained' = {e \in strained : n \notin {e[1], e[2]}}
      /\ Typed'
  BY <1>0, UpdateCommits DEF IInv
<1>3. j.op = "update" /\ UNCHANGED <<sessions, teachers>>
  BY <1>2 DEF CommitUpdate, PeopleStay, RolledBack, tables
<1>4. ReadsHold(r) /\ Asking(r) /\ ~Pending(r)
  BY <1>3 DEF IInv, ReadsAllHold, Asking, Pending
<1>5. j.alone => /\ AllTold /\ ValidSlot(j.class, n) /\ j.seen = now
                 /\ j.before = Schedules(C)
  BY <1>0, <1>3, <1>4 DEF ReadsHold, ReadsTrue
<1>6. /\ Pending(r)' /\ ~Asking(r)' /\ request'[r].courses = C
      /\ request'[r].before = j.before /\ request'[r].op = "edited"
  BY <1>2 DEF TellNow, Pending, Asking
<1>7. /\ slots'[n].course \in C \cup {now.course}
      /\ j.alone => /\ slots'[n].course = j.class.course /\ slots'[n].time = j.class.time
                    /\ slots'[n].room = j.class.room
  BY <1>1, <1>5 DEF Updated
<1>8. slots'[n] # Gone /\ now # Gone /\ now.published \in BOOLEAN
  BY <1>1, SlotFields
<1> HIDE DEF now, C, j
<1>9. NoticeStands(r)'
  <2>1. \/ request'[r].courses \subseteq raced'
        \/ AllTold /\ \A c \in C : request'[r].before[c] = Schedule(c)
    BY <1>2, <1>5, <1>6 DEF Schedules
  <2> QED
    BY <1>2, <1>4, <1>6, <2>1, NoticeNew
<1>10. ASSUME NEW d \in Courses, d \notin C \cup {now.course}
       PROVE  Schedule(d)' = Schedule(d)
  BY <1>1, <1>7, <1>10, ScheduleStays DEF Published, Exists, now
<1>11. ASSUME NEW d \in Courses
       PROVE  d \in raced' \/ Schedule(d)' = Schedule(d) \/ (Pending(r)' /\ d \in request'[r].courses)
  <2>1. d \in C \cup {now.course} => d \in raced' \/ d \in C
    BY <1>2, <1>5 DEF C
  <2> QED
    BY <1>6, <1>10, <2>1
<1>12. SessionsHaveTheirClass'
  <2>1. ASSUME NEW k \in DOMAIN sessions, sessions[k].slot # NoSlot
        PROVE  Published(sessions[k].slot)'
    <3>1. PICK i : i = sessions[k].slot
      OBVIOUS
    <3>2. Published(i)
      BY <2>1, <3>1 DEF IInv, SessionsHaveTheirClass
    <3>3. Published(i)'
      BY <1>1, <1>8, <3>2 DEF Published, Exists, now
    <3> QED
      BY <1>3, <3>1, <3>3
  <2> QED
    BY <1>3, <2>1 DEF SessionsHaveTheirClass
<1>13. ASSUME NEW i \in Ids', i # n
       PROVE  Apart(n, i)'
  <2> SUFFICES ASSUME slots'[i] # Gone, Clash(slots[n], slots[i])', ~Disturbed(n, i)' PROVE FALSE
    BY DEF Apart, Exists
  <2>1. j.alone
    BY <1>2, <1>7 DEF Disturbed
  <2>2. i \in Ids /\ slots'[i] = slots[i] /\ Exists(i)
    BY <1>1, <1>13 DEF Exists
  <2>3. Clash(j.class, slots[i])
    BY <1>3, <1>7, <2>1, <2>2, ClashBefore
  <2> QED
    BY <1>5, <1>13, <2>1, <2>2, <2>3 DEF ValidSlot
<1>14. ASSUME NEW c, Drafted(c)
       PROVE  Drafted(c)' \/ c \in raced' \cup stripped'
  <2>1. PICK d \in Ids : Draft(d) /\ slots[d].course = c
    BY <1>14 DEF Drafted
  <2>2. CASE d # n
    BY <1>1, <2>1, <2>2 DEF Drafted, Draft, Exists
  <2>3. CASE d = n
    <3>1. ~now.published /\ now.course = c
      BY <2>1, <2>3 DEF Draft, now
    <3>2. slots'[n].course = c => Drafted(c)'
      BY <1>1, <1>8, <3>1 DEF Drafted, Draft, Exists
    <3> QED
      BY <1>2, <1>5, <1>7, <3>1, <3>2
  <2> QED
    BY <2>2, <2>3
<1>15. AllApart'
  <2>0. PICK T : T = {n}
    OBVIOUS
  <2>1. \A i \in Ids' \ T : i \in Ids /\ slots'[i] = slots[i]
    BY <1>1, <2>0
  <2>2. \A k \in T : \A i \in Ids' : Apart(k, i)'
    BY <1>13, <2>0 DEF Apart
  <2>3. AllApart /\ teachers' = teachers /\ raced \subseteq raced' /\ stripped \subseteq stripped'
    BY <1>2, <1>3 DEF IInv
  <2>4. strained' = {e \in strained : e[1] \notin T /\ e[2] \notin T}
    BY <1>2, <2>0
  <2> QED
    BY <1>14, <2>1, <2>2, <2>3, <2>4, NewApart
<1> QED
  BY <1>2, <1>4, <1>6, <1>9, <1>11, <1>12, <1>15, CommitKeeps

\* What a deletion reads is still so, or its courses are remembered.
LEMMA DeleteReads ==
  ASSUME IInv, NEW r \in Requests, CommitDelete(r), FiledUnder(request[r].id) \subseteq request[r].filed
  PROVE  LET j == request[r] IN
         /\ Asking(r) /\ ~Pending(r) /\ teachers' = teachers
         /\ j.alone => /\ AllTold /\ j.seen = slots[j.id] /\ j.filed = FiledUnder(j.id)
                       /\ j.before = Schedules({j.seen.course})
         /\ j.alone \/ j.seen.course \in raced'
         /\ Exists(j.id) => j.alone \/ slots[j.id].course \in raced'
         /\ \A k \in DOMAIN sessions : k \in j.filed => j.alone \/ sessions[k].course \in raced'
<1>1. request[r].op = "delete"
  BY DEF CommitDelete
<1>2. Asking(r) /\ ~Pending(r)
  BY <1>1 DEF Asking, Pending
<1>3. ReadsHold(r)
  BY DEF IInv, ReadsAllHold
<1>4. PICK j : j = request[r]
  OBVIOUS
<1>5. /\ PeopleStay
      /\ j.alone \/ j.seen.course \in raced'
      /\ Exists(j.id) => j.alone \/ slots[j.id].course \in raced'
      /\ \A k \in DOMAIN sessions : k \in j.filed => j.alone \/ sessions[k].course \in raced'
  BY <1>4, DeleteCommits DEF IInv
<1> QED
  BY <1>1, <1>2, <1>3, <1>4, <1>5 DEF ReadsHold, ReadsTrue, PeopleStay

LEMMA DeleteKeeps ==
  ASSUME IInv, NEW r \in Requests, CommitDelete(r), FiledUnder(request[r].id) \subseteq request[r].filed
  PROVE  IInv'
<1>0. PICK j, n, c : j = request[r] /\ n = j.id /\ c = j.seen.course
  OBVIOUS
<1>1. /\ n \in Ids /\ slots'[n] = Gone /\ Ids' = Ids
      /\ \A k \in Ids \ {n} : slots'[k] = slots[k]
  BY <1>0, DeleteRows DEF IInv
<1>2. /\ c \in Courses /\ PeopleStay /\ Others(r) /\ raced \subseteq raced'
      /\ (j.alone => raced' = raced)
      /\ request'[r] = TellNow({c}, j.before)
      /\ stripped \subseteq stripped' /\ (~j.seen.published => c \in stripped')
      /\ strained' = strained /\ sessions' = Unfiled(j.filed) /\ Typed'
  BY <1>0, DeleteCommits DEF IInv
<1>3. /\ ~Pending(r) /\ teachers' = teachers
      /\ j.alone => AllTold /\ j.seen = slots[n] /\ j.before = Schedules({c})
      /\ j.alone \/ c \in raced'
      /\ Exists(n) => j.alone \/ slots[n].course \in raced'
  BY <1>0, DeleteReads
<1>4. /\ Pending(r)' /\ ~Asking(r)' /\ request'[r].courses = {c} /\ request'[r].op = "edited"
      /\ request'[r].before = j.before
  BY <1>2 DEF TellNow, Pending, Asking
<1>5. NoticeStands(r)'
  <2>1. request'[r].courses \subseteq raced' \/ (AllTold /\ j.before[c] = Schedule(c))
    BY <1>3, <1>4 DEF Schedules
  <2> QED
    BY <1>2, <1>3, <1>4, <2>1, NoticeNew
<1>6. ASSUME NEW d \in Courses, d \notin raced', d # c
      PROVE  Schedule(d)' = Schedule(d)
  <2>1. Exists(n) => slots[n].course # d
    BY <1>0, <1>3, <1>6
  <2> QED
    BY <1>1, <1>6, <2>1, ScheduleStays DEF Published, Exists
<1>7. SessionsHaveTheirClass'
  <2>1. DOMAIN sessions' = DOMAIN sessions
        /\ \A k \in DOMAIN sessions :
             sessions'[k].slot = IF k \in j.filed THEN NoSlot ELSE sessions[k].slot
    BY <1>2, UnfiledIs DEF IInv, Typed
  <2>2. ASSUME NEW k \in DOMAIN sessions', sessions'[k].slot # NoSlot
        PROVE  Published(sessions[k].slot)' /\ sessions'[k].slot = sessions[k].slot
    <3>1. PICK i : i = sessions'[k].slot
      OBVIOUS
    <3>2. i = sessions[k].slot /\ k \notin j.filed /\ Published(i)
      BY <2>1, <2>2, <3>1 DEF IInv, SessionsHaveTheirClass
    <3>3. i # n
      BY <1>0, <2>1, <3>2 DEF FiledUnder
    <3>4. Published(i)'
      BY <1>1, <3>2, <3>3 DEF Published, Exists
    <3> QED
      BY <3>1, <3>2, <3>4
  <2> QED
    BY <2>2 DEF SessionsHaveTheirClass
<1>8. ASSUME NEW d, Drafted(d)
      PROVE  Drafted(d)' \/ d \in raced' \cup stripped'
  <2>1. PICK i \in Ids : Draft(i) /\ slots[i].course = d
    BY <1>8 DEF Drafted
  <2>2. CASE i # n
    BY <1>1, <2>1, <2>2 DEF Drafted, Draft, Exists
  <2>3. CASE i = n
    BY <1>0, <1>2, <1>3, <2>1, <2>3 DEF Draft
  <2> QED
    BY <2>2, <2>3
<1>9. AllApart'
  <2>0. PICK T : T = {n}
    OBVIOUS
  <2>1. \A i \in Ids' \ T : i \in Ids /\ slots'[i] = slots[i]
    BY <1>1, <2>0
  <2>2. \A k \in T : \A i \in Ids' : Apart(k, i)'
    BY <1>1, <2>0 DEF Apart, Exists
  <2>3. AllApart /\ teachers' = teachers /\ raced \subseteq raced' /\ stripped \subseteq stripped'
    BY <1>2, <1>3 DEF IInv
  <2> QED
    BY <1>2, <1>8, <2>1, <2>2, <2>3, NewApart
<1>10. \A d \in Courses : \/ d \in raced'
                          \/ Schedule(d)' = Schedule(d)
                          \/ Pending(r)' /\ d \in request'[r].courses
  BY <1>4, <1>6
<1> QED
  BY <1>2, <1>3, <1>4, <1>5, <1>7, <1>9, <1>10, CommitKeeps

\* What a plan's commit reads is still so, or its courses are remembered.
LEMMA SaveReads ==
  ASSUME IInv, NEW r \in Requests, CommitSave(r)
  PROVE  LET j == request[r] IN
         /\ Asking(r) /\ ~Pending(r) /\ teachers' = teachers
         /\ j.alone => /\ AllTold /\ PlanOk(j.plan)
                       /\ j.old = {i \in Ids : Draft(i) /\ slots[i].course \in {a.course : a \in j.plan}}
         /\ \A a \in j.plan : j.alone \/ a.course \in raced'
         /\ \A i \in j.old : Exists(i) => j.alone \/ slots[i].course \in raced'
<1>1. request[r].op = "save"
  BY DEF CommitSave
<1>2. Asking(r) /\ ~Pending(r) /\ teachers' = teachers
  BY <1>1 DEF Asking, Pending, CommitSave
<1>3. ReadsHold(r)
  BY DEF IInv, ReadsAllHold
<1> QED
  BY <1>1, <1>2, <1>3, SaveCommits DEF IInv, ReadsHold, ReadsTrue

\* Drafts show nobody anything.
LEMMA SaveSchedules ==
  ASSUME IInv, NEW r \in Requests, CommitSave(r), NEW c \in Courses, c \notin raced'
  PROVE  Schedule(c)' = Schedule(c)
<1> DEFINE j == request[r]
<1>1. /\ j \in SaveJob /\ Ids \subseteq Ids'
      /\ \A i \in Ids : slots'[i] = IF i \in j.old THEN Gone ELSE slots[i]
      /\ \A n \in Ids' \ Ids : \E a \in j.plan : slots'[n] = DraftRow(a)
  BY SaveRows DEF IInv
<1>2. \A i \in Ids : Published(i) /\ slots[i].course = c => i \notin j.old
  BY SaveReads DEF Published, Draft
<1>3. \A n \in Ids' \ Ids : ~slots'[n].published
  BY <1>1, DraftRowIs DEF SaveJob, Bookable
<1> HIDE DEF j
<1> QED
  BY <1>1, <1>2, <1>3, ScheduleStays DEF Published, Exists

LEMMA SaveKeeps ==
  ASSUME IInv, NEW r \in Requests, CommitSave(r)
  PROVE  IInv'
<1>0. PICK plan, old : plan = request[r].plan /\ old = request[r].old
  OBVIOUS
<1> DEFINE courses == {a.course : a \in plan}
<1>1. /\ plan \subseteq Class /\ Ids \subseteq Ids'
      /\ \A i \in Ids : slots'[i] = IF i \in old THEN Gone ELSE slots[i]
      /\ \A n \in Ids' \ Ids : \E a \in plan : slots'[n] = DraftRow(a)
      /\ \A a \in plan : \E n \in Ids' \ Ids : slots'[n] = DraftRow(a)
      /\ \A m, n \in Ids' \ Ids : slots'[m] = slots'[n] => m = n
  BY <1>0, SaveRows DEF IInv, SaveJob, Bookable
<1>2. /\ PeopleStay /\ Others(r) /\ request'[r] = Idle /\ raced \subseteq raced'
      /\ stripped' = stripped /\ strained' = strained /\ sessions' = Detached(old) /\ Typed'
  BY <1>0, SaveCommits DEF IInv
<1>3. /\ ~Pending(r) /\ teachers' = teachers
      /\ request[r].alone =>
           PlanOk(plan) /\ old = {i \in Ids : Draft(i) /\ slots[i].course \in courses}
      /\ \A a \in plan : request[r].alone \/ a.course \in raced'
      /\ \A i \in old : Exists(i) => request[r].alone \/ slots[i].course \in raced'
  BY <1>0, SaveReads
<1>4. ~Pending(r)' /\ ~Asking(r)' /\ NoticeStands(r)'
  BY <1>2 DEF Pending, Asking, NoticeStands, Idle
<1>5. ASSUME NEW n \in Ids' \ Ids, NEW a \in plan, slots'[n] = DraftRow(a)
      PROVE  /\ Draft(n)' /\ slots'[n].course = a.course /\ slots'[n].time = a.time
             /\ slots'[n].room = a.room /\ Drafted(a.course)'
  <2>1. /\ DraftRow(a) \in Slot /\ ~DraftRow(a).published
        /\ DraftRow(a).course = a.course /\ DraftRow(a).time = a.time /\ DraftRow(a).room = a.room
    BY <1>1, DraftRowIs
  <2>2. DraftRow(a) # Gone
    BY <2>1, SlotFields
  <2> QED
    BY <1>5, <2>1, <2>2 DEF Draft, Exists, Drafted
<1>6. \A c \in courses : Drafted(c)'
  BY <1>1, <1>5
<1>7. ASSUME NEW c, Drafted(c)
      PROVE  Drafted(c)' \/ c \in raced' \cup stripped'
  <2>1. PICK d \in Ids : Draft(d) /\ slots[d].course = c
    BY <1>7 DEF Drafted
  <2>2. CASE d \notin old
    BY <1>1, <2>1, <2>2 DEF Drafted, Draft, Exists
  <2>3. CASE d \in old
    BY <1>3, <1>6, <2>1, <2>3 DEF Draft
  <2> QED
    BY <2>2, <2>3
<1>8. ASSUME NEW n \in Ids' \ Ids, NEW i \in Ids'
      PROVE  Apart(n, i)'
  <2> SUFFICES ASSUME n # i, slots'[i] # Gone, Clash(slots[n], slots[i])', ~Disturbed(n, i)'
               PROVE  Replaces(n, i)'
    BY DEF Apart, Exists
  <2>1. PICK a \in plan : slots'[n] = DraftRow(a)
    BY <1>1
  <2>2. /\ Draft(n)' /\ slots'[n].course = a.course /\ slots'[n].time = a.time
        /\ slots'[n].room = a.room
    BY <1>5, <2>1
  <2>3. PlanOk(plan) /\ old = {k \in Ids : Draft(k) /\ slots[k].course \in courses}
    BY <1>3, <2>2 DEF Disturbed
  <2>4. i \in Ids
    <3> SUFFICES ASSUME i \notin Ids PROVE FALSE
      OBVIOUS
    <3>1. PICK b \in plan : slots'[i] = DraftRow(b)
      BY <1>1
    <3>2. a # b
      BY <1>1, <2>1, <3>1
    <3>3. slots'[i].course = b.course /\ slots'[i].time = b.time /\ slots'[i].room = b.room
      BY <1>5, <3>1
    <3>4. Clash(a, b)
      BY <1>3, <2>2, <3>3, ClashBefore
    <3> QED
      BY <2>3, <3>2, <3>4 DEF PlanOk
  <2>5. i \notin old /\ slots'[i] = slots[i] /\ Exists(i)
    BY <1>1, <2>4 DEF Exists
  <2>6. Clash(a, slots[i])
    BY <1>3, <2>2, <2>5, ClashBefore
  <2>7. slots[i].course \in courses
    BY <2>3, <2>4, <2>5, <2>6 DEF PlanOk, FitsStored
  <2>8. Published(i) /\ Published(i)'
    BY <2>3, <2>4, <2>5, <2>7 DEF Draft, Published, Exists
  <2>9. PICK c : c = slots'[i].course
    OBVIOUS
  <2>10. Drafted(c)'
    BY <1>6, <2>5, <2>7, <2>9
  <2> QED
    BY <2>2, <2>8, <2>9, <2>10 DEF Replaces
<1>9. AllApart'
  <2>0. PICK T : T = old \cup (Ids' \ Ids)
    OBVIOUS
  <2>1. \A i \in Ids' \ T : i \in Ids /\ slots'[i] = slots[i]
    BY <1>1, <2>0
  <2>2. \A k \in T : \A i \in Ids' : Apart(k, i)'
    <3>1. ASSUME NEW k \in T, NEW i \in Ids', k \in Ids \/ k \notin Ids'
          PROVE  Apart(k, i)'
      BY <1>1, <2>0, <3>1 DEF Apart, Exists
    <3> QED
      BY <1>8, <2>0, <3>1
  <2>3. AllApart /\ teachers' = teachers /\ raced \subseteq raced' /\ stripped \subseteq stripped'
    BY <1>2, <1>3 DEF IInv
  <2> QED
    BY <1>2, <1>7, <2>1, <2>2, <2>3, NewApart
<1>10. SessionsHaveTheirClass'
  <2>1. DOMAIN sessions' = DOMAIN sessions
        /\ \A k \in DOMAIN sessions :
             sessions'[k].slot = IF sessions[k].slot \in old THEN NoSlot ELSE sessions[k].slot
    BY <1>2, DetachedIs DEF IInv, Typed
  <2>2. ASSUME NEW k \in DOMAIN sessions', sessions'[k].slot # NoSlot
        PROVE  Published(sessions[k].slot)'
    <3>1. PICK i : i = sessions'[k].slot
      OBVIOUS
    <3>2. i = sessions[k].slot /\ i \notin old /\ Published(i)
      BY <2>1, <2>2, <3>1 DEF IInv, SessionsHaveTheirClass
    <3>3. Published(i)'
      BY <1>1, <3>2 DEF Published, Exists
    <3> QED
      BY <3>1, <3>3
  <2> QED
    BY <2>2 DEF SessionsHaveTheirClass
<1>11. \A c \in Courses : c \in raced' \/ Schedule(c)' = Schedule(c)
  BY SaveSchedules
<1> QED
  BY <1>2, <1>3, <1>4, <1>9, <1>10, <1>11, CommitKeeps

LEMMA PublishReads ==
  ASSUME IInv, NEW r \in Requests, CommitPublish(r), \A d \in request[r].drafts : Exists(d)
  PROVE  LET j == request[r] IN
         /\ Asking(r) /\ ~Pending(r) /\ teachers' = teachers
         /\ j.alone => /\ AllTold /\ j.drafts = {i \in Ids : Draft(i)} /\ j.seen = slots
                       /\ j.courses = {slots[i].course : i \in j.drafts}
                       /\ j.old = {i \in Ids : Published(i) /\ slots[i].course \in j.courses}
                       /\ j.before = Schedules(j.courses)
         /\ \A i \in j.drafts \cup j.old : Exists(i) => j.alone \/ slots[i].course \in raced'
         /\ \A c \in j.courses : j.alone \/ c \in raced'
<1>1. request[r].op = "publish"
  BY DEF CommitPublish
<1>2. Asking(r) /\ ~Pending(r)
  BY <1>1 DEF Asking, Pending
<1>3. ReadsHold(r)
  BY DEF IInv, ReadsAllHold
<1>4. PeopleStay /\ \A i \in request[r].drafts \cup request[r].old :
        Exists(i) => request[r].alone \/ slots[i].course \in raced'
  BY PublishCommits DEF IInv
<1>5. \A c \in request[r].courses : request[r].alone \/ c \in raced'
  BY PublishCommits DEF IInv
<1> QED
  BY <1>1, <1>2, <1>3, <1>4, <1>5 DEF ReadsHold, ReadsTrue, PeopleStay

\* A publication shows exactly the drafts of its courses, and changes no other
\* course.
LEMMA PublishSchedules ==
  ASSUME IInv, NEW r \in Requests, CommitPublish(r), \A d \in request[r].drafts : Exists(d),
         NEW c \in Courses, c \notin raced'
  PROVE  /\ c \notin request[r].courses => Schedule(c)' = Schedule(c)
         /\ c \in request[r].courses =>
              /\ request[r].alone /\ request[r].seen = slots
              /\ Schedule(c)' = {At(slots[d]) : d \in {e \in request[r].drafts : slots[e].course = c}}
<1>0. PICK drafts, old, courses :
        drafts = request[r].drafts /\ old = request[r].old /\ courses = request[r].courses
  OBVIOUS
<1>1. /\ drafts \subseteq Ids /\ Ids' = Ids
      /\ \A d \in drafts :
           /\ slots'[d] \in Slot /\ slots'[d].published /\ slots'[d].course = slots[d].course
           /\ slots'[d].time = slots[d].time /\ slots'[d].room = slots[d].room
      /\ \A i \in Ids \ drafts : slots'[i] = IF i \in old THEN Gone ELSE slots[i]
  BY <1>0, PublishRows DEF IInv
<1>2. /\ request[r].alone =>
           /\ drafts = {i \in Ids : Draft(i)} /\ request[r].seen = slots
           /\ courses = {slots[i].course : i \in drafts}
           /\ old = {i \in Ids : Published(i) /\ slots[i].course \in courses}
      /\ \A i \in drafts \cup old : Exists(i) => request[r].alone \/ slots[i].course \in raced'
      /\ \A d \in courses : request[r].alone \/ d \in raced'
  BY <1>0, PublishReads
<1>3. \A d \in drafts : slots'[d] # Gone /\ Exists(d)
  BY <1>0, <1>1, SlotFields
<1>4. ASSUME c \notin courses
      PROVE  Schedule(c)' = Schedule(c)
  <2>1. \A i \in drafts \cup old : Exists(i) => slots[i].course # c
    BY <1>2, <1>4
  <2>2. \A i \in Ids : Published(i) /\ slots[i].course = c => slots'[i] = slots[i]
    BY <1>1, <2>1 DEF Published
  <2>3. ASSUME NEW i \in Ids, slots'[i] # Gone, slots'[i].course = c
        PROVE  slots'[i] = slots[i]
    BY <1>1, <1>3, <2>1, <2>3
  <2> QED
    BY <1>1, <2>2, <2>3, ScheduleStays DEF Published, Exists
<1>5. ASSUME c \in courses
      PROVE  /\ request[r].alone /\ request[r].seen = slots
             /\ Schedule(c)' = {At(slots[d]) : d \in {e \in drafts : slots[e].course = c}}
  <2>1. request[r].alone
    BY <1>2, <1>5
  <2>2. \A i \in Ids : Published(i)' /\ slots'[i].course = c <=> i \in drafts /\ slots[i].course = c
    BY <1>1, <1>2, <1>3, <1>5, <2>1 DEF Published, Exists, Draft
  <2>3. \A d \in drafts : At(slots'[d]) = At(slots[d])
    BY <1>1 DEF At
  <2>4. Schedule(c)' = {At(slots'[i]) : i \in {k \in Ids' : Published(k)' /\ slots'[k].course = c}}
    BY DEF Schedule, At
  <2> QED
    BY <1>1, <1>2, <2>1, <2>2, <2>3, <2>4
<1> QED
  BY <1>0, <1>4, <1>5

LEMMA PublishKeeps ==
  ASSUME IInv, NEW r \in Requests, CommitPublish(r), \A d \in request[r].drafts : Exists(d)
  PROVE  IInv'
<1>0. PICK j, drafts, old, courses :
        j = request[r] /\ drafts = j.drafts /\ old = j.old /\ courses = j.courses
  OBVIOUS
<1>1. /\ j \in PublishJob /\ drafts \subseteq Ids /\ Ids' = Ids
      /\ \A d \in drafts :
           /\ slots'[d] \in Slot /\ slots'[d].published /\ slots'[d].course = slots[d].course
           /\ slots'[d].time = slots[d].time /\ slots'[d].room = slots[d].room
      /\ \A i \in Ids \ drafts : slots'[i] = IF i \in old THEN Gone ELSE slots[i]
  BY <1>0, PublishRows DEF IInv
<1>2. /\ ~Pending(r) /\ teachers' = teachers
      /\ j.alone =>
           /\ AllTold /\ drafts = {i \in Ids : Draft(i)} /\ j.seen = slots
           /\ courses = {slots[i].course : i \in drafts}
           /\ old = {i \in Ids : Published(i) /\ slots[i].course \in courses}
           /\ j.before = Schedules(courses)
      /\ \A i \in drafts \cup old : Exists(i) => j.alone \/ slots[i].course \in raced'
      /\ \A d \in courses : j.alone \/ d \in raced'
  BY <1>0, PublishReads
<1>3. \A d \in drafts : slots'[d] # Gone /\ Exists(d)
  BY <1>0, <1>1, SlotFields
<1>4. /\ PeopleStay /\ Others(r) /\ raced \subseteq raced' /\ stripped' = stripped
      /\ strained' = strained
      /\ request'[r] = [op |-> "published", courses |-> courses, before |-> j.before,
                        after |-> [c \in courses |->
                                     {At(j.seen[d]) : d \in {e \in drafts : j.seen[e].course = c}}],
                        alone |-> TRUE]
      /\ sessions' = TakenOver(j) /\ Typed'
  BY <1>0, PublishCommits DEF IInv
<1>5. /\ Pending(r)' /\ ~Asking(r)' /\ request'[r].courses = courses
      /\ request'[r].before = j.before /\ courses \subseteq Courses
      /\ \A c \in courses : request'[r].after[c] =
           {At(j.seen[d]) : d \in {e \in drafts : j.seen[e].course = c}}
  BY <1>0, <1>1, <1>4 DEF Pending, Asking, PublishJob
<1>6. NoticeStands(r)'
  <2>1. ASSUME j.alone, NEW c \in courses \ raced'
        PROVE  request'[r].before[c] = Schedule(c) /\ request'[r].after[c] = Schedule(c)'
    <3>1. request'[r].before[c] = Schedule(c)
      BY <1>2, <1>5, <2>1 DEF Schedules
    <3>2. Schedule(c)' = {At(slots[d]) : d \in {e \in drafts : slots[e].course = c}}
      BY <1>0, <1>5, <2>1, PublishSchedules
    <3> QED
      BY <1>2, <1>5, <2>1, <3>1, <3>2
  <2>2. CASE j.alone
    BY <1>2, <1>4, <1>5, <2>1, <2>2, NoticeNew
  <2>3. CASE ~j.alone
    BY <1>2, <1>4, <1>5, <2>3, NoticeNew
  <2> QED
    BY <2>2, <2>3
<1>7. \A c \in Courses : \/ c \in raced'
                         \/ Schedule(c)' = Schedule(c)
                         \/ Pending(r)' /\ c \in request'[r].courses
  BY <1>0, <1>5, PublishSchedules
<1>8. ASSUME NEW c, Drafted(c), ~j.alone
      PROVE  Drafted(c)' \/ c \in raced' \cup stripped'
  <2>1. PICK d \in Ids : Draft(d) /\ slots[d].course = c
    BY <1>8 DEF Drafted
  <2>2. CASE d \in drafts \cup old
    BY <1>2, <1>8, <2>1, <2>2 DEF Draft
  <2>3. CASE d \notin drafts \cup old
    BY <1>1, <2>1, <2>3 DEF Drafted, Draft, Exists
  <2> QED
    BY <2>2, <2>3
<1>9. ASSUME NEW n \in drafts, NEW i \in Ids
      PROVE  Apart(n, i)'
  <2> SUFFICES ASSUME n # i, slots'[i] # Gone, Clash(slots[n], slots[i])', ~Disturbed(n, i)',
                      ~Strained(n, i)'
               PROVE  FALSE
    BY DEF Apart, Exists
  <2>1. slots'[n].course = slots[n].course /\ slots'[i].course = slots[i].course
        /\ slots'[n].time = slots[n].time /\ slots'[i].time = slots[i].time
        /\ slots'[n].room = slots[n].room /\ slots'[i].room = slots[i].room
    BY <1>1
  <2>2. i \in drafts \/ (i \notin old /\ slots'[i] = slots[i])
    BY <1>1
  <2>3. j.alone
    BY <1>2, <1>3, <2>1 DEF Disturbed
  <2>4. Clash(slots[n], slots[i])
    BY <1>2, <2>1, ClashBefore
  <2>5. Exists(n) /\ Exists(i) /\ ~Disturbed(n, i) /\ ~Strained(n, i)
    BY <1>3, <1>4, <2>1, <2>2 DEF Exists, Disturbed, Strained
  <2>6. Replaces(n, i) \/ Replaces(i, n)
    BY <1>1, <2>4, <2>5 DEF IInv, AllApart, Apart
  <2>7. Draft(n)
    BY <1>2, <2>3
  <2>8. Published(i) /\ Drafted(slots[i].course)
    BY <2>6, <2>7 DEF Replaces, Published, Draft
  <2>9. i \in old /\ i \notin drafts
    BY <1>2, <2>3, <2>8 DEF Drafted, Draft, Published
  <2> QED
    BY <2>2, <2>9
<1>10. AllApart'
  <2>0. PICK T : T = drafts \cup old
    OBVIOUS
  <2>1. \A i \in Ids' \ T : i \in Ids /\ slots'[i] = slots[i]
    BY <1>1, <2>0
  <2>2. \A k \in T : \A i \in Ids' : Apart(k, i)'
    <3>1. ASSUME NEW k \in T, NEW i \in Ids', k \notin drafts
          PROVE  Apart(k, i)'
      BY <1>1, <2>0, <3>1 DEF Apart, Exists
    <3> QED
      BY <1>1, <1>9, <2>0, <3>1
  <2>3. AllApart /\ teachers' = teachers /\ raced \subseteq raced' /\ stripped \subseteq stripped'
    BY <1>2, <1>4 DEF IInv
  <2>4. \/ \A c : Drafted(c) => Drafted(c)' \/ c \in raced' \cup stripped'
        \/ \A i \in Ids \ T : ~Draft(i)
    BY <1>2, <1>8, <2>0
  <2> QED
    BY <1>4, <2>1, <2>2, <2>3, <2>4, NewApart
<1>11. SessionsHaveTheirClass'
  <2>1. /\ DOMAIN sessions' = DOMAIN sessions
        /\ \A k \in DOMAIN sessions :
             \/ sessions'[k].slot \in drafts \cup {NoSlot}
             \/ sessions'[k].slot = sessions[k].slot /\ sessions[k].slot \notin old
    BY <1>0, <1>1, <1>4, TakenOverIs DEF IInv, Typed
  <2>2. ASSUME NEW k \in DOMAIN sessions, NEW i, i = sessions'[k].slot, i # NoSlot
        PROVE  Published(i)'
    <3>1. CASE i \in drafts
      BY <1>1, <1>3, <3>1 DEF Published, Exists
    <3>2. CASE i \notin drafts
      <4>1. i = sessions[k].slot /\ i \notin old /\ Published(i)
        BY <2>1, <2>2, <3>2 DEF IInv, SessionsHaveTheirClass
      <4> QED
        BY <1>1, <3>2, <4>1 DEF Published, Exists
    <3> QED
      BY <3>1, <3>2
  <2> QED
    BY <2>1, <2>2 DEF SessionsHaveTheirClass
<1> QED
  BY <1>2, <1>4, <1>5, <1>6, <1>7, <1>10, <1>11, CommitKeeps

-----------------------------------------------------------------------------
(* Who teaches and who attends *)

\* Somebody comes to a course or leaves it.
Peopled ==
  \/ \E c \in Courses, p \in Lecturers : PutOn(c, p) \/ TakeOff(c, p)
  \/ \E c \in Courses, p \in Students : Register(c, p) \/ Drop(c, p)

\* A request still to commit is overtaken, one with people to tell is not.
LEMMA OvertakingIs ==
  ASSUME Typed, request' = Overtaking
  PROVE  /\ request' \in [Requests -> Job]
         /\ \A q \in Requests :
              /\ request'[q] = request[q] \/ request'[q] = Overtaken(request[q])
              /\ request'[q].op = request[q].op
              /\ Pending(q) => request'[q] = request[q]
              /\ Asking(q) => ~request'[q].alone
<1>1. ASSUME NEW q \in Requests
      PROVE  /\ request[q] \in Job
             /\ request'[q] = IF request[q].op \in {"idle", "edited", "published"} THEN request[q]
                              ELSE Overtaken(request[q])
             /\ Overtaken(request[q]) \in Job /\ Overtaken(request[q]).op = request[q].op
             /\ request[q].op # "idle" => ~Overtaken(request[q]).alone
  <2>1. request[q] \in Job
    BY DEF Typed
  <2>2. request[q] = Idle => request[q].op = "idle"
    BY DEF Idle
  <2> QED
    BY <2>1, <2>2, OvertakenIs DEF Overtaking, Overtaken
<1>2. DOMAIN request' = Requests
  BY DEF Overtaking
<1>3. request' = [q \in Requests |-> request'[q]]
  BY <1>2 DEF Overtaking
<1> QED
  BY <1>1, <1>3 DEF Pending, Asking

\* The lecturers p and c's others: the classes that come to clash are strained.
LEMMA StrainingIs ==
  ASSUME Typed, NEW c \in Courses, NEW p, teachers' = [teachers EXCEPT ![c] = @ \cup {p}],
         slots' = slots, NEW i \in Ids, NEW j \in Ids, Exists(i), Exists(j),
         Clash(slots[i], slots[j])', ~Clash(slots[i], slots[j])
  PROVE  <<i, j>> \in Straining(c, p) /\ <<j, i>> \in Straining(c, p)
<1> DEFINE a == slots[i].course
           b == slots[j].course
<1>1. a \in Courses /\ b \in Courses
  BY RowsExist, SlotFields DEF Typed
<1>2. teachers[a] # {}
  BY <1>1 DEF Typed, TypeOK
<1>3. /\ DOMAIN teachers = Courses
      /\ \A d \in Courses : teachers'[d] = IF d = c THEN teachers[d] \cup {p} ELSE teachers[d]
  BY DEF Typed, TypeOK
<1>4. Overlap(slots[i].time, slots[j].time) /\ Overlap(slots[j].time, slots[i].time)
  BY DEF Clash, Overlap
<1>5. teachers'[a] \cap teachers'[b] # {} /\ teachers[a] \cap teachers[b] = {}
  BY <1>4 DEF Clash
<1>6. (a = c /\ p \in teachers[b]) \/ (b = c /\ p \in teachers[a])
  BY <1>1, <1>2, <1>3, <1>5
<1>7. ~Clash(slots[j], slots[i])
  BY <1>4 DEF Clash
<1> QED
  BY <1>4, <1>6, <1>7 DEF Straining

LEMMA PeopledTyped ==
  ASSUME Typed, Peopled
  PROVE  /\ Typed' /\ UNCHANGED <<slots, sessions, offered, told, today, raced, stripped, missed>>
         /\ \A q \in Requests : /\ request'[q].op = request[q].op
                                /\ Pending(q) => request'[q] = request[q]
         /\ \/ teachers' = teachers /\ request' = request
            \/ \A q \in Requests : Asking(q) => ~request'[q].alone
         /\ \A c \in Courses : \A p \in Affected(c)' : p \in Affected(c) \/ <<c, p>> \in joined'
         /\ joined \subseteq joined' /\ strained \subseteq strained'
         /\ \A i, j \in Ids : Exists(i) /\ Exists(j) /\ Clash(slots[i], slots[j])' =>
              Clash(slots[i], slots[j]) \/ Strained(i, j)'
<1>0. /\ slots \in Seq(Slot \cup {Gone}) /\ strained \subseteq Ids \X Ids
      /\ joined \subseteq Courses \X People
      /\ teachers \in [Courses -> (SUBSET Lecturers) \ {{}}]
      /\ registered \in [Courses -> SUBSET Students]
      /\ request \in [Requests -> Job] /\ begun \in 0..MaxBegun
  BY DEF Typed, TypeOK
<1> DEFINE Tables == UNCHANGED <<slots, sessions, offered, told, today, raced, stripped, missed>>
           Requested == /\ request' \in [Requests -> Job] /\ Noted'
                        /\ \A q \in Requests : /\ request'[q].op = request[q].op
                                               /\ Pending(q) => request'[q] = request[q]
<1>2. Tables /\ begun' \in 0..MaxBegun
  BY <1>0, TimetableAssumption DEF Peopled, PutOn, TakeOff, Register, Drop
<1>3. request' = request \/ request' = Overtaking
  BY DEF Peopled, PutOn, TakeOff, Register, Drop
<1>4. Requested
  <2>1. \A q \in Requests : request'[q] = request[q] \/ request'[q] = Overtaken(request[q])
    BY <1>3, OvertakingIs
  <2>2. /\ request' \in [Requests -> Job]
        /\ \A q \in Requests : /\ request'[q].op = request[q].op
                               /\ Pending(q) => request'[q] = request[q]
    BY <1>0, <1>3, OvertakingIs
  <2>3. \A q \in Requests : OfRow(request'[q]) =>
          /\ OfRow(request[q]) /\ request'[q].id = request[q].id /\ request'[q].seen = request[q].seen
    BY <1>0, <2>1, <2>2, OvertakenIs DEF OfRow
  <2>4. Noted'
    BY <1>2, <2>3 DEF Typed, Noted, Exists, Published, Ids
  <2> QED
    BY <2>2, <2>4
<1>5. ASSUME NEW c \in Courses, NEW p \in Lecturers, PutOn(c, p)
      PROVE  /\ teachers' \in [Courses -> (SUBSET Lecturers) \ {{}}] /\ registered' = registered
             /\ strained' \subseteq Ids \X Ids /\ joined' \subseteq Courses \X People
             /\ \A d \in Courses : \A q \in Affected(d)' : q \in Affected(d) \/ <<d, q>> \in joined'
             /\ joined \subseteq joined' /\ strained \subseteq strained'
             /\ \A i, j \in Ids : Exists(i) /\ Exists(j) /\ Clash(slots[i], slots[j])' =>
                  Clash(slots[i], slots[j]) \/ Strained(i, j)'
  <2>1. /\ teachers' = [teachers EXCEPT ![c] = @ \cup {p}] /\ registered' = registered
        /\ slots' = slots
        /\ strained' = strained \cup Straining(c, p) /\ joined' = joined \cup {<<c, p>>}
    BY <1>5 DEF PutOn
  <2>2. \A d \in Courses : teachers'[d] = IF d = c THEN teachers[d] \cup {p} ELSE teachers[d]
    BY <1>0, <2>1
  <2>3. Straining(c, p) \subseteq Ids \X Ids /\ <<c, p>> \in Courses \X People
    BY DEF Straining, People
  <2>4. \A i, j \in Ids : Exists(i) /\ Exists(j) /\ Clash(slots[i], slots[j])' =>
          Clash(slots[i], slots[j]) \/ Strained(i, j)'
    BY <2>1, StrainingIs DEF Strained
  <2>5. teachers' \in [Courses -> (SUBSET Lecturers) \ {{}}]
    BY <1>0, <2>1
  <2>6. \A d \in Courses : \A q \in Affected(d)' : q \in Affected(d) \/ <<d, q>> \in joined'
    BY <2>1, <2>2 DEF Affected
  <2> HIDE DEF Ids
  <2> QED
    BY <1>0, <2>1, <2>3, <2>4, <2>5, <2>6
<1>6. ASSUME NEW c \in Courses, NEW p \in Lecturers, TakeOff(c, p)
      PROVE  /\ teachers' \in [Courses -> (SUBSET Lecturers) \ {{}}] /\ registered' = registered
             /\ UNCHANGED <<strained, joined>>
             /\ \A d \in Courses : Affected(d)' \subseteq Affected(d)
             /\ \A i, j \in Ids : Exists(i) /\ Exists(j) /\ Clash(slots[i], slots[j])' =>
                  Clash(slots[i], slots[j])
  <2>1. /\ teachers' = [teachers EXCEPT ![c] = @ \ {p}] /\ registered' = registered
        /\ slots' = slots /\ UNCHANGED <<strained, joined>> /\ p \in teachers[c] /\ teachers[c] # {p}
    BY <1>6 DEF TakeOff
  <2>2. \A d \in Courses : teachers'[d] \subseteq teachers[d]
    BY <1>0, <2>1
  <2>3. teachers[c] \ {p} \in (SUBSET Lecturers) \ {{}}
    BY <1>0, <2>1
  <2>4. teachers' \in [Courses -> (SUBSET Lecturers) \ {{}}]
    BY <1>0, <2>1, <2>3
  <2>5. \A d \in Courses : Affected(d)' \subseteq Affected(d)
    BY <2>1, <2>2 DEF Affected
  <2>6. ASSUME NEW i \in Ids, NEW j \in Ids, Exists(i), Exists(j), Clash(slots[i], slots[j])'
        PROVE  Clash(slots[i], slots[j])
    <3>1. slots[i].course \in Courses /\ slots[j].course \in Courses
      BY <2>6, RowsExist, SlotFields DEF Typed
    <3>2. /\ teachers'[slots[i].course] \subseteq teachers[slots[i].course]
          /\ teachers'[slots[j].course] \subseteq teachers[slots[j].course]
      BY <2>2, <3>1
    <3> QED
      BY <2>1, <2>6, <3>2 DEF Clash
  <2> QED
    BY <2>1, <2>4, <2>5, <2>6
<1>7. ASSUME NEW c \in Courses, NEW p \in Students, Register(c, p) \/ Drop(c, p)
      PROVE  /\ registered' \in [Courses -> SUBSET Students]
             /\ UNCHANGED <<slots, teachers, strained, request>>
             /\ joined \subseteq joined' /\ joined' \subseteq Courses \X People
             /\ \A d \in Courses : \A q \in Affected(d)' : q \in Affected(d) \/ <<d, q>> \in joined'
  <2>1. p \in People
    BY DEF People
  <2> QED
    BY <1>0, <1>7, <2>1 DEF Register, Drop, Affected
<1>8. ASSUME teachers' \in [Courses -> (SUBSET Lecturers) \ {{}}],
             registered' \in [Courses -> SUBSET Students],
             strained' \subseteq Ids \X Ids, joined' \subseteq Courses \X People
      PROVE  Typed'
  <2>1. TypeOK'
    BY <1>2, <1>8 DEF Typed, TypeOK, People, Ids
  <2> QED
    BY <1>4, <2>1 DEF Typed
<1>9. CASE \E c \in Courses, p \in Lecturers : PutOn(c, p) \/ TakeOff(c, p)
  <2>1. request' = Overtaking
    BY <1>9 DEF PutOn, TakeOff
  <2>2. \A q \in Requests : Asking(q) => ~request'[q].alone
    BY <2>1, OvertakingIs
  <2> QED
    BY <1>0, <1>2, <1>4, <1>5, <1>6, <1>8, <1>9, <2>2
<1>10. CASE \E c \in Courses, p \in Students : Register(c, p) \/ Drop(c, p)
  <2>1. PICK c \in Courses, p \in Students : Register(c, p) \/ Drop(c, p)
    BY <1>10
  <2>2. \A i, j \in Ids : Clash(slots[i], slots[j])' => Clash(slots[i], slots[j])
    BY <1>7, <2>1 DEF Clash
  <2> QED
    BY <1>0, <1>2, <1>4, <1>7, <1>8, <2>1, <2>2
<1> QED
  BY <1>9, <1>10 DEF Peopled

LEMMA PeopledKeeps ==
  ASSUME IInv, Peopled
  PROVE  IInv'
<1>1. /\ Typed' /\ UNCHANGED <<slots, sessions, offered, told, today, raced, stripped, missed>>
      /\ joined \subseteq joined' /\ strained \subseteq strained'
      /\ \A c \in Courses : \A p \in Affected(c)' : p \in Affected(c) \/ <<c, p>> \in joined'
  BY PeopledTyped DEF IInv
<1>2. \A q \in Requests : /\ request'[q].op = request[q].op
                          /\ Pending(q) => request'[q] = request[q]
  BY PeopledTyped DEF IInv
<1>3. \A q \in Requests : (Pending(q)' <=> Pending(q)) /\ (Asking(q)' <=> Asking(q))
  BY <1>2 DEF Pending, Asking
<1>4. \/ teachers' = teachers /\ request' = request
      \/ \A q \in Requests : Asking(q) => ~request'[q].alone
  BY PeopledTyped DEF IInv
<1>5. \A c \in Courses : \A s : Know(c, s) => Know(c, s)'
  BY <1>1 DEF Know
<1>6. AllTold' <=> AllTold
  BY <1>3 DEF AllTold, Pending
<1>7. ReadsAllHold'
  <2> SUFFICES ASSUME NEW q \in Requests, Asking(q)', request'[q].alone
               PROVE  AllTold' /\ ReadsTrue(request[q])' /\ request'[q] = request[q]
    BY DEF ReadsAllHold, ReadsHold
  <2>1. teachers' = teachers /\ request' = request
    BY <1>3, <1>4
  <2>2. AllTold /\ ReadsTrue(request[q])
    BY <1>3, <2>1 DEF IInv, ReadsAllHold, ReadsHold
  <2>3. PICK j : j = request[q]
    OBVIOUS
  <2>4. ReadsTrue(j)'
    BY <1>1, <2>1, <2>2, <2>3, ReadsStay DEF FiledUnder
  <2> QED
    BY <1>6, <2>1, <2>2, <2>3, <2>4
<1>8. \A c : Untold(c)' <=> Untold(c)
  BY <1>2, <1>3 DEF Untold
<1>9. NoticesStand'
  <2> SUFFICES ASSUME NEW q \in Requests, Pending(q)', request'[q].alone PROVE NoticeStands(q)'
    BY DEF NoticesStand, NoticeStands
  <2>1. PICK j : j = request[q] /\ j = request'[q]
    BY <1>2, <1>3
  <2>2. /\ j.courses \subseteq Courses
        /\ j.courses \subseteq raced \/ \A p \in Requests \ {q} : ~Pending(p)
        /\ \A c \in j.courses \ raced :
             /\ c \notin missed => Know(c, j.before[c])
             /\ j.op = "published" => j.after[c] = Schedule(c)
    <3>1. j \in EditedJob \/ j \in PublishedJob
      BY <1>3, <2>1, JobKinds DEF IInv, Typed, Pending
    <3>2. NoticeStands(q)
      BY DEF IInv, NoticesStand
    <3> QED
      BY <1>3, <2>1, <3>1, <3>2 DEF NoticeStands, EditedJob, PublishedJob
  <2>3. \A c \in j.courses \ raced' :
             /\ c \notin missed' => Know(c, j.before[c])'
             /\ j.op = "published" => j.after[c] = Schedule(c)'
    BY <1>1, <1>5, <2>2, SameRows
  <2> QED
    BY <1>1, <1>3, <2>1, <2>2, <2>3 DEF NoticeStands
<1>10. AllAreTold'
  <2> SUFFICES ASSUME NEW c \in Courses PROVE Told(c)'
    BY DEF AllAreTold
  <2>1. Told(c) /\ Schedule(c)' = Schedule(c)
    BY <1>1, SameRows DEF IInv, AllAreTold
  <2> QED
    BY <1>1, <1>5, <1>8, <2>1 DEF Told
<1>11. AllApart'
  <2> SUFFICES ASSUME NEW i \in Ids, NEW j \in Ids PROVE Apart(i, j)'
    BY <1>1 DEF AllApart, Ids
  <2>1. Apart(i, j)
    BY DEF IInv, AllApart
  <2>2. Exists(i) /\ Exists(j) /\ Clash(slots[i], slots[j])' =>
          Clash(slots[i], slots[j]) \/ Strained(i, j)'
    BY PeopledTyped DEF IInv
  <2>3. /\ Disturbed(i, j) => Disturbed(i, j)'
        /\ Strained(i, j) => Strained(i, j)'
        /\ Replaces(i, j)' <=> Replaces(i, j)
        /\ Replaces(j, i)' <=> Replaces(j, i)
        /\ Exists(i)' <=> Exists(i)
        /\ Exists(j)' <=> Exists(j)
    BY <1>1 DEF Disturbed, Strained, Replaces, Drafted, Draft, Published, Exists, Ids
  <2> QED
    BY <2>1, <2>2, <2>3 DEF Apart
<1>12. SessionsHaveTheirClass'
  BY <1>1 DEF IInv, SessionsHaveTheirClass, Published, Exists, Ids
<1> QED
  BY <1>1, <1>7, <1>9, <1>10, <1>11, <1>12 DEF IInv

-----------------------------------------------------------------------------
(* Every step keeps the invariant *)

Begins(r) ==
  \/ \E class \in Forms : BeginCreate(r, class)
  \/ \E i \in Ids, class \in Forms : BeginUpdate(r, i, class)
  \/ \E i \in Ids : BeginDelete(r, i)
  \/ \E plan \in Plans \cup {CopyPlan(kept) : kept \in SUBSET Courses} : BeginSave(r, plan)
  \/ BeginPublish(r)

Commits(r) ==
  CommitCreate(r) \/ CommitUpdate(r) \/ CommitDelete(r) \/ CommitSave(r) \/ CommitPublish(r)

LEMMA Steps ==
  ASSUME [Next]_vars
  PROVE  \/ Elsewhere \/ Peopled
         \/ \E r \in Requests : Begins(r) \/ Commits(r) \/ Tell(r) \/ TellFails(r)
  BY DEF Next, Elsewhere, Peopled, Begins, Commits

\* A commit that finds its rows gone is rolled back.
LEMMA CommitOrBack ==
  ASSUME NEW r \in Requests, Commits(r)
  PROVE  \/ CommitCreate(r) \/ CommitSave(r)
         \/ CommitUpdate(r) /\ Exists(request[r].id)
         \/ CommitDelete(r) /\ FiledUnder(request[r].id) \subseteq request[r].filed
         \/ CommitPublish(r) /\ \A d \in request[r].drafts : Exists(d)
         \/ RolledBack(r) /\ Asking(r)
  BY DEF Commits, CommitUpdate, CommitDelete, CommitPublish, Asking

LEMMA NextKeeps ==
  ASSUME IInv, [Next]_vars
  PROVE  IInv'
<1>1. CASE Elsewhere
  BY <1>1, AsideKeeps DEF Aside
<1>2. ASSUME NEW r \in Requests, Begins(r)
      PROVE  IInv'
  <2>1. Typed
    BY DEF IInv
  <2>2. PICK job \in Asked : Ask(r, job) /\ ReadsTrue(job) /\ (job.alone => AllTold) /\ Typed'
    BY <1>2, <2>1, BeginTyped DEF Begins
  <2> QED
    BY <2>2, AskKeeps
<1>3. CASE Peopled
  BY <1>3, PeopledKeeps
<1>4. ASSUME NEW r \in Requests, Commits(r)
      PROVE  IInv'
  <2>1. CASE RolledBack(r) /\ Asking(r)
    <3>1. Aside
      BY <2>1 DEF Aside
    <3> QED
      BY <3>1, AsideKeeps
  <2> QED
    BY <1>4, <2>1, CommitOrBack, CreateKeeps, UpdateKeeps, DeleteKeeps, SaveKeeps, PublishKeeps
<1>5. ASSUME NEW r \in Requests, Tell(r) \/ TellFails(r)
      PROVE  IInv'
  BY <1>5, TellKeeps
<1> QED
  BY <1>1, <1>2, <1>3, <1>4, <1>5, Steps

LEMMA Invariance == Spec => []IInv
<1>1. Init => IInv
  BY InitKeeps
<1>2. IInv /\ [Next]_vars => IInv'
  BY NextKeeps
<1> QED
  BY <1>1, <1>2, PTL DEF Spec

\* A request goes on only by a step of its own.
LEMMA OwnStep ==
  ASSUME Typed, [Next]_vars, NEW r \in Requests, request'[r].op # request[r].op
  PROVE  request[r] = Idle \/ Commits(r) \/ Tell(r) \/ TellFails(r)
<1>1. CASE Elsewhere
  <2>1. request' = request
    BY <1>1 DEF Elsewhere, AddMissing, StartClass, NextDay, vars
  <2> QED
    BY <2>1
<1>2. ASSUME NEW q \in Requests, Begins(q), q # r
      PROVE  FALSE
  <2>1. PICK job \in Asked : Ask(q, job)
    BY <1>2, BeginTyped DEF Begins
  <2> QED
    BY <1>2, <2>1 DEF Ask, Typed
<1>3. ~Peopled
  BY PeopledTyped
<1>4. ASSUME NEW q \in Requests, Commits(q), q # r
      PROVE  FALSE
  <2>1. CASE RolledBack(q)
    BY <1>4, <2>1 DEF RolledBack, Typed
  <2>2. CASE Others(q)
    BY <1>4, <2>2, OthersAre
  <2> QED
    BY <1>4, <2>1, <2>2, CommitOrBack, CreateCommits, UpdateCommits, DeleteCommits,
       SaveCommits, PublishCommits
<1>5. ASSUME NEW q \in Requests, Tell(q) \/ TellFails(q), q # r
      PROVE  FALSE
  BY <1>5 DEF Tell, TellFails, Typed
<1>6. Begins(r) => request[r] = Idle
  BY BeginTyped DEF Begins, Ask
<1> QED
  BY <1>1, <1>2, <1>3, <1>4, <1>5, <1>6, Steps

-----------------------------------------------------------------------------
(* One class of a course at a time *)

\* Two rows of a course at one time are a class and the draft to replace it,
\* but for courses that overlapping requests wrote.
OrderedRows == \A i \in Ids : Exists(i) => Ordered(slots[i].time)

Distinct(i, j) ==
  /\ i # j /\ Exists(i) /\ Exists(j)
  /\ slots[i].course = slots[j].course /\ slots[i].course \notin raced
  /\ Overlap(slots[i].time, slots[j].time)
  => ~(Published(i) <=> Published(j))

OnePerHour == \A i, j \in Ids : Distinct(i, j)

TermInv == IInv /\ OrderedRows /\ OnePerHour

LEMMA OrderKept ==
  ASSUME OrderedRows,
         \A i \in Ids' : slots'[i] # Gone =>
           \/ Ordered(slots'[i].time)
           \/ i \in Ids /\ slots[i] # Gone /\ slots'[i].time = slots[i].time
  PROVE  OrderedRows'
<1> SUFFICES ASSUME NEW i \in Ids', slots'[i] # Gone PROVE Ordered(slots'[i].time)
  BY DEF OrderedRows, Exists, Ordered
<1> QED
  BY DEF OrderedRows, Exists

LEMMA OldDistinct ==
  ASSUME OnePerHour, raced \subseteq raced', NEW i \in Ids, NEW j \in Ids,
         i \in Ids', j \in Ids', slots'[i] = slots[i], slots'[j] = slots[j]
  PROVE  Distinct(i, j)'
<1>1. Distinct(i, j)
  BY DEF OnePerHour
<1> QED
  BY <1>1 DEF Distinct, Exists, Published

\* The rows T a commit wrote are distinct from all others.
LEMMA NewDistinct ==
  ASSUME OnePerHour, raced \subseteq raced',
         NEW T, \A i \in Ids' \ T : i \in Ids /\ slots'[i] = slots[i],
         \A i \in T : \A j \in Ids' : Distinct(i, j)'
  PROVE  OnePerHour'
<1> SUFFICES ASSUME NEW i \in Ids', NEW j \in Ids' PROVE Distinct(i, j)'
  BY DEF OnePerHour
<1>1. CASE i \in T
  BY <1>1
<1>2. CASE j \in T
  <2>1. Distinct(j, i)'
    BY <1>2
  <2> QED
    BY <2>1 DEF Distinct, Overlap
<1>3. CASE i \notin T /\ j \notin T
  BY <1>3, OldDistinct
<1> QED
  BY <1>1, <1>2, <1>3

\* A class that fits is at no time of another class of its course, for its
\* lecturers cannot hold both.
LEMMA FitsItsCourse ==
  ASSUME TypeOK, NEW a, NEW b, a.course \in Courses, b.course = a.course, ~Clash(a, b)
  PROVE  ~Overlap(a.time, b.time)
<1>1. teachers[a.course] # {}
  BY DEF TypeOK
<1> QED
  BY <1>1 DEF Clash

LEMMA RowsStayDistinct ==
  ASSUME OrderedRows, OnePerHour, slots' = slots, raced \subseteq raced'
  PROVE  OrderedRows' /\ OnePerHour'
<1>1. OrderedRows'
  BY DEF OrderedRows, Exists, Ids
<1>2. ASSUME NEW i \in Ids', NEW j \in Ids' PROVE Distinct(i, j)'
  BY OldDistinct DEF Ids
<1> QED
  BY <1>1, <1>2 DEF OnePerHour

LEMMA CreateDistinct ==
  ASSUME TermInv, NEW r \in Requests, CommitCreate(r)
  PROVE  OrderedRows' /\ OnePerHour'
<1>0. PICK j, n : j = request[r] /\ n = Len(slots) + 1
  OBVIOUS
<1>1. /\ j \in CreateJob /\ OnTimetable(j.class) \in Slot
      /\ Ids' = Ids \cup {n} /\ n \notin Ids /\ slots'[n] = OnTimetable(j.class)
      /\ \A i \in Ids : slots'[i] = slots[i]
  BY <1>0, CreateRows DEF TermInv, IInv
<1>2. /\ raced \subseteq raced' /\ (~j.alone => j.class.course \in raced')
  BY <1>0, CreateCommits DEF TermInv, IInv
<1>3. j.alone => ValidSlot(j.class, NoSlot)
  <2>1. j.op = "create" /\ ReadsHold(r)
    BY <1>0 DEF TermInv, IInv, ReadsAllHold, CommitCreate
  <2> QED
    BY <1>0, <2>1 DEF ReadsHold, ReadsTrue, Asking
<1>4. /\ slots'[n].course = j.class.course /\ slots'[n].time = j.class.time
      /\ slots'[n].published
  BY <1>1 DEF OnTimetable
<1>5. j.class \in Class /\ Ordered(j.class.time) /\ j.class.course \in Courses
  BY <1>1, ClassFields DEF CreateJob, Bookable
<1>6. OrderedRows'
  BY <1>1, <1>4, <1>5, OrderKept DEF TermInv
<1>7. ASSUME NEW i \in Ids'
      PROVE  Distinct(n, i)'
  <2> SUFFICES ASSUME n # i, slots'[i] # Gone, slots'[n].course = slots'[i].course,
                      slots'[n].course \notin raced', Overlap(slots'[n].time, slots'[i].time)
               PROVE  FALSE
    BY DEF Distinct, Exists
  <2>1. i \in Ids /\ Exists(i) /\ slots'[i] = slots[i] /\ i # NoSlot
    BY <1>1, <1>7, Rows DEF Exists, NoSlot, TermInv, IInv, Typed
  <2>2. ValidSlot(j.class, NoSlot)
    BY <1>2, <1>3, <1>4
  <2>3. ~Clash(j.class, slots[i])
    BY <2>1, <2>2 DEF ValidSlot
  <2> QED
    BY <1>4, <1>5, <2>1, <2>3, FitsItsCourse DEF TermInv, IInv, Typed
<1>8. OnePerHour'
  <2>0. PICK T : T = {n}
    OBVIOUS
  <2>1. \A i \in Ids' \ T : i \in Ids /\ slots'[i] = slots[i]
    BY <1>1, <2>0
  <2>2. \A k \in T : \A i \in Ids' : Distinct(k, i)'
    BY <1>7, <2>0
  <2> QED
    BY <1>2, <2>1, <2>2, NewDistinct DEF TermInv
<1> QED
  BY <1>6, <1>8

LEMMA UpdateDistinct ==
  ASSUME TermInv, NEW r \in Requests, CommitUpdate(r), Exists(request[r].id)
  PROVE  OrderedRows' /\ OnePerHour'
<1>0. PICK j, n : j = request[r] /\ n = j.id
  OBVIOUS
<1>1. /\ j \in UpdateJob /\ n \in Ids /\ slots[n] \in Slot /\ Ids' = Ids
      /\ slots'[n] = Updated(slots[n], j.seen, j.class)
      /\ \A i \in Ids \ {n} : slots'[i] = slots[i]
  BY <1>0, UpdateRows DEF TermInv, IInv
<1>2. /\ raced \subseteq raced'
      /\ ~j.alone => {j.seen.course, j.class.course, slots[n].course} \subseteq raced'
  BY <1>0, UpdateCommits DEF TermInv, IInv
<1>3. j.alone => ValidSlot(j.class, n) /\ j.seen = slots[n]
  <2>1. j.op = "update" /\ ReadsHold(r)
    BY <1>0 DEF TermInv, IInv, ReadsAllHold, CommitUpdate
  <2> QED
    BY <1>0, <2>1 DEF ReadsHold, ReadsTrue, Asking
<1>4. j.class \in Class /\ Ordered(j.class.time) /\ j.class.course \in Courses
  BY <1>1, ClassFields DEF UpdateJob, Bookable
<1>5. /\ slots'[n].course \in {j.class.course, slots[n].course}
      /\ slots'[n].time \in {j.class.time, slots[n].time}
      /\ j.alone => slots'[n].course = j.class.course /\ slots'[n].time = j.class.time
  BY <1>1, <1>3 DEF Updated
<1>6. OrderedRows'
  <2>1. slots[n] # Gone
    BY <1>1, SlotFields
  <2> QED
    BY <1>1, <1>4, <1>5, <2>1, OrderKept DEF TermInv
<1>7. ASSUME NEW i \in Ids'
      PROVE  Distinct(n, i)'
  <2> SUFFICES ASSUME n # i, slots'[i] # Gone, slots'[n].course = slots'[i].course,
                      slots'[n].course \notin raced', Overlap(slots'[n].time, slots'[i].time)
               PROVE  FALSE
    BY DEF Distinct, Exists
  <2>1. i \in Ids /\ Exists(i) /\ slots'[i] = slots[i]
    BY <1>1, <1>7 DEF Exists
  <2>2. j.alone
    BY <1>2, <1>5
  <2>3. ~Clash(j.class, slots[i])
    BY <1>3, <2>1, <2>2 DEF ValidSlot
  <2> QED
    BY <1>4, <1>5, <2>1, <2>2, <2>3, FitsItsCourse DEF TermInv, IInv, Typed
<1>8. OnePerHour'
  <2>0. PICK T : T = {n}
    OBVIOUS
  <2>1. \A i \in Ids' \ T : i \in Ids /\ slots'[i] = slots[i]
    BY <1>1, <2>0
  <2>2. \A k \in T : \A i \in Ids' : Distinct(k, i)'
    BY <1>7, <2>0
  <2> QED
    BY <1>2, <2>1, <2>2, NewDistinct DEF TermInv
<1> QED
  BY <1>6, <1>8

LEMMA DeleteDistinct ==
  ASSUME TermInv, NEW r \in Requests, CommitDelete(r),
         FiledUnder(request[r].id) \subseteq request[r].filed
  PROVE  OrderedRows' /\ OnePerHour'
<1>0. PICK n : n = request[r].id
  OBVIOUS
<1>1. /\ n \in Ids /\ slots'[n] = Gone /\ Ids' = Ids
      /\ \A k \in Ids \ {n} : slots'[k] = slots[k]
  BY <1>0, DeleteRows DEF TermInv, IInv
<1>2. raced \subseteq raced'
  BY DeleteCommits DEF TermInv, IInv
<1>3. OrderedRows'
  BY <1>1, OrderKept DEF TermInv
<1>4. OnePerHour'
  <2>0. PICK T : T = {n}
    OBVIOUS
  <2>1. \A i \in Ids' \ T : i \in Ids /\ slots'[i] = slots[i]
    BY <1>1, <2>0
  <2>2. \A k \in T : \A i \in Ids' : Distinct(k, i)'
    BY <1>1, <2>0 DEF Distinct, Exists
  <2> QED
    BY <1>2, <2>1, <2>2, NewDistinct DEF TermInv
<1> QED
  BY <1>3, <1>4

LEMMA SaveDistinct ==
  ASSUME TermInv, NEW r \in Requests, CommitSave(r)
  PROVE  OrderedRows' /\ OnePerHour'
<1>0. PICK plan, old : plan = request[r].plan /\ old = request[r].old
  OBVIOUS
<1>1. /\ plan \subseteq Bookable /\ Ids \subseteq Ids'
      /\ \A i \in Ids : slots'[i] = IF i \in old THEN Gone ELSE slots[i]
      /\ \A n \in Ids' \ Ids : \E a \in plan : slots'[n] = DraftRow(a)
      /\ \A m, n \in Ids' \ Ids : slots'[m] = slots'[n] => m = n
  BY <1>0, SaveRows DEF TermInv, IInv, SaveJob
<1>2. raced \subseteq raced'
  BY SaveCommits DEF TermInv, IInv
<1>3. /\ request[r].alone =>
           PlanOk(plan) /\ old = {i \in Ids : Draft(i) /\ slots[i].course \in {a.course : a \in plan}}
      /\ \A a \in plan : request[r].alone \/ a.course \in raced'
  BY <1>0, SaveReads DEF TermInv
<1>4. \A a \in plan : /\ DraftRow(a).course = a.course /\ DraftRow(a).time = a.time
                      /\ ~DraftRow(a).published /\ Ordered(a.time)
  BY <1>1, DraftRowIs DEF Bookable
<1>5. OrderedRows'
  <2>1. \A i \in Ids' : slots'[i] # Gone =>
          \/ Ordered(slots'[i].time)
          \/ i \in Ids /\ slots[i] # Gone /\ slots'[i].time = slots[i].time
    BY <1>1, <1>4
  <2> QED
    BY <2>1, OrderKept DEF TermInv
<1>6. ASSUME NEW n \in Ids' \ Ids, NEW i \in Ids'
      PROVE  Distinct(n, i)'
  <2> SUFFICES ASSUME n # i, slots'[i] # Gone, slots'[n].course = slots'[i].course,
                      slots'[n].course \notin raced', Overlap(slots'[n].time, slots'[i].time),
                      ~slots'[i].published
               PROVE  FALSE
    <3>1. ~slots'[n].published
      BY <1>1, <1>4
    <3> QED
      BY <3>1 DEF Distinct, Exists, Published
  <2>1. PICK a \in plan : slots'[n] = DraftRow(a)
    BY <1>1
  <2>2. slots'[n].course = a.course /\ slots'[n].time = a.time
    BY <1>4, <2>1
  <2>3. PlanOk(plan) /\ old = {k \in Ids : Draft(k) /\ slots[k].course \in {b.course : b \in plan}}
    BY <1>3, <2>2
  <2>4. CASE i \in Ids
    <3>1. i \notin old /\ slots'[i] = slots[i] /\ Draft(i)
      BY <1>1, <2>4 DEF Draft, Exists
    <3> QED
      BY <2>2, <2>3, <2>4, <3>1
  <2>5. CASE i \notin Ids
    <3>1. PICK b \in plan : slots'[i] = DraftRow(b)
      BY <1>1, <2>5
    <3>2. a # b /\ slots'[i].course = b.course /\ slots'[i].time = b.time
      BY <1>1, <1>4, <2>1, <2>5, <3>1
    <3>3. ~Overlap(a.time, b.time)
      BY <2>2, <2>3, <3>2 DEF PlanOk
    <3> QED
      BY <2>2, <3>2, <3>3
  <2> QED
    BY <2>4, <2>5
<1>7. OnePerHour'
  <2>0. PICK T : T = old \cup (Ids' \ Ids)
    OBVIOUS
  <2>1. \A i \in Ids' \ T : i \in Ids /\ slots'[i] = slots[i]
    BY <1>1, <2>0
  <2>2. \A k \in T : \A i \in Ids' : Distinct(k, i)'
    <3>1. ASSUME NEW k \in T, NEW i \in Ids', k \in Ids \/ k \notin Ids'
          PROVE  Distinct(k, i)'
      BY <1>1, <2>0, <3>1 DEF Distinct, Exists
    <3> QED
      BY <1>6, <2>0, <3>1
  <2> QED
    BY <1>2, <2>1, <2>2, NewDistinct DEF TermInv
<1> QED
  BY <1>5, <1>7

LEMMA PublishDistinct ==
  ASSUME TermInv, NEW r \in Requests, CommitPublish(r), \A d \in request[r].drafts : Exists(d)
  PROVE  OrderedRows' /\ OnePerHour'
<1>0. PICK j, drafts, old, courses :
        j = request[r] /\ drafts = j.drafts /\ old = j.old /\ courses = j.courses
  OBVIOUS
<1>1. /\ drafts \subseteq Ids /\ Ids' = Ids
      /\ \A d \in drafts :
           /\ slots'[d].published /\ slots'[d].course = slots[d].course
           /\ slots'[d].time = slots[d].time
      /\ \A i \in Ids \ drafts : slots'[i] = IF i \in old THEN Gone ELSE slots[i]
  BY <1>0, PublishRows DEF TermInv, IInv
<1>2. /\ j.alone => /\ drafts = {i \in Ids : Draft(i)}
                    /\ courses = {slots[i].course : i \in drafts}
                    /\ old = {i \in Ids : Published(i) /\ slots[i].course \in courses}
      /\ \A i \in drafts : Exists(i) => j.alone \/ slots[i].course \in raced'
  BY <1>0, PublishReads DEF TermInv
<1>3. raced \subseteq raced'
  BY PublishCommits DEF TermInv, IInv
<1>4. \A d \in drafts : Exists(d)
  BY <1>0
<1>5. OrderedRows'
  <2>1. \A i \in Ids' : slots'[i] # Gone =>
          i \in Ids /\ slots[i] # Gone /\ slots'[i].time = slots[i].time
    BY <1>1, <1>4 DEF Exists
  <2> QED
    BY <2>1, OrderKept DEF TermInv
<1>6. ASSUME NEW n \in drafts, NEW i \in Ids'
      PROVE  Distinct(n, i)'
  <2> SUFFICES ASSUME n # i, slots'[i] # Gone, slots'[n].course = slots'[i].course,
                      slots'[n].course \notin raced', Overlap(slots'[n].time, slots'[i].time)
               PROVE  FALSE
    BY DEF Distinct, Exists
  <2>1. j.alone
    BY <1>1, <1>2, <1>4
  <2>2. CASE i \in drafts
    <3>1. Distinct(n, i)
      BY <1>1, <2>2 DEF TermInv, OnePerHour
    <3>2. Draft(n) /\ Draft(i)
      BY <1>2, <2>1, <2>2
    <3> QED
      BY <1>1, <1>3, <1>4, <2>2, <3>1, <3>2 DEF Distinct, Draft, Published
  <2>3. CASE i \notin drafts
    <3>1. i \notin old /\ slots'[i] = slots[i] /\ i \in Ids
      BY <1>1, <2>3
    <3>2. Published(i) /\ slots[i].course \in courses
      BY <1>1, <1>2, <2>1, <2>3, <3>1 DEF Draft, Published, Exists
    <3> QED
      BY <1>2, <2>1, <3>1, <3>2
  <2> QED
    BY <2>2, <2>3
<1>7. OnePerHour'
  <2>0. PICK T : T = drafts \cup old
    OBVIOUS
  <2>1. \A i \in Ids' \ T : i \in Ids /\ slots'[i] = slots[i]
    BY <1>1, <2>0
  <2>2. \A k \in T : \A i \in Ids' : Distinct(k, i)'
    <3>1. ASSUME NEW k \in T, NEW i \in Ids', k \notin drafts
          PROVE  Distinct(k, i)'
      BY <1>1, <2>0, <3>1 DEF Distinct, Exists
    <3> QED
      BY <1>1, <1>6, <2>0, <3>1
  <2> QED
    BY <1>3, <2>1, <2>2, NewDistinct DEF TermInv
<1> QED
  BY <1>5, <1>7

LEMMA TermInvariance == Spec => []TermInv
<1>1. Init => TermInv
  <2> SUFFICES ASSUME Init PROVE TermInv
    OBVIOUS
  <2>1. PICK P \in Plans \cup {{}} :
        /\ \A a \in P : a.time[1] < a.time[2]
        /\ \A a, b \in P : a # b => ~Clash(a, b)
        /\ slots = [i \in 1..Cardinality(P) |->
                     LET s == SetToSeq(P)[i] IN
                     [course |-> s.course, time |-> s.time, room |-> s.room,
                      published |-> TRUE, since |-> 0]]
    BY DEF Init
  <2>2. P \subseteq Class /\ IsFiniteSet(P)
    BY TimetableAssumption, FS_EmptySet
  <2> DEFINE N == Cardinality(P)
             s == SetToSeq(P)
  <2>3. N \in Nat /\ s \in [1..N -> P] /\ \A i, j \in 1..N : s[i] = s[j] => i = j
    BY <2>2, SetToSeqOf
  <2>4. Ids = 1..N
    BY <2>1 DEF Ids
  <2>5. ASSUME NEW i \in Ids
        PROVE  /\ s[i] \in P /\ slots[i].course = s[i].course /\ slots[i].time = s[i].time
               /\ s[i].course \in Courses
    BY <2>1, <2>2, <2>3, <2>4, <2>5, ClassFields
  <2> HIDE DEF s, N
  <2>6. OrderedRows
    BY <2>1, <2>5 DEF OrderedRows, Ordered
  <2>7. IInv
    BY InitKeeps
  <2>8. OnePerHour
    <3> SUFFICES ASSUME NEW i \in Ids, NEW j \in Ids, i # j, slots[i].course = slots[j].course,
                        Overlap(slots[i].time, slots[j].time)
                 PROVE  FALSE
      BY DEF OnePerHour, Distinct
    <3>1. s[i] # s[j] /\ s[i] \in P /\ s[j] \in P
      BY <2>3, <2>4, <2>5
    <3>2. ~Clash(s[i], s[j])
      BY <2>1, <3>1
    <3>3. ~Overlap(s[i].time, s[j].time)
      BY <2>5, <2>7, <3>2, FitsItsCourse DEF IInv, Typed
    <3> QED
      BY <2>5, <3>3
  <2> QED
    BY <2>6, <2>7, <2>8 DEF TermInv
<1>2. TermInv /\ [Next]_vars => TermInv'
  <2> SUFFICES ASSUME TermInv, [Next]_vars PROVE OrderedRows' /\ OnePerHour'
    BY NextKeeps DEF TermInv
  <2>1. CASE Aside
    BY <2>1, AsideTyped, RowsStayDistinct DEF TermInv, IInv
  <2>2. ASSUME NEW r \in Requests, Begins(r)
        PROVE  OrderedRows' /\ OnePerHour'
    <3>1. PICK job \in Asked : Ask(r, job)
      BY <2>2, BeginTyped DEF Begins, TermInv, IInv
    <3> QED
      BY <3>1, RowsStayDistinct DEF Ask, tables, TermInv
  <2>3. CASE Peopled
    BY <2>3, PeopledTyped, RowsStayDistinct DEF TermInv, IInv
  <2>4. ASSUME NEW r \in Requests, Commits(r)
        PROVE  OrderedRows' /\ OnePerHour'
    <3>1. CASE RolledBack(r) /\ Asking(r)
      BY <2>1, <3>1 DEF Aside
    <3> QED
      BY <2>4, <3>1, CommitOrBack, CreateDistinct, UpdateDistinct, DeleteDistinct,
         SaveDistinct, PublishDistinct
  <2>5. ASSUME NEW r \in Requests, Tell(r) \/ TellFails(r)
        PROVE  OrderedRows' /\ OnePerHour'
    BY <2>5, TellStep, RowsStayDistinct DEF TermInv
  <2> QED
    BY <2>1, <2>2, <2>3, <2>4, <2>5, Steps DEF Aside
<1> QED
  BY <1>1, <1>2, PTL DEF Spec

-----------------------------------------------------------------------------
(* The counts of a course, as functions of the rows and the sessions *)

ShownIn(rows, c) ==
  {i \in DOMAIN rows : rows[i] # Gone /\ rows[i].published /\ rows[i].course = c}

SlotIn(rows, s) ==
  LET same == {i \in ShownIn(rows, s.course) : rows[i].time[1] = s.start}
  IN  IF s.slot \in DOMAIN rows /\ rows[s.slot] # Gone /\ rows[s.slot].published THEN s.slot
      ELSE IF same = {} THEN NoSlot ELSE CHOOSE i \in same : \A j \in same : j <= i

CountedIn(rows, s) == SlotIn(rows, s) # NoSlot /\ s.date >= rows[SlotIn(rows, s)].since

DueIn(rows, c, first, last) ==
  {due \in (DOMAIN rows) \X (first..last) :
     due[1] \in ShownIn(rows, c) /\ due[2] >= rows[due[1]].since}

HeldIn(rows, ss, c) ==
  {<<SlotIn(rows, ss[k]), ss[k].date>> :
     k \in {j \in DOMAIN ss : ss[j].course = c /\ CountedIn(rows, ss[j])}}

StartIn(ss) == Min({ss[k].date : k \in DOMAIN ss})

LEMMA SlotOfIs ==
  ASSUME NEW k
  PROVE  /\ SlotOf(k) = SlotIn(slots, sessions[k])
         /\ SlotOf(k)' = SlotIn(slots', sessions'[k])
<1> DEFINE same == {i \in Ids : Published(i) /\ slots[i].course = sessions[k].course
                                /\ slots[i].time[1] = sessions[k].start}
           then == {i \in Ids' : Published(i)' /\ slots'[i].course = sessions'[k].course
                                 /\ slots'[i].time[1] = sessions'[k].start}
<1>1. same = {i \in ShownIn(slots, sessions[k].course) : slots[i].time[1] = sessions[k].start}
  BY DEF ShownIn, Published, Exists, Ids
<1>2. then = {i \in ShownIn(slots', sessions'[k].course) : slots'[i].time[1] = sessions'[k].start}
  BY DEF ShownIn, Published, Exists, Ids
<1>3. SlotOf(k) = IF Published(sessions[k].slot) THEN sessions[k].slot
                  ELSE IF same = {} THEN NoSlot ELSE CHOOSE i \in same : \A j \in same : j <= i
  BY DEF SlotOf
<1>4. SlotOf(k)' = IF Published(sessions[k].slot)' THEN sessions'[k].slot
                   ELSE IF then = {} THEN NoSlot ELSE CHOOSE i \in then : \A j \in then : j <= i
  BY DEF SlotOf, Published, Exists, Ids
<1>5. /\ Published(sessions[k].slot) <=>
           /\ sessions[k].slot \in DOMAIN slots
           /\ slots[sessions[k].slot] # Gone /\ slots[sessions[k].slot].published
      /\ Published(sessions[k].slot)' <=>
           /\ sessions'[k].slot \in DOMAIN slots'
           /\ slots'[sessions'[k].slot] # Gone /\ slots'[sessions'[k].slot].published
  BY DEF Published, Exists, Ids
<1> HIDE DEF same, then
<1> QED
  BY <1>1, <1>2, <1>3, <1>4, <1>5 DEF SlotIn

LEMMA CountsAre ==
  ASSUME NEW c
  PROVE  /\ sessions # <<>> =>
              DueClasses(c) = Cardinality(DueIn(slots, c, StartIn(sessions), today))
         /\ HeldClasses(c) = Min({DueClasses(c), Cardinality(HeldIn(slots, sessions, c))})
         /\ sessions' # <<>> =>
              DueClasses(c)' = Cardinality(DueIn(slots', c, StartIn(sessions'), today'))
         /\ HeldClasses(c)' = Min({DueClasses(c)', Cardinality(HeldIn(slots', sessions', c))})
<1>1. {due \in Ids \X (TeachingStart..today) :
         Published(due[1]) /\ slots[due[1]].course = c /\ due[2] >= slots[due[1]].since}
        = DueIn(slots, c, StartIn(sessions), today)
  BY DEF DueIn, ShownIn, Published, Exists, Ids, TeachingStart, StartIn
<1>2. {due \in Ids' \X (TeachingStart'..today') :
         Published(due[1])' /\ slots'[due[1]].course = c /\ due[2] >= slots'[due[1]].since}
        = DueIn(slots', c, StartIn(sessions'), today')
  BY DEF DueIn, ShownIn, Published, Exists, Ids, TeachingStart, StartIn
<1>3. \A k : /\ Counted(k) <=> CountedIn(slots, sessions[k])
             /\ Counted(k)' <=> CountedIn(slots', sessions'[k])
  BY SlotOfIs DEF Counted, CountedIn
<1>4. {<<SlotOf(k), sessions[k].date>> :
         k \in {j \in DOMAIN sessions : sessions[j].course = c /\ Counted(j)}}
        = HeldIn(slots, sessions, c)
  BY <1>3, SlotOfIs DEF HeldIn
<1>5. {<<SlotOf(k)', sessions'[k].date>> :
         k \in {j \in DOMAIN sessions' : sessions'[j].course = c /\ Counted(j)'}}
        = HeldIn(slots', sessions', c)
  BY <1>3, SlotOfIs DEF HeldIn
<1>6. sessions # <<>> => DueClasses(c) = Cardinality(DueIn(slots, c, StartIn(sessions), today))
  BY <1>1 DEF DueClasses
<1>7. sessions' # <<>> => DueClasses(c)' = Cardinality(DueIn(slots', c, StartIn(sessions'), today'))
  BY <1>2 DEF DueClasses
<1>8. HeldClasses(c) = Min({DueClasses(c), Cardinality(HeldIn(slots, sessions, c))})
  BY <1>4 DEF HeldClasses
<1>9. HeldClasses(c)' = Min({DueClasses(c)', Cardinality(HeldIn(slots', sessions', c))})
  BY <1>5 DEF HeldClasses
<1> QED
  BY <1>6, <1>7, <1>8, <1>9

OneToOne(f, A, B) ==
  /\ f \in [A -> B]
  /\ \A i, j \in A : f[i] = f[j] => i = j
  /\ \A b \in B : \E i \in A : f[i] = b

\* The pairs of T are those of S, the first of each renamed.
RenamedPairs(f, A, B, D, S, T) ==
  /\ S \subseteq A \X D /\ T \subseteq B \X D
  /\ \A i \in A, d \in D : <<i, d>> \in S <=> <<f[i], d>> \in T

LEMMA PairsRenamed ==
  ASSUME NEW A, NEW B, NEW D, NEW f, OneToOne(f, A, B),
         NEW S, NEW T, RenamedPairs(f, A, B, D, S, T), IsFiniteSet(S)
  PROVE  Cardinality(T) = Cardinality(S)
<1>0. /\ f \in [A -> B] /\ \A i, j \in A : f[i] = f[j] => i = j
      /\ \A b \in B : \E i \in A : f[i] = b
      /\ S \subseteq A \X D /\ T \subseteq B \X D
      /\ \A i \in A, d \in D : <<i, d>> \in S <=> <<f[i], d>> \in T
  BY DEF OneToOne, RenamedPairs
<1> DEFINE g == [p \in S |-> <<f[p[1]], p[2]>>]
<1>1. ASSUME NEW p \in S
      PROVE  p[1] \in A /\ p[2] \in D /\ p = <<p[1], p[2]>> /\ g[p] = <<f[p[1]], p[2]>> /\ g[p] \in T
  BY <1>0, <1>1
<1>2. g \in [S -> T]
  BY <1>1
<1>3. ASSUME NEW p \in S, NEW q \in S, g[p] = g[q]
      PROVE  p = q
  <2>1. f[p[1]] = f[q[1]] /\ p[2] = q[2]
    BY <1>1, <1>3
  <2>2. p[1] = q[1]
    BY <1>0, <1>1, <2>1
  <2> QED
    BY <1>1, <2>1, <2>2
<1>4. ASSUME NEW t \in T
      PROVE  \E p \in S : g[p] = t
  <2>1. t[1] \in B /\ t[2] \in D /\ t = <<t[1], t[2]>>
    BY <1>0, <1>4
  <2>2. PICK i \in A : f[i] = t[1]
    BY <1>0, <2>1
  <2>3. PICK p : p = <<i, t[2]>>
    OBVIOUS
  <2>4. p \in S /\ p[1] = i /\ p[2] = t[2]
    BY <1>0, <2>1, <2>2, <2>3
  <2>5. g[p] = t
    BY <2>1, <2>2, <2>4
  <2> QED
    BY <2>4, <2>5
<1> HIDE DEF g
<1>5. g \in Bijection(S, T)
  BY <1>2, <1>3, <1>4 DEF Bijection, Injection, Surjection, IsInjective
<1>6. ExistsBijection(S, T)
  BY <1>5 DEF ExistsBijection
<1> QED
  BY <1>6, FS_Bijection

\* Each class of the course has one that runs at its time from its day.
Renames(rows, new, c, f) ==
  /\ OneToOne(f, ShownIn(rows, c), ShownIn(new, c))
  /\ \A i \in ShownIn(rows, c) : new[f[i]].time = rows[i].time /\ new[f[i]].since = rows[i].since

\* The sessions of the course go with their class.
Refiles(rows, ss, now, c, f) ==
  /\ DOMAIN now = DOMAIN ss
  /\ \A k \in DOMAIN ss : now[k].course = ss[k].course /\ now[k].date = ss[k].date
                          /\ now[k].start = ss[k].start
  /\ \A k \in DOMAIN ss : ss[k].course = c =>
       \/ ss[k].slot = NoSlot /\ now[k].slot = NoSlot
       \/ ss[k].slot \in ShownIn(rows, c) /\ now[k].slot = f[ss[k].slot]

OneAnHour(rows, c) ==
  \A i, j \in ShownIn(rows, c) : rows[i].time[1] = rows[j].time[1] => i = j

RowIds(rows) == DOMAIN rows \subseteq Nat /\ NoSlot \notin DOMAIN rows

LEMMA SlotInIs ==
  ASSUME NEW rows, RowIds(rows), NEW s, OneAnHour(rows, s.course),
         s.slot = NoSlot \/ s.slot \in ShownIn(rows, s.course)
  PROVE  /\ s.slot # NoSlot => SlotIn(rows, s) = s.slot
         /\ s.slot = NoSlot =>
              \A i \in ShownIn(rows, s.course) :
                rows[i].time[1] = s.start => SlotIn(rows, s) = i
         /\ s.slot = NoSlot /\ (\A i \in ShownIn(rows, s.course) : rows[i].time[1] # s.start)
              => SlotIn(rows, s) = NoSlot
<1>1. s.slot # NoSlot => SlotIn(rows, s) = s.slot
  BY DEF SlotIn, ShownIn
<1> DEFINE same == {i \in ShownIn(rows, s.course) : rows[i].time[1] = s.start}
<1>2. s.slot = NoSlot =>
        SlotIn(rows, s) = IF same = {} THEN NoSlot ELSE CHOOSE i \in same : \A j \in same : j <= i
  BY DEF SlotIn, RowIds
<1>3. ASSUME NEW i \in same
      PROVE  (CHOOSE x \in same : \A j \in same : j <= x) = i
  <2>1. \A j \in same : j = i
    BY DEF OneAnHour
  <2>2. i \in Nat
    BY DEF ShownIn, RowIds
  <2>3. \E x \in same : \A j \in same : j <= x
    BY <2>1, <2>2
  <2> QED
    BY <2>1, <2>3
<1> QED
  BY <1>1, <1>2, <1>3

LEMMA SlotRenamed ==
  ASSUME NEW rows, NEW new, RowIds(rows), RowIds(new), NEW c, OneAnHour(rows, c),
         NEW f, Renames(rows, new, c, f), NEW s, NEW t,
         s.course = c, t.course = c, t.start = s.start,
         \/ s.slot = NoSlot /\ t.slot = NoSlot
         \/ s.slot \in ShownIn(rows, c) /\ t.slot = f[s.slot]
  PROVE  \/ SlotIn(rows, s) = NoSlot /\ SlotIn(new, t) = NoSlot
         \/ SlotIn(rows, s) \in ShownIn(rows, c) /\ SlotIn(new, t) = f[SlotIn(rows, s)]
<1>1. OneAnHour(new, c)
  <2> SUFFICES ASSUME NEW d \in ShownIn(new, c), NEW e \in ShownIn(new, c),
                      new[d].time[1] = new[e].time[1]
               PROVE  d = e
    BY DEF OneAnHour
  <2>1. PICK i \in ShownIn(rows, c) : f[i] = d
    BY DEF Renames, OneToOne
  <2>2. PICK j \in ShownIn(rows, c) : f[j] = e
    BY DEF Renames, OneToOne
  <2>3. new[f[i]].time = rows[i].time /\ new[f[j]].time = rows[j].time
    BY DEF Renames, OneToOne
  <2>4. i = j
    BY <2>1, <2>2, <2>3 DEF OneAnHour
  <2> QED
    BY <2>1, <2>2, <2>4
<1>2. \A i \in ShownIn(rows, c) : f[i] \in ShownIn(new, c) /\ f[i] # NoSlot /\ i # NoSlot
  BY DEF Renames, OneToOne, ShownIn, RowIds
<1>3. CASE s.slot # NoSlot
  <2>1. s.slot \in ShownIn(rows, c) /\ t.slot = f[s.slot]
    BY <1>3
  <2>2. t.slot \in ShownIn(new, c) /\ t.slot # NoSlot
    BY <1>2, <2>1
  <2> QED
    BY <1>1, <1>3, <2>1, <2>2, SlotInIs
<1>4. CASE s.slot = NoSlot
  <2>1. t.slot = NoSlot
    BY <1>2, <1>4
  <2>2. CASE \E i \in ShownIn(rows, c) : rows[i].time[1] = s.start
    <3>1. PICK i \in ShownIn(rows, c) : rows[i].time[1] = s.start
      BY <2>2
    <3>2. SlotIn(rows, s) = i
      BY <1>4, <3>1, SlotInIs
    <3>3. f[i] \in ShownIn(new, c) /\ new[f[i]].time[1] = t.start
      BY <1>2, <3>1 DEF Renames, OneToOne
    <3>4. SlotIn(new, t) = f[i]
      BY <1>1, <2>1, <3>3, SlotInIs
    <3> QED
      BY <3>1, <3>2, <3>4
  <2>3. CASE \A i \in ShownIn(rows, c) : rows[i].time[1] # s.start
    <3>1. SlotIn(rows, s) = NoSlot
      BY <1>4, <2>3, SlotInIs
    <3>2. \A d \in ShownIn(new, c) : new[d].time[1] # t.start
      BY <2>3 DEF Renames, OneToOne
    <3>3. SlotIn(new, t) = NoSlot
      BY <1>1, <2>1, <3>2, SlotInIs
    <3> QED
      BY <3>1, <3>3
  <2> QED
    BY <2>2, <2>3
<1> QED
  BY <1>3, <1>4

LEMMA DueRenamed ==
  ASSUME NEW rows, NEW new, NEW c, NEW f, Renames(rows, new, c, f), IsFiniteSet(DOMAIN rows),
         NEW first \in Int, NEW last \in Int
  PROVE  Cardinality(DueIn(new, c, first, last)) = Cardinality(DueIn(rows, c, first, last))
<1> DEFINE D == first..last
           S == DueIn(rows, c, first, last)
           T == DueIn(new, c, first, last)
<1>1. S \subseteq ShownIn(rows, c) \X D /\ T \subseteq ShownIn(new, c) \X D
  BY DEF DueIn
<1>2. IsFiniteSet(S)
  <2>1. IsFiniteSet(D)
    BY FS_Interval
  <2>2. IsFiniteSet((DOMAIN rows) \X D)
    BY <2>1, FS_Product
  <2>3. S \in SUBSET ((DOMAIN rows) \X D)
    BY DEF DueIn
  <2> HIDE DEF S, D
  <2> QED
    BY <2>2, <2>3, FS_Subset
<1>3. ASSUME NEW i \in ShownIn(rows, c), NEW d \in D
      PROVE  <<i, d>> \in S <=> <<f[i], d>> \in T
  <2>1. f[i] \in ShownIn(new, c) /\ new[f[i]].since = rows[i].since
    BY DEF Renames, OneToOne
  <2>2. i \in DOMAIN rows /\ f[i] \in DOMAIN new
    BY <2>1 DEF ShownIn
  <2>3. <<i, d>> \in S <=> d >= rows[i].since
    BY <2>2 DEF DueIn
  <2>4. <<f[i], d>> \in T <=> d >= new[f[i]].since
    BY <2>1, <2>2 DEF DueIn
  <2> QED
    BY <2>1, <2>3, <2>4
<1> HIDE DEF S, T, D
<1>4. RenamedPairs(f, ShownIn(rows, c), ShownIn(new, c), D, S, T)
  BY <1>1, <1>3 DEF RenamedPairs
<1>5. Cardinality(T) = Cardinality(S)
  BY <1>2, <1>4, PairsRenamed DEF Renames
<1> QED
  BY <1>5 DEF S, T

LEMMA HeldRenamed ==
  ASSUME NEW rows, NEW new, RowIds(rows), RowIds(new), NEW c, OneAnHour(rows, c),
         NEW f, Renames(rows, new, c, f), IsFiniteSet(DOMAIN rows),
         NEW ss, NEW now, Refiles(rows, ss, now, c, f),
         NEW last \in Nat, \A k \in DOMAIN ss : ss[k].date \in 0..last
  PROVE  Cardinality(HeldIn(new, now, c)) = Cardinality(HeldIn(rows, ss, c))
<1> DEFINE D == 0..last
           S == HeldIn(rows, ss, c)
           T == HeldIn(new, now, c)
<1>1. ASSUME NEW k \in DOMAIN ss, ss[k].course = c
      PROVE  /\ now[k].course = c /\ now[k].date = ss[k].date /\ ss[k].date \in D
             /\ \/ SlotIn(rows, ss[k]) = NoSlot /\ SlotIn(new, now[k]) = NoSlot
                \/ /\ SlotIn(rows, ss[k]) \in ShownIn(rows, c)
                   /\ SlotIn(new, now[k]) = f[SlotIn(rows, ss[k])]
  <2>1. /\ now[k].course = c /\ now[k].date = ss[k].date /\ now[k].start = ss[k].start
        /\ \/ ss[k].slot = NoSlot /\ now[k].slot = NoSlot
           \/ ss[k].slot \in ShownIn(rows, c) /\ now[k].slot = f[ss[k].slot]
    BY <1>1 DEF Refiles
  <2> QED
    BY <1>1, <2>1, SlotRenamed
<1>2. DOMAIN now = DOMAIN ss /\ \A k \in DOMAIN ss : now[k].course = ss[k].course
  BY DEF Refiles
<1>3. \A i \in ShownIn(rows, c) : /\ f[i] \in ShownIn(new, c) /\ f[i] # NoSlot /\ i # NoSlot
                                  /\ new[f[i]].since = rows[i].since
  BY DEF Renames, OneToOne, ShownIn, RowIds
<1>4. ASSUME NEW k \in DOMAIN ss, ss[k].course = c
      PROVE  CountedIn(new, now[k]) <=> CountedIn(rows, ss[k])
  BY <1>1, <1>3, <1>4 DEF CountedIn
<1>5. S \subseteq ShownIn(rows, c) \X D
  <2>1. ASSUME NEW k \in DOMAIN ss, ss[k].course = c, CountedIn(rows, ss[k])
        PROVE  SlotIn(rows, ss[k]) \in ShownIn(rows, c) /\ ss[k].date \in D
    BY <1>1, <2>1 DEF CountedIn
  <2> QED
    BY <2>1 DEF HeldIn
<1>6. T \subseteq ShownIn(new, c) \X D
  <2>1. ASSUME NEW k \in DOMAIN ss, ss[k].course = c, CountedIn(new, now[k])
        PROVE  SlotIn(new, now[k]) \in ShownIn(new, c) /\ now[k].date \in D
    BY <1>1, <1>3, <2>1 DEF CountedIn
  <2> QED
    BY <1>2, <2>1 DEF HeldIn
<1>7. IsFiniteSet(S)
  <2>1. IsFiniteSet(D)
    BY FS_Interval
  <2>2. IsFiniteSet((DOMAIN rows) \X D)
    BY <2>1, FS_Product
  <2>3. S \in SUBSET ((DOMAIN rows) \X D)
    BY <1>5 DEF ShownIn
  <2> HIDE DEF S, D
  <2> QED
    BY <2>2, <2>3, FS_Subset
<1>8. ASSUME NEW i \in ShownIn(rows, c), NEW d \in D
      PROVE  <<i, d>> \in S <=> <<f[i], d>> \in T
  <2>1. <<i, d>> \in S <=> \E k \in DOMAIN ss : /\ ss[k].course = c /\ CountedIn(rows, ss[k])
                                                /\ SlotIn(rows, ss[k]) = i /\ ss[k].date = d
    BY DEF HeldIn
  <2>2. <<f[i], d>> \in T <=> \E k \in DOMAIN ss : /\ ss[k].course = c /\ CountedIn(new, now[k])
                                                   /\ SlotIn(new, now[k]) = f[i] /\ now[k].date = d
    BY <1>2 DEF HeldIn
  <2>3. ASSUME NEW k \in DOMAIN ss, ss[k].course = c
        PROVE  SlotIn(new, now[k]) = f[i] <=> SlotIn(rows, ss[k]) = i
    <3>1. CASE SlotIn(rows, ss[k]) = NoSlot
      BY <1>1, <1>3, <2>3, <3>1
    <3>2. CASE SlotIn(rows, ss[k]) # NoSlot
      <4>1. PICK j \in ShownIn(rows, c) : SlotIn(rows, ss[k]) = j /\ SlotIn(new, now[k]) = f[j]
        BY <1>1, <2>3, <3>2
      <4> QED
        BY <4>1 DEF Renames, OneToOne
    <3> QED
      BY <3>1, <3>2
  <2> HIDE DEF S, T, D
  <2> QED
    BY <1>1, <1>4, <2>1, <2>2, <2>3
<1> HIDE DEF S, T, D
<1>9. RenamedPairs(f, ShownIn(rows, c), ShownIn(new, c), D, S, T)
  BY <1>5, <1>6, <1>8 DEF RenamedPairs
<1>10. Cardinality(T) = Cardinality(S)
  BY <1>7, <1>9, PairsRenamed DEF Renames
<1> QED
  BY <1>10 DEF S, T

-----------------------------------------------------------------------------
(* A course whose classes are at the times they were keeps its counts *)

LEMMA ShownIs ==
  ASSUME NEW c
  PROVE  /\ \A i : i \in ShownIn(slots, c) <=> Published(i) /\ slots[i].course = c
         /\ \A i : i \in ShownIn(slots', c) <=> Published(i)' /\ slots'[i].course = c
  BY DEF ShownIn, Published, Exists, Ids

LEMMA SameTimes ==
  ASSUME NEW c, Keys(c)' = Keys(c)
  PROVE  /\ \A i \in ShownIn(slots, c) :
              \E m \in ShownIn(slots', c) : slots'[m].time = slots[i].time
         /\ \A m \in ShownIn(slots', c) :
              \E i \in ShownIn(slots, c) : slots[i].time = slots'[m].time
<1>1. Keys(c) = {<<slots[i].course, slots[i].time>> : i \in ShownIn(slots, c)}
  BY DEF Keys, Key, ShownIn, Published, Exists, Ids
<1>2. Keys(c)' = {<<slots'[i].course, slots'[i].time>> : i \in ShownIn(slots', c)}
  BY DEF Keys, Key, ShownIn, Published, Exists, Ids
<1>3. ASSUME NEW i \in ShownIn(slots, c)
      PROVE  \E m \in ShownIn(slots', c) : slots'[m].time = slots[i].time
  <2>1. <<slots[i].course, slots[i].time>> \in Keys(c)'
    BY <1>1
  <2>2. PICK m \in ShownIn(slots', c) :
          <<slots[i].course, slots[i].time>> = <<slots'[m].course, slots'[m].time>>
    BY <1>2, <2>1
  <2> QED
    BY <2>2
<1>4. ASSUME NEW m \in ShownIn(slots', c)
      PROVE  \E i \in ShownIn(slots, c) : slots[i].time = slots'[m].time
  <2>1. <<slots'[m].course, slots'[m].time>> \in Keys(c)
    BY <1>2
  <2>2. PICK i \in ShownIn(slots, c) :
          <<slots'[m].course, slots'[m].time>> = <<slots[i].course, slots[i].time>>
    BY <1>1, <2>1
  <2> QED
    BY <2>2
<1> QED
  BY <1>3, <1>4

\* Published both, or drafts both, two rows of a course start at other hours.
LEMMA HoursDiffer ==
  ASSUME TermInv, NEW i \in Ids, NEW j \in Ids, Exists(i), Exists(j),
         slots[i].course = slots[j].course, slots[i].course \notin raced,
         Published(i) <=> Published(j), slots[i].time[1] = slots[j].time[1]
  PROVE  i = j
<1>1. Ordered(slots[i].time) /\ Ordered(slots[j].time)
  BY DEF TermInv, OrderedRows
<1>2. Overlap(slots[i].time, slots[j].time)
  BY <1>1 DEF Overlap, Ordered
<1> QED
  BY <1>2 DEF TermInv, OnePerHour, Distinct

LEMMA OneHour ==
  ASSUME TermInv, NEW c, c \notin raced
  PROVE  /\ OneAnHour(slots, c)
         /\ \A i, j \in ShownIn(slots, c) : slots[i].time = slots[j].time => i = j
<1>1. \A i \in ShownIn(slots, c) : i \in Ids /\ Exists(i) /\ Published(i) /\ slots[i].course = c
  BY ShownIs DEF Published, Exists
<1>2. ASSUME NEW i \in ShownIn(slots, c), NEW j \in ShownIn(slots, c),
             slots[i].time[1] = slots[j].time[1]
      PROVE  i = j
  BY <1>1, <1>2, HoursDiffer
<1> QED
  BY <1>2 DEF OneAnHour

\* A session of the course is under a class of it, or none.
LEMMA MySession ==
  ASSUME TermInv, NEW c, ~Misfiled(c), NEW k \in DOMAIN sessions, sessions[k].course = c
  PROVE  sessions[k].slot = NoSlot \/ sessions[k].slot \in ShownIn(slots, c)
<1>1. sessions[k].slot # NoSlot => Published(sessions[k].slot)
  BY DEF TermInv, IInv, SessionsHaveTheirClass
<1> QED
  BY <1>1, ShownIs DEF Misfiled

LEMMA CountsKept ==
  ASSUME TermInv, TypeOK', NEW c, c \notin raced, today' = today, sessions' # <<>>,
         NEW f, Renames(slots, slots', c, f), Refiles(slots, sessions, sessions', c, f)
  PROVE  HeldClasses(c)' = HeldClasses(c) /\ DueClasses(c)' = DueClasses(c)
<1>1. RowIds(slots) /\ IsFiniteSet(DOMAIN slots)
  <2>1. DOMAIN slots = 1..Len(slots) /\ Len(slots) \in Nat
    BY Rows DEF TermInv, IInv, Typed, Ids
  <2>2. IsFiniteSet(1..Len(slots))
    BY <2>1, FS_Interval
  <2> QED
    BY <2>1, <2>2 DEF RowIds, NoSlot
<1>2. RowIds(slots')
  <2>1. slots' \in Seq(Slot \cup {Gone})
    BY DEF TypeOK
  <2>2. DOMAIN slots' = 1..Len(slots') /\ Len(slots') \in Nat
    BY <2>1, LenProperties
  <2> QED
    BY <2>2 DEF RowIds, NoSlot
<1>3. DOMAIN sessions' = DOMAIN sessions /\ \A k \in DOMAIN sessions : sessions'[k].date = sessions[k].date
  BY DEF Refiles
<1>4. DOMAIN sessions # {}
  <2>1. sessions' \in Seq([course : Courses, slot : Nat, start : Nat, date : 0..MaxDay])
    BY DEF TypeOK
  <2> QED
    BY <1>3, <2>1, EmptySeq, LenProperties
<1>5. sessions # <<>>
  BY <1>4
<1>6. StartIn(sessions') = StartIn(sessions)
  <2>1. {sessions'[k].date : k \in DOMAIN sessions'} = {sessions[k].date : k \in DOMAIN sessions}
    BY <1>3
  <2> QED
    BY <2>1 DEF StartIn
<1>7. \A k \in DOMAIN sessions : sessions[k].date \in 0..MaxDay
  BY SessionRows DEF TermInv, IInv, Typed
<1>8. StartIn(sessions) \in Int /\ today \in Int
  <2> DEFINE dates == {sessions[k].date : k \in DOMAIN sessions}
  <2>1. dates # {} /\ dates \subseteq Nat
    BY <1>4, <1>7
  <2>2. \E x \in dates : \A y \in dates : x <= y
    <3> HIDE DEF dates
    <3> QED
      BY <2>1, LeastNat
  <2>3. Min(dates) \in dates
    <3> HIDE DEF dates
    <3> QED
      BY <2>2 DEF Min
  <2>4. today \in 0..MaxDay
    BY DEF TermInv, IInv, Typed, TypeOK
  <2>5. StartIn(sessions) = Min(dates)
    BY DEF StartIn
  <2>6. Min(dates) \in Int
    BY <2>1, <2>3
  <2> QED
    BY <2>4, <2>5, <2>6
<1>9. OneAnHour(slots, c)
  BY OneHour
<1>10. Cardinality(DueIn(slots', c, StartIn(sessions), today))
         = Cardinality(DueIn(slots, c, StartIn(sessions), today))
  BY <1>1, <1>8, DueRenamed
<1>11. Cardinality(HeldIn(slots', sessions', c)) = Cardinality(HeldIn(slots, sessions, c))
  BY <1>1, <1>2, <1>7, <1>9, HeldRenamed, TimetableAssumption
<1>12. DueClasses(c)' = DueClasses(c)
  BY <1>5, <1>6, <1>10, CountsAre
<1> QED
  BY <1>11, <1>12, CountsAre

\* Nothing but the rooms of the course's classes changed.
LEMMA CountsUntouched ==
  ASSUME TermInv, TypeOK', NEW c, c \notin raced, ~Misfiled(c), today' = today, sessions' # <<>>,
         ShownIn(slots', c) = ShownIn(slots, c),
         \A i \in ShownIn(slots, c) :
           slots'[i].time = slots[i].time /\ slots'[i].since = slots[i].since,
         DOMAIN sessions' = DOMAIN sessions,
         \A k \in DOMAIN sessions :
           /\ sessions'[k].course = sessions[k].course /\ sessions'[k].date = sessions[k].date
           /\ sessions'[k].start = sessions[k].start
           /\ sessions[k].course = c => sessions'[k].slot = sessions[k].slot
  PROVE  HeldClasses(c)' = HeldClasses(c) /\ DueClasses(c)' = DueClasses(c)
<1> DEFINE same == [i \in ShownIn(slots, c) |-> i]
<1>1. Renames(slots, slots', c, same)
  BY DEF Renames, OneToOne
<1>2. Refiles(slots, sessions, sessions', c, same)
  <2>1. ASSUME NEW k \in DOMAIN sessions, sessions[k].course = c
        PROVE  \/ sessions[k].slot = NoSlot /\ sessions'[k].slot = NoSlot
               \/ sessions[k].slot \in ShownIn(slots, c) /\ sessions'[k].slot = same[sessions[k].slot]
    BY <2>1, MySession
  <2> HIDE DEF same
  <2> QED
    BY <2>1 DEF Refiles
<1> HIDE DEF same
<1> QED
  BY <1>1, <1>2, CountsKept

LEMMA SessionFields ==
  ASSUME TypeOK, NEW k \in DOMAIN sessions, NEW i \in Nat
  PROVE  /\ [sessions[k] EXCEPT !.slot = i].slot = i
         /\ [sessions[k] EXCEPT !.slot = i].course = sessions[k].course
         /\ [sessions[k] EXCEPT !.slot = i].start = sessions[k].start
         /\ [sessions[k] EXCEPT !.slot = i].date = sessions[k].date
  BY SessionRows

\* Rows that go take no session of a course that loses none of its classes.
\* Sessions of a course that keep their class.
LEMMA SessionsStay ==
  ASSUME TermInv, NEW c, NEW those, sessions' = Unfiled(those),
         \A k \in DOMAIN sessions :
           k \in those /\ sessions[k].course = c => sessions[k].slot = NoSlot
  PROVE  /\ DOMAIN sessions' = DOMAIN sessions
         /\ \A k \in DOMAIN sessions :
              /\ sessions'[k].course = sessions[k].course /\ sessions'[k].date = sessions[k].date
              /\ sessions'[k].start = sessions[k].start
              /\ sessions[k].course = c => sessions'[k].slot = sessions[k].slot
<1>1. TypeOK /\ NoSlot \in Nat
  BY DEF TermInv, IInv, Typed, NoSlot
<1>2. ASSUME NEW k \in DOMAIN sessions
      PROVE  /\ sessions'[k].course = sessions[k].course /\ sessions'[k].date = sessions[k].date
             /\ sessions'[k].start = sessions[k].start
             /\ sessions[k].course = c => sessions'[k].slot = sessions[k].slot
  <2>1. sessions'[k] = IF k \in those THEN [sessions[k] EXCEPT !.slot = NoSlot] ELSE sessions[k]
    BY DEF Unfiled
  <2> QED
    BY <1>1, <2>1, SessionFields
<1> QED
  BY <1>2 DEF Unfiled

\* Rows that go take no session of a course that loses none of its classes.
LEMMA SessionsOfTheRest ==
  ASSUME TermInv, NEW c, ~Misfiled(c), NEW gone, gone \cap ShownIn(slots, c) = {},
         sessions' = Detached(gone)
  PROVE  /\ DOMAIN sessions' = DOMAIN sessions
         /\ \A k \in DOMAIN sessions :
              /\ sessions'[k].course = sessions[k].course /\ sessions'[k].date = sessions[k].date
              /\ sessions'[k].start = sessions[k].start
              /\ sessions[k].course = c => sessions'[k].slot = sessions[k].slot
<1>1. PICK those : those = {k \in DOMAIN sessions : sessions[k].slot \in gone}
  OBVIOUS
<1>2. \A k \in DOMAIN sessions : k \in those /\ sessions[k].course = c => sessions[k].slot = NoSlot
  BY <1>1, MySession
<1>3. sessions' = Unfiled(those)
  BY <1>1 DEF Detached
<1> QED
  BY <1>2, <1>3, SessionsStay

LEMMA CreateCounts ==
  ASSUME TermInv, NEW r \in Requests, CommitCreate(r), NEW c, c \notin raced', ~Misfiled(c),
         sessions' # <<>>, Keys(c)' = Keys(c)
  PROVE  HeldClasses(c)' = HeldClasses(c) /\ DueClasses(c)' = DueClasses(c)
<1>0. PICK j, n : j = request[r] /\ n = Len(slots) + 1
  OBVIOUS
<1>1. /\ j \in CreateJob /\ OnTimetable(j.class) \in Slot
      /\ Ids' = Ids \cup {n} /\ n \notin Ids /\ slots'[n] = OnTimetable(j.class)
      /\ \A i \in Ids : slots'[i] = slots[i]
  BY <1>0, CreateRows DEF TermInv, IInv
<1>2. /\ raced \subseteq raced' /\ (~j.alone => j.class.course \in raced') /\ TypeOK'
  BY <1>0, CreateCommits DEF TermInv, IInv, Typed
<1>3. j.alone => ValidSlot(j.class, NoSlot)
  <2>1. j.op = "create" /\ ReadsHold(r)
    BY <1>0 DEF TermInv, IInv, ReadsAllHold, CommitCreate
  <2> QED
    BY <1>0, <2>1 DEF ReadsHold, ReadsTrue, Asking
<1>4. /\ slots'[n].course = j.class.course /\ slots'[n].time = j.class.time
      /\ slots'[n].published /\ slots'[n] # Gone
  <2>1. OnTimetable(j.class) # Gone
    BY <1>1, SlotFields
  <2> QED
    BY <1>1, <2>1 DEF OnTimetable
<1>5. \A i : i \in ShownIn(slots, c) => i \in Ids
  BY DEF ShownIn, Ids
<1>6. j.class.course # c
  <2> SUFFICES ASSUME j.class.course = c PROVE FALSE
    OBVIOUS
  <2>1. n \in ShownIn(slots', c)
    BY <1>1, <1>4 DEF ShownIn, Ids
  <2>2. PICK i \in ShownIn(slots, c) : slots[i].time = j.class.time
    BY <1>4, <2>1, SameTimes
  <2>3. i \in Ids /\ Exists(i) /\ slots[i].course = c /\ i # NoSlot
    BY ShownIs, Rows DEF Published, Exists, TermInv, IInv, Typed, NoSlot
  <2>4. ~Clash(j.class, slots[i])
    BY <1>2, <1>3, <2>3 DEF ValidSlot
  <2>5. Ordered(slots[i].time)
    BY <2>3 DEF TermInv, OrderedRows
  <2>6. j.class.course \in Courses
    BY <1>1, ClassFields DEF CreateJob, Bookable
  <2>7. ~Overlap(j.class.time, slots[i].time)
    BY <2>3, <2>4, <2>6, FitsItsCourse DEF TermInv, IInv, Typed
  <2> QED
    BY <2>2, <2>5, <2>7 DEF Overlap, Ordered
<1>7. ShownIn(slots', c) = ShownIn(slots, c)
  BY <1>1, <1>4, <1>6 DEF ShownIn, Ids
<1>8. sessions' = sessions /\ today' = today
  BY DEF CommitCreate
<1> QED
  BY <1>1, <1>2, <1>5, <1>7, <1>8, CountsUntouched

LEMMA UpdateCounts ==
  ASSUME TermInv, NEW r \in Requests, CommitUpdate(r), Exists(request[r].id),
         NEW c, c \notin raced', ~Misfiled(c), sessions' # <<>>, Keys(c)' = Keys(c)
  PROVE  HeldClasses(c)' = HeldClasses(c) /\ DueClasses(c)' = DueClasses(c)
<1>0. PICK j, n : j = request[r] /\ n = j.id
  OBVIOUS
<1>1. /\ j \in UpdateJob /\ n \in Ids /\ slots[n] \in Slot /\ Ids' = Ids
      /\ slots'[n] = Updated(slots[n], j.seen, j.class) /\ slots'[n] \in Slot
      /\ slots'[n].published = slots[n].published
      /\ \A i \in Ids \ {n} : slots'[i] = slots[i]
  BY <1>0, UpdateRows DEF TermInv, IInv
<1>2. /\ raced \subseteq raced' /\ TypeOK'
      /\ ~j.alone => {j.seen.course, j.class.course, slots[n].course} \subseteq raced'
  BY <1>0, UpdateCommits DEF TermInv, IInv, Typed
<1>3. j.alone => ValidSlot(j.class, n) /\ j.seen = slots[n]
  <2>1. j.op = "update" /\ ReadsHold(r)
    BY <1>0 DEF TermInv, IInv, ReadsAllHold, CommitUpdate
  <2> QED
    BY <1>0, <2>1 DEF ReadsHold, ReadsTrue, Asking
<1>4. j.class \in Class /\ j.class.course \in Courses
  BY <1>1, ClassFields DEF UpdateJob, Bookable
<1>5. /\ slots'[n].course \in {j.class.course, slots[n].course}
      /\ j.alone => /\ slots'[n].course = j.class.course /\ slots'[n].time = j.class.time
                    /\ slots'[n].since = IF slots[n].published /\ Key(j.class) # Key(slots[n])
                                           THEN today ELSE slots[n].since
  BY <1>1, <1>3 DEF Updated
<1>6. slots[n] # Gone /\ slots'[n] # Gone /\ Exists(n)
  BY <1>1, SlotFields DEF Exists
<1>7. \A i \in ShownIn(slots, c) \cup ShownIn(slots', c) : i \in Ids
  BY <1>1 DEF ShownIn, Ids
<1>8. ASSUME n \in ShownIn(slots', c)
      PROVE  n \in ShownIn(slots, c) /\ slots'[n].time = slots[n].time
  <2>1. PICK i \in ShownIn(slots, c) : slots[i].time = slots'[n].time
    BY <1>8, SameTimes
  <2>2. slots'[n].course = c /\ j.alone
    BY <1>2, <1>5, <1>8 DEF ShownIn
  <2>3. i \in Ids /\ Exists(i) /\ slots[i].course = c
    BY <2>1, ShownIs DEF Published, Exists
  <2>4. CASE i # n
    <3>1. ~Clash(j.class, slots[i])
      BY <1>3, <2>2, <2>3, <2>4 DEF ValidSlot
    <3>2. Ordered(slots[i].time)
      BY <2>3 DEF TermInv, OrderedRows
    <3>3. ~Overlap(j.class.time, slots[i].time)
      BY <1>4, <1>5, <2>2, <2>3, <3>1, FitsItsCourse DEF TermInv, IInv, Typed
    <3> QED
      BY <1>5, <2>1, <2>2, <3>2, <3>3 DEF Overlap, Ordered
  <2> QED
    BY <2>1, <2>4
<1>9. ASSUME n \in ShownIn(slots, c)
      PROVE  n \in ShownIn(slots', c)
  <2>1. PICK m \in ShownIn(slots', c) : slots'[m].time = slots[n].time
    BY <1>9, SameTimes
  <2>2. CASE m # n
    <3>1. slots'[m] = slots[m] /\ m \in Ids
      BY <1>1, <1>7, <2>1, <2>2
    <3>2. m \in ShownIn(slots, c)
      BY <2>1, <3>1 DEF ShownIn, Ids
    <3> QED
      BY <1>2, <1>9, <2>1, <2>2, <3>1, <3>2, OneHour
  <2> QED
    BY <2>1, <2>2
<1>10. ShownIn(slots', c) = ShownIn(slots, c)
  <2>1. \A i \in Ids \ {n} : i \in ShownIn(slots', c) <=> i \in ShownIn(slots, c)
    BY <1>1 DEF ShownIn, Ids
  <2> QED
    BY <1>7, <1>8, <1>9, <2>1
<1>11. ASSUME NEW i \in ShownIn(slots, c)
       PROVE  slots'[i].time = slots[i].time /\ slots'[i].since = slots[i].since
  <2>1. CASE i # n
    BY <1>1, <1>7, <2>1
  <2>2. CASE i = n
    <3>1. slots'[n].time = slots[n].time /\ slots'[n].course = c /\ slots[n].course = c
      BY <1>8, <1>10, <2>2 DEF ShownIn
    <3>2. j.alone
      BY <1>2, <3>1
    <3>3. Key(j.class) = Key(slots[n])
      BY <1>5, <3>1, <3>2 DEF Key
    <3> QED
      BY <1>5, <2>2, <3>1, <3>2, <3>3
  <2> QED
    BY <2>1, <2>2
<1>12. sessions' = sessions /\ today' = today
  BY DEF CommitUpdate, RolledBack, tables
<1> QED
  BY <1>2, <1>10, <1>11, <1>12, CountsUntouched

LEMMA DeleteCounts ==
  ASSUME TermInv, NEW r \in Requests, CommitDelete(r),
         FiledUnder(request[r].id) \subseteq request[r].filed,
         NEW c, c \notin raced', ~Misfiled(c), sessions' # <<>>, Keys(c)' = Keys(c)
  PROVE  HeldClasses(c)' = HeldClasses(c) /\ DueClasses(c)' = DueClasses(c)
<1>0. PICK j, n, filed : j = request[r] /\ n = j.id /\ filed = j.filed
  OBVIOUS
<1>1. /\ n \in Ids /\ slots'[n] = Gone /\ Ids' = Ids
      /\ \A k \in Ids \ {n} : slots'[k] = slots[k]
  BY <1>0, DeleteRows DEF TermInv, IInv
<1>2. /\ raced \subseteq raced' /\ sessions' = Unfiled(filed) /\ today' = today /\ TypeOK'
  BY <1>0, DeleteCommits DEF TermInv, IInv, PeopleStay, Typed
<1>3. \A i \in ShownIn(slots', c) : i \in Ids \ {n} /\ slots'[i] = slots[i] /\ i \in ShownIn(slots, c)
  BY <1>1 DEF ShownIn, Ids
<1>4. n \notin ShownIn(slots, c)
  <2> SUFFICES ASSUME n \in ShownIn(slots, c) PROVE FALSE
    OBVIOUS
  <2>1. PICK m \in ShownIn(slots', c) : slots'[m].time = slots[n].time
    BY SameTimes
  <2> QED
    BY <1>2, <1>3, <2>1, OneHour
<1>5. \A i \in ShownIn(slots, c) : slots'[i] = slots[i] /\ i \in ShownIn(slots', c)
  BY <1>1, <1>4 DEF ShownIn, Ids
<1>6. ShownIn(slots', c) = ShownIn(slots, c)
  BY <1>3, <1>5
<1>7. ASSUME NEW k \in DOMAIN sessions, k \in filed, sessions[k].course = c
      PROVE  sessions[k].slot = NoSlot
  <2>1. j.alone /\ filed = FiledUnder(n)
    BY <1>0, <1>7, DeleteReads DEF TermInv
  <2>2. sessions[k].slot = n
    BY <1>7, <2>1 DEF FiledUnder
  <2> QED
    BY <1>4, <1>7, <2>2, MySession
<1>8. /\ DOMAIN sessions' = DOMAIN sessions
      /\ \A k \in DOMAIN sessions :
           /\ sessions'[k].course = sessions[k].course /\ sessions'[k].date = sessions[k].date
           /\ sessions'[k].start = sessions[k].start
           /\ sessions[k].course = c => sessions'[k].slot = sessions[k].slot
  BY <1>2, <1>7, SessionsStay
<1> QED
  BY <1>2, <1>5, <1>6, <1>8, CountsUntouched

LEMMA SaveCounts ==
  ASSUME TermInv, NEW r \in Requests, CommitSave(r),
         NEW c, c \notin raced', ~Misfiled(c), sessions' # <<>>
  PROVE  HeldClasses(c)' = HeldClasses(c) /\ DueClasses(c)' = DueClasses(c)
<1>0. PICK plan, old : plan = request[r].plan /\ old = request[r].old
  OBVIOUS
<1>1. /\ plan \subseteq Bookable /\ Ids \subseteq Ids'
      /\ \A i \in Ids : slots'[i] = IF i \in old THEN Gone ELSE slots[i]
      /\ \A n \in Ids' \ Ids : \E a \in plan : slots'[n] = DraftRow(a)
  BY <1>0, SaveRows DEF TermInv, IInv, SaveJob
<1>2. raced \subseteq raced' /\ sessions' = Detached(old) /\ today' = today /\ TypeOK'
  BY <1>0, SaveCommits DEF TermInv, IInv, PeopleStay, Typed
<1>3. /\ request[r].alone =>
           old = {i \in Ids : Draft(i) /\ slots[i].course \in {a.course : a \in plan}}
      /\ \A i \in old : Exists(i) => request[r].alone \/ slots[i].course \in raced'
  BY <1>0, SaveReads DEF TermInv
<1>4. \A n \in Ids' \ Ids : ~slots'[n].published
  BY <1>1, DraftRowIs DEF Bookable
<1>5. old \cap ShownIn(slots, c) = {}
  BY <1>3, ShownIs DEF Published, Draft
<1>6. \A i \in ShownIn(slots, c) : slots'[i] = slots[i] /\ i \in ShownIn(slots', c)
  BY <1>1, <1>5 DEF ShownIn, Ids
<1>7. \A i \in ShownIn(slots', c) : i \in ShownIn(slots, c)
  BY <1>1, <1>4 DEF ShownIn, Ids
<1>8. ShownIn(slots', c) = ShownIn(slots, c)
  BY <1>6, <1>7
<1> QED
  BY <1>2, <1>5, <1>6, <1>8, SessionsOfTheRest, CountsUntouched

LEMMA TakenOverFields ==
  ASSUME TypeOK, NEW job, job \in PublishJob, job.drafts \subseteq Ids, NEW k \in DOMAIN sessions
  PROVE  /\ TakenOver(job)[k].course = sessions[k].course
         /\ TakenOver(job)[k].start = sessions[k].start
         /\ TakenOver(job)[k].date = sessions[k].date
         /\ (\A d \in job.drafts : sessions[k].slot \notin Reissued(job, d)) =>
              TakenOver(job)[k].slot = IF sessions[k].slot \in job.old THEN NoSlot
                                       ELSE sessions[k].slot
         /\ \A d \in job.drafts :
              (\A e \in job.drafts : sessions[k].slot \in Reissued(job, e) <=> e = d) =>
                TakenOver(job)[k].slot = d
<1> DEFINE heirs == {d \in job.drafts : sessions[k].slot \in Reissued(job, d)}
<1>1. TakenOver(job)[k] = IF heirs # {} THEN [sessions[k] EXCEPT !.slot = CHOOSE d \in heirs : TRUE]
                          ELSE IF sessions[k].slot \in job.old THEN [sessions[k] EXCEPT !.slot = NoSlot]
                          ELSE sessions[k]
  BY DEF TakenOver, Detached, Unfiled
<1>2. job.drafts \subseteq Nat /\ NoSlot \in Nat
  BY Rows DEF NoSlot
<1>3. CASE heirs # {}
  <2>1. PICK d : d = CHOOSE e \in heirs : TRUE
    OBVIOUS
  <2>2. d \in heirs /\ d \in Nat
    BY <1>2, <1>3, <2>1
  <2>3. TakenOver(job)[k] = [sessions[k] EXCEPT !.slot = d]
    BY <1>1, <1>3, <2>1
  <2>4. \A e \in job.drafts :
          (\A b \in job.drafts : sessions[k].slot \in Reissued(job, b) <=> b = e) => d = e
    BY <2>2
  <2> QED
    BY <2>2, <2>3, <2>4, SessionFields
<1>4. CASE heirs = {}
  <2>1. \A d \in job.drafts : sessions[k].slot \notin Reissued(job, d)
    BY <1>4
  <2> QED
    BY <1>1, <1>2, <1>4, <2>1, SessionFields
<1> QED
  BY <1>3, <1>4

\* The days a published draft runs from.
LEMMA PublishSince ==
  ASSUME Typed, NEW r \in Requests, CommitPublish(r), \A d \in request[r].drafts : Exists(d),
         NEW d \in request[r].drafts, NEW i, Reissued(request[r], d) = {i}
  PROVE  slots'[d].since = request[r].seen[i].since
<1>1. d \in Ids /\ slots[d] \in Slot
  BY Rows DEF Typed
<1>2. slots'[d] = [slots[d] EXCEPT
                     !.published = TRUE,
                     !.since = IF Reissued(request[r], d) = {} THEN today
                               ELSE request[r].seen[CHOOSE k \in Reissued(request[r], d) : TRUE].since]
  BY <1>1 DEF CommitPublish
<1>3. (CHOOSE k \in Reissued(request[r], d) : TRUE) = i /\ Reissued(request[r], d) # {}
  OBVIOUS
<1>4. slots'[d] = [slots[d] EXCEPT !.published = TRUE, !.since = request[r].seen[i].since]
  BY <1>2, <1>3
<1> QED
  BY <1>1, <1>4 DEF Slot

\* No draft of the course is published: its rows and sessions stay.
LEMMA OthersPublishCounts ==
  ASSUME TermInv, NEW r \in Requests, CommitPublish(r), \A d \in request[r].drafts : Exists(d),
         NEW c, c \notin raced', ~Misfiled(c), sessions' # <<>>,
         ~request[r].alone \/ c \notin request[r].courses
  PROVE  HeldClasses(c)' = HeldClasses(c) /\ DueClasses(c)' = DueClasses(c)
<1>0. PICK j, drafts, old, courses :
        j = request[r] /\ drafts = j.drafts /\ old = j.old /\ courses = j.courses
  OBVIOUS
<1>1. /\ j \in PublishJob /\ drafts \subseteq Ids /\ Ids' = Ids
      /\ \A d \in drafts : slots'[d].course = slots[d].course
      /\ \A i \in Ids \ drafts : slots'[i] = IF i \in old THEN Gone ELSE slots[i]
  BY <1>0, PublishRows DEF TermInv, IInv
<1>2. /\ j.alone => /\ drafts = {i \in Ids : Draft(i)}
                    /\ courses = {slots[i].course : i \in drafts}
                    /\ old = {i \in Ids : Published(i) /\ slots[i].course \in courses}
      /\ \A i \in drafts \cup old : Exists(i) => j.alone \/ slots[i].course \in raced'
  BY <1>0, PublishReads DEF TermInv
<1>3. raced \subseteq raced' /\ sessions' = TakenOver(j) /\ today' = today /\ TypeOK'
  BY <1>0, PublishCommits DEF TermInv, IInv, PeopleStay, Typed
<1>4. \A i \in drafts \cup old : Exists(i) => slots[i].course # c
  BY <1>0, <1>2 DEF Draft
<1>5. \A i \in ShownIn(slots, c) : /\ i \in Ids /\ i \notin drafts \cup old
                                   /\ slots'[i] = slots[i] /\ i \in ShownIn(slots', c)
  <2>1. \A i \in ShownIn(slots, c) : i \in Ids /\ Exists(i) /\ slots[i].course = c
    BY ShownIs DEF Published, Exists
  <2>2. \A i \in ShownIn(slots, c) : i \notin drafts \cup old
    BY <1>4, <2>1
  <2>3. \A i \in ShownIn(slots, c) : slots'[i] = slots[i]
    BY <1>1, <2>1, <2>2
  <2> QED
    BY <1>1, <2>1, <2>2, <2>3 DEF ShownIn, Ids
<1>6. \A i \in ShownIn(slots', c) : i \in ShownIn(slots, c)
  <2> SUFFICES ASSUME NEW i \in ShownIn(slots', c) PROVE i \in ShownIn(slots, c)
    OBVIOUS
  <2>1. i \in Ids /\ slots'[i] # Gone /\ slots'[i].published /\ slots'[i].course = c
    BY <1>1 DEF ShownIn, Ids
  <2>2. i \notin drafts
    BY <1>0, <1>1, <1>4, <2>1
  <2>3. slots'[i] = slots[i]
    BY <1>1, <2>1, <2>2
  <2> QED
    BY <2>1, <2>3 DEF ShownIn, Ids
<1>7. ShownIn(slots', c) = ShownIn(slots, c)
  BY <1>5, <1>6
<1>8. ASSUME NEW k \in DOMAIN sessions
      PROVE  /\ sessions'[k].course = sessions[k].course /\ sessions'[k].date = sessions[k].date
             /\ sessions'[k].start = sessions[k].start
             /\ sessions[k].course = c => sessions'[k].slot = sessions[k].slot
  <2>1. TypeOK /\ j.drafts \subseteq Ids
    BY <1>0, <1>1 DEF TermInv, IInv, Typed
  <2>2. ASSUME sessions[k].course = c
        PROVE  sessions[k].slot \notin old
    <3>1. NoSlot \notin old
      BY <1>0, <1>1 DEF PublishJob
    <3> QED
      BY <1>5, <2>2, <3>1, MySession
  <2>3. sessions[k].slot \notin old => \A d \in j.drafts : sessions[k].slot \notin Reissued(j, d)
    BY <1>0 DEF Reissued
  <2> QED
    BY <1>0, <1>1, <1>3, <2>1, <2>2, <2>3, TakenOverFields
<1>9. DOMAIN sessions' = DOMAIN sessions
  BY <1>3 DEF TakenOver
<1> QED
  BY <1>3, <1>5, <1>7, <1>8, <1>9, CountsUntouched

\* The classes of the course are issued again: each of the old ones has one
\* draft of its time, which takes over its day and its sessions.
LEMMA ReissueCounts ==
  ASSUME TermInv, NEW r \in Requests, CommitPublish(r), \A d \in request[r].drafts : Exists(d),
         NEW c, c \notin raced', ~Misfiled(c), sessions' # <<>>, Keys(c)' = Keys(c),
         request[r].alone, c \in request[r].courses
  PROVE  HeldClasses(c)' = HeldClasses(c) /\ DueClasses(c)' = DueClasses(c)
<1>0. PICK j, drafts, old, courses :
        j = request[r] /\ drafts = j.drafts /\ old = j.old /\ courses = j.courses
  OBVIOUS
<1>1. /\ j \in PublishJob /\ drafts \subseteq Ids /\ Ids' = Ids
      /\ \A d \in drafts :
           /\ slots'[d] \in Slot /\ slots'[d].published /\ slots'[d].course = slots[d].course
           /\ slots'[d].time = slots[d].time
      /\ \A i \in Ids \ drafts : slots'[i] = IF i \in old THEN Gone ELSE slots[i]
  BY <1>0, PublishRows DEF TermInv, IInv
<1>2. /\ drafts = {i \in Ids : Draft(i)} /\ j.seen = slots
      /\ old = {i \in Ids : Published(i) /\ slots[i].course \in courses}
  BY <1>0, PublishReads DEF TermInv
<1>3. raced \subseteq raced' /\ sessions' = TakenOver(j) /\ today' = today /\ TypeOK'
  BY <1>0, PublishCommits DEF TermInv, IInv, PeopleStay, Typed
<1>4. PICK A, B : A = ShownIn(slots, c) /\ B = ShownIn(slots', c)
  OBVIOUS
<1>5. \A i \in A : i \in old /\ i \in Ids /\ i \in Nat /\ slots[i].course = c
  BY <1>0, <1>2, <1>4, ShownIs, RowsExist, Rows DEF TermInv, IInv, Typed
<1>6. \A d \in B : d \in drafts /\ slots[d].course = c /\ d \in Ids /\ d \in Nat
  <2> SUFFICES ASSUME NEW d \in B PROVE d \in drafts /\ slots[d].course = c /\ d \in Ids
    BY Rows DEF TermInv, IInv, Typed
  <2>1. d \in Ids /\ slots'[d] # Gone /\ slots'[d].published /\ slots'[d].course = c
    BY <1>1, <1>4 DEF ShownIn, Ids
  <2>2. CASE d \notin drafts
    <3>1. d \notin old /\ slots'[d] = slots[d]
      BY <1>1, <2>1, <2>2
    <3> QED
      BY <1>0, <1>2, <2>1, <3>1 DEF Published, Exists
  <2> QED
    BY <1>1, <2>1, <2>2
<1>7. \A d \in drafts : slots[d].course = c => d \in B
  BY <1>1, <1>4, SlotFields DEF ShownIn, Ids
<1>8. \A i, k \in A : slots[i].time = slots[k].time => i = k
  BY <1>3, <1>4, OneHour
<1>9. \A d, e \in B : slots[d].time = slots[e].time => d = e
  <2>1. \A d \in B : Draft(d) /\ Exists(d) /\ ~Published(d) /\ d \in Ids
    BY <1>2, <1>6 DEF Draft, Published
  <2> QED
    BY <1>3, <1>6, <2>1, HoursDiffer
<1>10. /\ \A i \in A : \E d \in B : slots[d].time = slots[i].time
       /\ \A d \in B : \E i \in A : slots[i].time = slots[d].time
  BY <1>1, <1>4, <1>6, SameTimes
<1> DEFINE heir == [i \in A |-> CHOOSE d \in B : slots[d].time = slots[i].time]
<1>11. \A i \in A : heir[i] \in B /\ slots[heir[i]].time = slots[i].time
  BY <1>10
<1> HIDE DEF heir
<1>12. PICK f : f = heir /\ f \in [A -> B]
  BY <1>11 DEF heir
<1>13. \A i \in A : f[i] \in B /\ slots[f[i]].time = slots[i].time
  BY <1>11, <1>12
<1>14. ASSUME NEW i \in A, NEW d \in drafts
       PROVE  i \in Reissued(j, d) <=> d = f[i]
  <2>1. Key(slots[i]) = Key(slots[d]) <=> slots[d].course = c /\ slots[d].time = slots[i].time
    BY <1>5 DEF Key
  <2>2. slots[d].course = c /\ slots[d].time = slots[i].time <=> d = f[i]
    BY <1>6, <1>7, <1>9, <1>13
  <2>3. ASSUME d = f[i], NEW k \in old, Key(slots[k]) = Key(slots[d])
        PROVE  i <= k
    <3>1. slots[k].course = c /\ slots[k].time = slots[i].time
      BY <2>1, <2>2, <2>3 DEF Key
    <3>2. k \in A
      BY <1>2, <1>4, <2>3, <3>1, ShownIs
    <3> QED
      BY <1>5, <1>8, <3>1, <3>2
  <2>4. ASSUME d = f[i], NEW e \in drafts, Key(slots[e]) = Key(slots[d])
        PROVE  d <= e
    <3>1. slots[e].course = c /\ slots[e].time = slots[d].time
      BY <2>1, <2>2, <2>4 DEF Key
    <3> QED
      BY <1>6, <1>7, <1>9, <1>13, <2>4, <3>1
  <2> QED
    BY <1>0, <1>2, <1>5, <2>1, <2>2, <2>3, <2>4 DEF Reissued
<1>15. ASSUME NEW i \in A
       PROVE  Reissued(j, f[i]) = {i}
  <2>1. f[i] \in drafts /\ f[i] \in B
    BY <1>6, <1>13
  <2>2. i \in Reissued(j, f[i])
    BY <1>14, <2>1
  <2>3. ASSUME NEW k \in Reissued(j, f[i])
        PROVE  k = i
    <3>1. k \in old /\ Key(slots[k]) = Key(slots[f[i]])
      BY <1>0, <1>2 DEF Reissued
    <3>2. slots[k].course = c /\ slots[k].time = slots[i].time
      BY <1>6, <1>13, <2>1, <3>1 DEF Key
    <3>3. k \in A
      BY <1>2, <1>4, <3>1, <3>2, ShownIs
    <3> QED
      BY <1>8, <3>2, <3>3
  <2> QED
    BY <2>2, <2>3
<1>16. Renames(slots, slots', c, f)
  <2>1. ASSUME NEW i \in A, NEW k \in A, f[i] = f[k]
        PROVE  i = k
    BY <1>8, <1>13, <2>1
  <2>2. ASSUME NEW d \in B
        PROVE  \E i \in A : f[i] = d
    <3>1. PICK i \in A : slots[i].time = slots[d].time
      BY <1>10
    <3> QED
      BY <1>9, <1>13, <3>1
  <2>3. ASSUME NEW i \in A
        PROVE  slots'[f[i]].time = slots[i].time /\ slots'[f[i]].since = slots[i].since
    <3>1. f[i] \in request[r].drafts /\ f[i] \in drafts
      BY <1>0, <1>6, <1>13
    <3>2. Reissued(request[r], f[i]) = {i}
      BY <1>0, <1>15
    <3>3. slots'[f[i]].since = slots[i].since
      BY <1>0, <1>2, <3>1, <3>2, PublishSince DEF TermInv, IInv
    <3> QED
      BY <1>1, <1>13, <3>1, <3>3
  <2> QED
    BY <1>4, <1>12, <2>1, <2>2, <2>3 DEF Renames, OneToOne
<1>17. Refiles(slots, sessions, sessions', c, f)
  <2>1. TypeOK /\ j.drafts \subseteq Ids
    BY <1>0, <1>1 DEF TermInv, IInv, Typed
  <2>2. ASSUME NEW k \in DOMAIN sessions
        PROVE  /\ sessions'[k].course = sessions[k].course /\ sessions'[k].date = sessions[k].date
               /\ sessions'[k].start = sessions[k].start
    BY <1>1, <1>3, <2>1, TakenOverFields
  <2>3. ASSUME NEW k \in DOMAIN sessions, sessions[k].course = c
        PROVE  \/ sessions[k].slot = NoSlot /\ sessions'[k].slot = NoSlot
               \/ sessions[k].slot \in A /\ sessions'[k].slot = f[sessions[k].slot]
    <3>1. CASE sessions[k].slot = NoSlot
      <4>1. NoSlot \notin j.old
        BY <1>1 DEF PublishJob
      <4>2. \A d \in j.drafts : sessions[k].slot \notin Reissued(j, d)
        BY <3>1, <4>1 DEF Reissued
      <4> QED
        BY <1>1, <1>3, <2>1, <3>1, <4>1, <4>2, TakenOverFields
    <3>2. CASE sessions[k].slot \in A
      <4>1. PICK i, d : i = sessions[k].slot /\ d = f[i]
        OBVIOUS
      <4>2. d \in j.drafts /\ \A e \in j.drafts : i \in Reissued(j, e) <=> e = d
        BY <1>0, <1>6, <1>13, <1>14, <3>2, <4>1
      <4>3. TakenOver(j)[k].slot = d
        BY <1>1, <2>1, <4>1, <4>2, TakenOverFields
      <4> QED
        BY <1>3, <3>2, <4>1, <4>3
    <3> QED
      BY <1>4, <2>3, <3>1, <3>2, MySession
  <2>4. DOMAIN sessions' = DOMAIN sessions
    BY <1>3 DEF TakenOver
  <2> QED
    BY <1>4, <2>2, <2>3, <2>4 DEF Refiles
<1> QED
  BY <1>3, <1>16, <1>17, CountsKept

\* Steps that touch neither rows nor sessions, and those of other kinds.
LEMMA CountsSurvive ==
  ASSUME TermInv, [Next]_vars
  PROVE  CountsSurviveReissue
<1> SUFFICES ASSUME NEW c \in Courses, c \notin raced', sessions' # <<>>,
                    Len(sessions') = Len(sessions), today' = today, Keys(c)' = Keys(c), ~Misfiled(c)
             PROVE  HeldClasses(c)' = HeldClasses(c) /\ DueClasses(c)' = DueClasses(c)
  BY DEF CountsSurviveReissue
<1>1. ASSUME slots' = slots, sessions' = sessions
      PROVE  HeldClasses(c)' = HeldClasses(c) /\ DueClasses(c)' = DueClasses(c)
  <2>1. sessions # <<>>
    BY <1>1
  <2>2. DueClasses(c)' = DueClasses(c)
    BY <1>1, <2>1, CountsAre
  <2> QED
    BY <1>1, <2>2, CountsAre
<1>2. CASE Elsewhere
  <2>1. \A d, now : ~StartClass(d, now)
    <3> SUFFICES ASSUME NEW d, NEW now, StartClass(d, now) PROVE FALSE
      OBVIOUS
    <3>1. PICK s : sessions' = Append(sessions, s)
      BY DEF StartClass
    <3>2. Len(sessions) \in Nat /\ sessions \in Seq(Session)
      BY SessionRows, SessionsTyped DEF TermInv, IInv, Typed
    <3>3. Len(sessions') = Len(sessions) + 1
      BY <3>1, <3>2
    <3> QED
      BY <3>2, <3>3
  <2>2. ~NextDay
    <3>1. today \in Nat
      BY DEF TermInv, IInv, Typed, TypeOK
    <3> QED
      BY <3>1 DEF NextDay
  <2>3. slots' = slots /\ sessions' = sessions
    BY <1>2, <2>1, <2>2 DEF Elsewhere, AddMissing, vars, tables
  <2> QED
    BY <1>1, <2>3
<1>3. ASSUME NEW r \in Requests, Begins(r)
      PROVE  HeldClasses(c)' = HeldClasses(c) /\ DueClasses(c)' = DueClasses(c)
  <2>1. PICK job \in Asked : Ask(r, job)
    BY <1>3, BeginTyped DEF Begins, TermInv, IInv
  <2> QED
    BY <1>1, <2>1 DEF Ask, tables
<1>4. CASE Peopled
  BY <1>1, <1>4, PeopledTyped DEF TermInv, IInv
<1>5. ASSUME NEW r \in Requests, Commits(r)
      PROVE  HeldClasses(c)' = HeldClasses(c) /\ DueClasses(c)' = DueClasses(c)
  <2>1. CASE RolledBack(r)
    BY <1>1, <2>1 DEF RolledBack, tables
  <2>2. CASE CommitPublish(r) /\ \A d \in request[r].drafts : Exists(d)
    BY <2>2, OthersPublishCounts, ReissueCounts
  <2> QED
    BY <1>5, <2>1, <2>2, CommitOrBack, CreateCounts, UpdateCounts, DeleteCounts, SaveCounts
<1>6. ASSUME NEW r \in Requests, Tell(r) \/ TellFails(r)
      PROVE  HeldClasses(c)' = HeldClasses(c) /\ DueClasses(c)' = DueClasses(c)
  BY <1>1, <1>6 DEF Tell, TellFails, tables
<1> QED
  BY <1>2, <1>3, <1>4, <1>5, <1>6, Steps

-----------------------------------------------------------------------------
(* What follows *)

\* No room and no lecturer is published twice at one time, while lecturers are
\* put on courses and taken off them, but for courses a request wrote that
\* another had overtaken, for courses a hand edit took a draft from, and for two
\* classes that a change of lecturers brought together and nobody has edited
\* since: a plan is checked against the classes of other courses only,
\* publishing checks nothing again, and putting a lecturer on a course checks
\* nothing at all (_validate_timetable_slot, _check_clashes, publish_drafts,
\* _manage_course_lecturer).  For any timetable, plans and number of requests.
THEOREM NothingIsDoubleBooked == Spec => []NoDoubleBooking
<1>1. IInv => NoDoubleBooking
  <2> SUFFICES ASSUME IInv PROVE NoDoubleBooking
    OBVIOUS
  <2>1. TypeOK /\ AllApart
    BY DEF IInv, Typed
  <2>2. ASSUME NEW i \in Ids, NEW j \in Ids, i # j, Published(i), Published(j),
               Clash(slots[i], slots[j])
        PROVE  \/ {slots[i].course, slots[j].course} \cap (raced \cup stripped) # {}
               \/ <<i, j>> \in strained
    <3>1. Disturbed(i, j) \/ Strained(i, j) \/ Replaces(i, j) \/ Replaces(j, i)
      BY <2>1, <2>2 DEF AllApart, Apart, Published
    <3>2. ~Replaces(i, j) /\ ~Replaces(j, i)
      BY <2>2 DEF Replaces, Draft, Published
    <3> QED
      BY <3>1, <3>2 DEF Disturbed, Strained
  <2> QED
    BY <2>1, <2>2 DEF NoDoubleBooking
<1> QED
  BY <1>1, Invariance, PTL

\* When nobody is left to be told, those a course concerns were last told the
\* schedule that is published, unless a notice of it was lost, two changes of it
\* overtook each other, or they came to the course since
\* (notify_schedule_changes).
THEOREM LastWordStands == Spec => []LastWordIsCurrent
<1>1. IInv => LastWordIsCurrent
  BY DEF IInv, AllAreTold, Told, Know, Untold, LastWordIsCurrent, AllTold, Pending
<1> QED
  BY <1>1, Invariance, PTL

\* No session is filed under a class that is gone or a draft: a publication hands
\* the sessions of a class on to its successor or to none, an import and a
\* deletion detach them, and a row that is published stays so until it goes: the
\* second part of PublishKeepsHistory (publish_drafts, apply_plan,
\* Timetable.sessions).
THEOREM SessionsKeepTheirClass == Spec => []SessionsHaveTheirClass
<1>1. IInv => SessionsHaveTheirClass
  BY DEF IInv
<1> QED
  BY <1>1, Invariance, PTL

\* Nobody is told a schedule they were told before, unless changes overtook each
\* other or a notice was lost: what a request compares with is what people know
\* (schedule_of before the change, notify_schedule_changes).
THEOREM NobodyHearsItTwice == Spec => NobodyToldTwice
<1>1. ASSUME IInv, [Next]_vars
      PROVE  [\A r \in Requests :
                request[r].op \in {"edited", "published"} /\ request'[r] = Idle =>
                  \A c \in Changed(request[r]) \ (raced \cup raced' \cup missed \cup missed') :
                    \A p \in Affected(c) : <<c, p>> \in joined \/ told'[c][p] # told[c][p]]_vars
  <2> SUFFICES ASSUME NEW r \in Requests, Pending(r), request'[r] = Idle,
                      NEW c \in Changed(request[r]),
                      c \notin raced \cup raced' \cup missed \cup missed',
                      NEW p \in Affected(c), <<c, p>> \notin joined
               PROVE  told'[c][p] # told[c][p]
    BY DEF Pending
  <2>1. request'[r].op # request[r].op /\ ~Asking(r) /\ request[r] # Idle
    BY DEF Pending, Asking, Idle
  <2>2. ~Commits(r)
    BY <2>1 DEF Commits, CommitCreate, CommitUpdate, CommitDelete, CommitSave, CommitPublish, Asking
  <2>3. Tell(r) \/ TellFails(r)
    BY <1>1, <2>1, <2>2, OwnStep DEF IInv
  <2>4. c \in request[r].courses /\ request[r].before[c] # After(request[r])[c]
    BY DEF Changed
  <2>5. Tell(r) /\ request[r].alone
    BY <2>3, <2>4 DEF Tell, TellFails
  <2>6. c \in Courses
    BY <1>1, <2>3, <2>4, TellStep
  <2>7. told[c][p] = request[r].before[c]
    BY <1>1, <2>4, <2>5, <2>6, TellsTheSchedule DEF Know
  <2>8. told'[c][p] = After(request[r])[c]
    <3>1. p \in People
      BY <1>1, <2>6, AffectedIs DEF IInv, Typed
    <3> QED
      BY <2>5, <2>6, <3>1 DEF Tell
  <2> QED
    BY <2>4, <2>7, <2>8
<1> QED
  BY <1>1, Invariance, PTL DEF Spec, NobodyToldTwice

\* What is published changes by a publication, which puts exactly the drafts of
\* its courses in their place, and by no import: the part of
\* PublishKeepsHistory that says what people see (publish_drafts, apply_plan).
THEOREM PublicationsShowTheDrafts == Spec => [][PublishIsTheDrafts]_vars
<1>1. ASSUME IInv, [Next]_vars
      PROVE  [PublishIsTheDrafts]_vars
  <2> SUFFICES ASSUME NEW r \in Requests, NEW c \in Courses, c \notin raced',
                      request[r].op \in {"save", "publish"}, request'[r] # request[r],
                      request'[r].op \in {"idle", "published"}
               PROVE  Schedule(c)' =
                        IF request'[r].op = "published" /\ c \in request[r].courses
                          THEN {At(slots[d]) : d \in {e \in request[r].drafts : slots[e].course = c}}
                          ELSE Schedule(c)
    BY DEF PublishIsTheDrafts
  <2>1. request'[r].op # request[r].op /\ ~Pending(r) /\ request[r] # Idle
    BY DEF Pending, Idle
  <2>2. Commits(r)
    BY <1>1, <2>1, OwnStep DEF IInv, Tell, TellFails
  <2>3. CASE CommitSave(r)
    <3>1. request'[r] = Idle
      BY <1>1, <2>3, SaveCommits DEF IInv
    <3> QED
      BY <1>1, <2>3, <3>1, SaveSchedules DEF Idle
  <2>4. CASE CommitPublish(r) /\ \A d \in request[r].drafts : Exists(d)
    <3>1. request'[r].op = "published"
      <4>1. request'[r] \in PublishedJob
        BY <1>1, <2>4, PublishCommits DEF IInv
      <4> QED
        BY <4>1 DEF PublishedJob
    <3> QED
      BY <1>1, <2>4, <3>1, PublishSchedules
  <2>5. CASE RolledBack(r)
    <3>1. slots' = slots /\ teachers' = teachers /\ request'[r] = Idle
      BY <1>1, <2>5 DEF RolledBack, tables, IInv, Typed
    <3> QED
      BY <3>1, SameRows DEF Idle
  <2> QED
    BY <2>2, <2>3, <2>4, <2>5, CommitOrBack DEF Commits, CommitCreate, CommitUpdate, CommitDelete
<1> QED
  BY <1>1, Invariance, PTL DEF Spec

\* Whatever changes the timetable shows the classes it was made for, leaves no
\* session under a class that is gone or a draft, and keeps the classes due and
\* held of every course that has its days and times as before: a publication
\* hands the sessions and the first day of each class to the one draft that
\* repeats it, for no two classes of a course share an hour (publish_drafts,
\* apply_plan, timetable_page).
THEOREM HistoryIsKept == Spec => PublishKeepsHistory
<1>1. ASSUME TermInv, [Next]_vars, PublishIsTheDrafts \/ UNCHANGED vars
      PROVE  [PublishIsTheDrafts /\ SessionsHaveTheirClass' /\ CountsSurviveReissue]_vars
  <2>1. SessionsHaveTheirClass'
    BY <1>1, NextKeeps DEF TermInv, IInv
  <2>2. CountsSurviveReissue
    BY <1>1, CountsSurvive
  <2> QED
    BY <1>1, <2>1, <2>2
<1> QED
  BY <1>1, TermInvariance, PublicationsShowTheDrafts, PTL DEF Spec, PublishKeepsHistory
=============================================================================
