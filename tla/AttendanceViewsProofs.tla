------------------------ MODULE AttendanceViewsProofs ------------------------
(* Proofs about the screens: for any students, courses, timetable, times and *)
(* number of classes, whatever was started, ended, recorded or dropped.      *)
EXTENDS LecturerScreens, FiniteSetTheorems, WellFoundedInduction, TLAPS

-----------------------------------------------------------------------------
(* The least and the greatest of some ids *)

LEMMA LeastNat ==
  ASSUME NEW T, T \subseteq Nat, T # {}
  PROVE  \E x \in T : \A y \in T : x <= y
<1>1. PICK x \in T : \A y \in T : ~(<<y, x>> \in OpToRel(<, Nat))
  BY NatLessThanWellFounded, WFMin
<1>2. \A y \in T : ~(y < x)
  BY <1>1 DEF OpToRel
<1> QED
  BY <1>2

LEMMA MinIsLeast ==
  ASSUME NEW T, T \subseteq Nat, T # {}
  PROVE  Min(T) \in T /\ \A y \in T : Min(T) <= y
<1>1. \E x \in T : \A y \in T : x =< y
  BY LeastNat
<1> QED
  BY <1>1 DEF Min

\* The greatest of some numbers up to n is n less the least distance from n.
LEMMA MaxIsGreatest ==
  ASSUME NEW n \in Nat, NEW T, T \subseteq 1..n, T # {}
  PROVE  Max(T) \in T /\ \A y \in T : y <= Max(T)
<1> DEFINE far == {n - x : x \in T}
<1>1. PICK d \in far : \A e \in far : d <= e
  <2>1. far \subseteq Nat /\ far # {}
    <3>1. \A x \in T : n - x \in Nat
      OBVIOUS
    <3> QED
      BY <3>1
  <2> HIDE DEF far
  <2> QED
    BY <2>1, LeastNat
<1>2. PICK x \in T : d = n - x
  BY <1>1
<1>3. \A y \in T : n - x <= n - y
  BY <1>1, <1>2
<1>4. \A y \in T : x >= y
  BY <1>3
<1>5. \E z \in T : \A y \in T : z >= y
  BY <1>4
<1>6. Max(T) \in T /\ \A y \in T : Max(T) >= y
  BY <1>5 DEF Max
<1> QED
  BY <1>6

-----------------------------------------------------------------------------
(* The records *)

Row == [course : Courses, today : BOOLEAN, running : BOOLEAN,
        slot : {NoSlot} \cup DOMAIN Slots, start : {NoHour} \cup Hours,
        room : Rooms \cup {NoRoom}]

Marks == [Students -> {"none", "present", "late"}]

\* Of the classes of a course only the last one can be running: a start
\* ends what an earlier day left open and is refused while a class of today
\* runs.
LastRuns ==
  \A i, j \in Ids : sessions[i].running /\ sessions[j].course = sessions[i].course => j <= i

\* A class is filed under a slot of its own course.
FiledRight ==
  \A i \in Ids : sessions[i].slot # NoSlot => Slots[sessions[i].slot].course = sessions[i].course

RecordInv == RecordTypeOK /\ LastRuns /\ FiledRight

LEMMA SlotsTyped ==
  /\ Slots \in Seq(Slot) /\ DOMAIN Slots \subseteq Nat \ {0}
  /\ \A k \in DOMAIN Slots :
       /\ Slots[k] \in Slot /\ k \in 1..Len(Slots) /\ k # NoSlot
       /\ Slots[k].course \in Courses /\ Slots[k].start \in Hours /\ Slots[k].start \in Nat
       /\ Slots[k].end \in Nat /\ Slots[k].room \in Rooms \cup {NoRoom}
       /\ Slots[k].published \in BOOLEAN /\ Slots[k].semester \in Semesters
       /\ Slots[k].start < Slots[k].end
<1>1. Slots \in Seq(Slot) /\ LastHour \in Nat
  BY RecordAssumption
<1>2. ASSUME NEW k \in DOMAIN Slots
      PROVE  Slots[k] \in Slot /\ k \in 1..Len(Slots) /\ Slots[k].start < Slots[k].end
  BY <1>1, RecordAssumption
<1> QED
  BY <1>1, <1>2 DEF Slot, Hours, NoSlot

\* The class of a course is filed under a slot of it, or under none.
LEMMA SlotForFits ==
  ASSUME NEW c
  PROVE  \/ SlotFor(c) = NoSlot
         \/ /\ SlotFor(c) \in SlotsOf(semester) /\ SlotFor(c) \in DOMAIN Slots
            /\ Slots[SlotFor(c)].course = c
<1> DEFINE mine == {k \in SlotsOf(semester) : Slots[k].course = c}
           open == {k \in mine : Slots[k].end > now}
<1>1. mine \subseteq 1..Len(Slots) /\ Len(Slots) \in Nat /\ open \subseteq mine
  BY SlotsTyped DEF SlotsOf
<1>2. mine # {} => Max(mine) \in mine
  BY <1>1, MaxIsGreatest
<1>3. open # {} => Min(open) \in mine
  BY <1>1, MinIsLeast
<1>4. SlotFor(c) = IF mine = {} THEN NoSlot ELSE IF open = {} THEN Max(mine) ELSE Min(open)
  BY DEF SlotFor
<1>5. SlotFor(c) = NoSlot \/ SlotFor(c) \in mine
  BY <1>2, <1>3, <1>4
<1> QED
  BY <1>5, SlotsTyped DEF SlotsOf

LEMMA IdsAre ==
  ASSUME RecordTypeOK
  PROVE  /\ Len(sessions) \in Nat /\ Ids = 1..Len(sessions) /\ Ids \subseteq Nat /\ NoClass \notin Ids
         /\ sessions \in Seq(Row)
         /\ \A i \in Ids :
              /\ sessions[i] \in Row /\ attendance[i] \in Marks
              /\ \A s \in Students : attendance[i][s] \in {"none", "present", "late"}
<1>1. sessions \in Seq(Row) /\ attendance \in [Ids -> Marks]
  BY DEF RecordTypeOK, Row, Marks
<1>2. Ids = 1..Len(sessions) /\ Len(sessions) \in Nat
  BY <1>1 DEF Ids
<1> QED
  BY <1>1, <1>2 DEF Marks, NoClass, Ids

-----------------------------------------------------------------------------
(* Every step keeps the records sound *)

\* Changing marks, enrolments, the semester or the clock.
LEMMA SameClasses ==
  ASSUME RecordInv, sessions' = sessions, attendance' \in [Ids -> Marks],
         enrolled' \subseteq Students \X Courses,
         semester' \in Semesters \cup {NoSemester}, now' \in Hours
  PROVE  RecordInv'
BY DEF RecordInv, RecordTypeOK, Marks, LastRuns, FiledRight, Ids

\* Ending some classes, or the day.
LEMMA ClassesChanged ==
  ASSUME RecordInv, NEW f \in [Ids -> Row], sessions' = f,
         \A i \in Ids : /\ f[i].course = sessions[i].course /\ f[i].slot = sessions[i].slot
                        /\ f[i].running => sessions[i].running,
         UNCHANGED <<attendance, enrolled, semester>>, now' \in Hours
  PROVE  RecordInv'
<1>1. Len(sessions) \in Nat /\ Ids = 1..Len(sessions)
  BY IdsAre DEF RecordInv
<1>2. f \in Seq(Row) /\ DOMAIN f = Ids /\ Ids' = Ids
  BY <1>1 DEF Ids
<1>3. RecordTypeOK'
  BY <1>2 DEF RecordInv, RecordTypeOK, Row
<1>4. LastRuns' /\ FiledRight'
  BY <1>2 DEF RecordInv, LastRuns, FiledRight
<1> QED
  BY <1>3, <1>4 DEF RecordInv

LEMMA LeftoversEnd ==
  ASSUME RecordTypeOK, NEW c, NEW old, old = WithoutLeftovers(c)
  PROVE  /\ old \in [Ids -> Row] /\ old \in Seq(Row) /\ Len(old) = Len(sessions)
         /\ \A i \in Ids : /\ old[i].course = sessions[i].course /\ old[i].slot = sessions[i].slot
                           /\ old[i].running => sessions[i].running
                                                /\ ~(sessions[i].course = c /\ Leftover(i))
<1>1. Len(sessions) \in Nat /\ Ids = 1..Len(sessions) /\ \A i \in Ids : sessions[i] \in Row
  BY IdsAre
<1>2. \A i \in Ids : [sessions[i] EXCEPT !.running = FALSE] \in Row
  BY <1>1 DEF Row
<1>3. \A i \in Ids : /\ old[i].course = sessions[i].course /\ old[i].slot = sessions[i].slot
                     /\ old[i].running => sessions[i].running
                                          /\ ~(sessions[i].course = c /\ Leftover(i))
  BY <1>1 DEF WithoutLeftovers, Row
<1>4. old \in [Ids -> Row]
  BY <1>1, <1>2 DEF WithoutLeftovers
<1>5. old \in Seq(Row) /\ Len(old) = Len(sessions)
  BY <1>1, <1>4
<1> QED
  BY <1>3, <1>4, <1>5

LEMMA StartKeeps ==
  ASSUME RecordInv, NEW c \in Courses, NEW form \in Forms, StartClass(c, form[1], form[2])
  PROVE  RecordInv'
<1> DEFINE k == SlotFor(c)
           new == [course |-> c, today |-> TRUE, running |-> TRUE, slot |-> k,
                   start |-> IF form[1] = NoHour /\ k # NoSlot THEN Slots[k].start ELSE form[1],
                   room |-> IF form[2] = NoRoom /\ k # NoSlot THEN Slots[k].room ELSE form[2]]
           old == WithoutLeftovers(c)
           n == Len(sessions)
           none == [s \in Students |-> "none"]
<1>1. n \in Nat /\ Ids = 1..n /\ RecordTypeOK /\ \A i \in Ids : sessions[i] \in Row
  BY IdsAre DEF RecordInv
<1>2. k = NoSlot \/ (k \in DOMAIN Slots /\ Slots[k].course = c)
  BY SlotForFits
<1>3. new \in Row
  <2>1. form[1] \in {NoHour} \cup Hours /\ form[2] \in Rooms \cup {NoRoom}
    BY RecordAssumption
  <2> HIDE DEF k
  <2>2. new.start \in {NoHour} \cup Hours /\ new.room \in Rooms \cup {NoRoom}
    BY <1>2, <2>1, SlotsTyped
  <2>3. new.slot \in {NoSlot} \cup DOMAIN Slots
    BY <1>2
  <2> QED
    BY <2>2, <2>3 DEF Row
<1>4. /\ old \in [Ids -> Row] /\ old \in Seq(Row) /\ Len(old) = n
      /\ \A i \in Ids : /\ old[i].course = sessions[i].course /\ old[i].slot = sessions[i].slot
                        /\ old[i].running => sessions[i].running
                                             /\ ~(sessions[i].course = c /\ Leftover(i))
  BY <1>1, LeftoversEnd
<1>5. /\ sessions' = Append(old, new) /\ attendance' = Append(attendance, none)
      /\ UNCHANGED <<enrolled, semester, now>>
      /\ ~\E i \in Ids : sessions[i].course = c /\ Running(i)
  BY DEF StartClass
<1>6. \A i \in Ids : old[i].running => sessions[i].course # c
  BY <1>1, <1>4, <1>5 DEF Leftover, Running, Row
<1> HIDE DEF new, old, k
<1>7. /\ sessions' \in Seq(Row) /\ Ids' = 1..(n + 1) /\ n + 1 \notin Ids
      /\ \A i \in Ids : sessions'[i] = old[i]
      /\ sessions'[n + 1] = new
  BY <1>1, <1>3, <1>4, <1>5 DEF Ids
<1>8. RecordTypeOK'
  <2>1. attendance \in Seq(Marks) /\ Len(attendance) = n
    BY <1>1 DEF RecordTypeOK, Marks
  <2>2. none \in Marks
    BY DEF Marks
  <2>3. attendance' \in [Ids' -> Marks]
    <3>1. attendance' \in Seq(Marks) /\ Len(attendance') = n + 1
      BY <1>5, <2>1, <2>2
    <3> QED
      BY <1>7, <3>1
  <2> QED
    BY <1>5, <1>7, <2>3, <1>1 DEF RecordTypeOK, Row, Marks
<1>9. new.course = c /\ new.slot = k
  BY DEF new
<1>10. LastRuns'
  <2> SUFFICES ASSUME NEW i \in Ids', NEW j \in Ids', sessions'[i].running,
                      sessions'[j].course = sessions'[i].course
               PROVE  j <= i
    BY DEF LastRuns
  <2>1. CASE i = n + 1
    BY <1>1, <1>7, <2>1
  <2>2. CASE i # n + 1 /\ j = n + 1
    <3>1. i \in Ids /\ sessions[i].course = c
      BY <1>1, <1>4, <1>7, <1>9, <2>2
    <3> QED
      BY <1>6, <1>7, <3>1
  <2>3. CASE i # n + 1 /\ j # n + 1
    <3>1. i \in Ids /\ j \in Ids
      BY <1>1, <1>7, <2>3
    <3> QED
      BY <1>4, <1>7, <3>1 DEF RecordInv, LastRuns
  <2> QED
    BY <2>1, <2>2, <2>3
<1>11. FiledRight'
  <2> SUFFICES ASSUME NEW i \in Ids', sessions'[i].slot # NoSlot
               PROVE  Slots[sessions'[i].slot].course = sessions'[i].course
    BY DEF FiledRight
  <2>1. CASE i = n + 1
    BY <1>2, <1>7, <1>9, <2>1
  <2>2. CASE i # n + 1
    <3>1. i \in Ids
      BY <1>1, <1>7, <2>2
    <3> QED
      BY <1>4, <1>7, <3>1 DEF RecordInv, FiledRight
  <2> QED
    BY <2>1, <2>2
<1> QED
  BY <1>8, <1>10, <1>11 DEF RecordInv

LEMMA StepKeepsRecords ==
  ASSUME RecordInv, [RecordNext]_record
  PROVE  RecordInv'
<1>1. /\ RecordTypeOK /\ Ids = 1..Len(sessions) /\ \A i \in Ids : sessions[i] \in Row
      /\ attendance \in [Ids -> Marks]
  BY IdsAre DEF RecordInv, RecordTypeOK, Marks
<1>2. ASSUME NEW c \in Courses, NEW form \in Forms, StartClass(c, form[1], form[2])
      PROVE  RecordInv'
  BY <1>2, StartKeeps
<1>3. ASSUME NEW c \in Courses, EndClass(c)
      PROVE  RecordInv'
  <2> DEFINE f == [i \in Ids |-> IF sessions[i].course = c
                                   THEN [sessions[i] EXCEPT !.running = FALSE] ELSE sessions[i]]
  <2>1. f \in [Ids -> Row] /\ sessions' = f
    BY <1>1, <1>3 DEF EndClass, Row
  <2>2. \A i \in Ids : /\ f[i].course = sessions[i].course /\ f[i].slot = sessions[i].slot
                       /\ f[i].running => sessions[i].running
    BY <1>1 DEF Row
  <2>3. UNCHANGED <<attendance, enrolled, semester>> /\ now' \in Hours
    BY <1>1, <1>3 DEF EndClass, RecordTypeOK
  <2> HIDE DEF f
  <2> QED
    BY <2>1, <2>2, <2>3, ClassesChanged
<1>4. CASE Sweep
  <2> DEFINE f == [i \in Ids |-> IF Leftover(i) THEN [sessions[i] EXCEPT !.running = FALSE]
                                              ELSE sessions[i]]
  <2>1. f \in [Ids -> Row] /\ sessions' = f
    BY <1>1, <1>4 DEF Sweep, Row
  <2>2. \A i \in Ids : /\ f[i].course = sessions[i].course /\ f[i].slot = sessions[i].slot
                       /\ f[i].running => sessions[i].running
    BY <1>1 DEF Row
  <2>3. UNCHANGED <<attendance, enrolled, semester>> /\ now' \in Hours
    BY <1>1, <1>4 DEF Sweep, RecordTypeOK
  <2> HIDE DEF f
  <2> QED
    BY <2>1, <2>2, <2>3, ClassesChanged
<1>5. CASE NextDay
  <2> DEFINE f == [i \in Ids |-> [sessions[i] EXCEPT !.today = FALSE]]
  <2>1. f \in [Ids -> Row] /\ sessions' = f
    BY <1>1, <1>5 DEF NextDay, Row
  <2>2. \A i \in Ids : /\ f[i].course = sessions[i].course /\ f[i].slot = sessions[i].slot
                       /\ f[i].running => sessions[i].running
    BY <1>1 DEF Row
  <2>3. UNCHANGED <<attendance, enrolled, semester>> /\ now' \in Hours
    BY <1>5, RecordAssumption DEF NextDay, Hours
  <2> HIDE DEF f
  <2> QED
    BY <2>1, <2>2, <2>3, ClassesChanged
<1>6. ASSUME NEW s \in Students, NEW i \in Ids, NEW status \in {"present", "late"},
             Enter(s, i, status)
      PROVE  RecordInv'
  <2>1. /\ attendance' = [attendance EXCEPT ![i][s] = status]
        /\ UNCHANGED <<sessions, enrolled, semester, now>>
    BY <1>6 DEF Enter
  <2>2. attendance' \in [Ids -> Marks]
    BY <1>1, <2>1 DEF Marks
  <2> QED
    BY <1>1, <2>1, <2>2, SameClasses DEF RecordTypeOK
<1>7. ASSUME NEW s \in Students, NEW i \in Ids, CheckIn(s, i) \/ MarkByHand(s, i)
      PROVE  RecordInv'
  <2>1. StatusNow(i) \in {"present", "late"}
    BY DEF StatusNow
  <2> QED
    BY <1>6, <1>7, <2>1 DEF CheckIn, MarkByHand
<1>8. ASSUME NEW s \in Students, NEW c \in Courses,
             Register(s, c) \/ Drop(s, c) \/ EnrollStudent(s, c)
      PROVE  RecordInv'
  <2>1. /\ enrolled' \subseteq Students \X Courses
        /\ UNCHANGED <<sessions, attendance, semester, now>>
    BY <1>1, <1>8 DEF Register, Drop, EnrollStudent, RecordTypeOK
  <2> QED
    BY <1>1, <2>1, SameClasses DEF RecordTypeOK
<1>9. ASSUME NEW m \in Semesters, Activate(m)
      PROVE  RecordInv'
  BY <1>1, <1>9, SameClasses DEF Activate, RecordTypeOK
<1>10. CASE Tick
  <2>1. now' \in Hours
    BY <1>1, <1>10, RecordAssumption DEF Tick, RecordTypeOK, Hours
  <2> QED
    BY <1>1, <1>10, <2>1, SameClasses DEF Tick, RecordTypeOK
<1>11. CASE UNCHANGED record
  BY <1>1, <1>11, SameClasses DEF record, RecordTypeOK
<1> QED
  BY <1>2, <1>3, <1>4, <1>5, <1>7, <1>8, <1>9, <1>10, <1>11 DEF RecordNext

LEMMA RecordsSound == RecordSpec => []RecordInv
<1>1. RecordInit => RecordInv
  <2> SUFFICES ASSUME RecordInit PROVE RecordInv
    OBVIOUS
  <2>1. Ids = {} /\ sessions = <<>> /\ attendance = <<>>
    BY DEF RecordInit, Ids
  <2>2. RecordTypeOK
    BY <2>1, RecordAssumption DEF RecordInit, RecordTypeOK, Hours
  <2> QED
    BY <2>1, <2>2 DEF RecordInv, LastRuns, FiledRight
<1> QED
  BY <1>1, StepKeepsRecords, PTL DEF RecordSpec

\* Every reachable state of the records is well typed (models.py).
THEOREM RecordTypes == RecordSpec => []RecordTypeOK
<1>1. RecordInv => RecordTypeOK
  BY DEF RecordInv
<1> QED
  BY <1>1, RecordsSound, PTL

-----------------------------------------------------------------------------
(* The class that is on, as each query finds it *)

LEMMA LatestIs ==
  ASSUME RecordTypeOK, NEW T, T \subseteq Ids
  PROVE  \/ T = {} /\ Latest(T) = NoClass
         \/ T # {} /\ Latest(T) # NoClass /\ Latest(T) \in T /\ \A j \in T : j <= Latest(T)
<1>1. T \subseteq 1..Len(sessions) /\ Len(sessions) \in Nat /\ NoClass \notin T
  BY IdsAre
<1>2. T # {} => Max(T) \in T /\ \A j \in T : j <= Max(T)
  BY <1>1, MaxIsGreatest
<1> QED
  BY <1>1, <1>2 DEF Latest

LEMMA FirstIs ==
  ASSUME RecordTypeOK, NEW T, T \subseteq Ids
  PROVE  \/ T = {} /\ FirstOf(T) = NoClass
         \/ T # {} /\ FirstOf(T) # NoClass /\ FirstOf(T) \in T /\ \A j \in T : FirstOf(T) <= j
<1>1. T \subseteq Nat /\ NoClass \notin T
  BY IdsAre
<1>2. T # {} => Min(T) \in T /\ \A j \in T : Min(T) <= j
  BY <1>1, MinIsLeast
<1> QED
  BY <1>1, <1>2 DEF FirstOf

\* The class of a course that runs is the newest of the day, and the only one
\* of the course that runs, of whatever day.
LEMMA RunningIsNewest ==
  ASSUME RecordInv, NEW i \in Ids, sessions[i].running
  PROVE  /\ \A j \in Ids : sessions[j].course = sessions[i].course /\ sessions[j].running => j = i
         /\ i \in Today => Newest(sessions[i].course) = i
<1>1. RecordTypeOK /\ Ids \subseteq Nat
  BY IdsAre DEF RecordInv
<1>2. \A j \in Ids : sessions[j].course = sessions[i].course => j <= i
  BY DEF RecordInv, LastRuns
<1>3. \A j \in Ids : sessions[j].course = sessions[i].course /\ sessions[j].running => i <= j
  BY DEF RecordInv, LastRuns
<1>4. ASSUME i \in Today
      PROVE  Newest(sessions[i].course) = i
  <2> DEFINE T == {j \in Today : sessions[j].course = sessions[i].course}
  <2>1. T \subseteq Ids /\ i \in T
    BY <1>4 DEF Today
  <2>2. Latest(T) \in T /\ i <= Latest(T)
    BY <1>1, <2>1, LatestIs
  <2>3. Latest(T) \in Ids /\ Latest(T) <= i
    BY <1>2, <2>1, <2>2
  <2>4. Newest(sessions[i].course) = Latest(T)
    BY DEF Newest
  <2> HIDE DEF T
  <2>5. PICK m : m = Latest(T)
    OBVIOUS
  <2>6. i \in Nat /\ m \in Nat /\ i <= m /\ m <= i
    BY <1>1, <2>2, <2>3, <2>5
  <2>7. m = i
    BY <2>6
  <2> QED
    BY <2>4, <2>5, <2>7
<1> QED
  BY <1>1, <1>2, <1>3, <1>4

\* The class a tap goes to.
LEMMA TapIs ==
  ASSUME RecordInv, NEW s
  PROVE  \/ TapGoesTo(s) = NoClass /\ \A i \in Live : <<s, sessions[i].course>> \notin enrolled
         \/ /\ TapGoesTo(s) # NoClass /\ TapGoesTo(s) \in Live
            /\ <<s, sessions[TapGoesTo(s)].course>> \in enrolled
            /\ \A i \in Live : <<s, sessions[i].course>> \in enrolled => i <= TapGoesTo(s)
<1> DEFINE T == {i \in Today : sessions[i].running /\ <<s, sessions[i].course>> \in enrolled}
<1>1. RecordTypeOK /\ T \subseteq Ids
  BY DEF RecordInv, Today
<1>2. T = {i \in Live : <<s, sessions[i].course>> \in enrolled} /\ TapGoesTo(s) = Latest(T)
  BY DEF Live, TapGoesTo
<1> QED
  BY <1>1, <1>2, LatestIs

LEMMA LiveIs ==
  ASSUME NEW i \in Live
  PROVE  i \in Ids /\ i \in Today /\ sessions[i].running /\ sessions[i].today
BY DEF Live, Today

-----------------------------------------------------------------------------
(* Today's list and the tap *)

LEMMA TapsAreShown ==
  ASSUME RecordInv
  PROVE  MintableIsVisible
<1> SUFFICES ASSUME NEW s \in Students, TapGoesTo(s) # NoClass, ~Recorded(s, TapGoesTo(s)),
                    sessions[TapGoesTo(s)].course \in ShownCourses(s)
             PROVE  \E e \in TodaySchedule(s) : e.course = sessions[TapGoesTo(s)].course /\ e.live
  BY DEF MintableIsVisible
<1> DEFINE i == TapGoesTo(s)
           c == sessions[i].course
           covered == {d \in ShownCourses(s) : \E k \in ShownSlots : Slots[k].course = d}
<1>1. i \in Live /\ i \in Ids /\ i \in Today /\ sessions[i].running
  BY TapIs, LiveIs
<1>2. Entry(s, c, i).course = c /\ Entry(s, c, i).live
  BY <1>1 DEF Entry
<1>3. CASE c \in covered
  <2>1. Newest(c) = i
    BY <1>1, RunningIsNewest
  <2>2. Entry(s, c, Newest(c)) \in TodaySchedule(s)
    BY <1>3 DEF TodaySchedule
  <2> QED
    BY <1>2, <2>1, <2>2
<1>4. CASE c \notin covered
  <2>1. Entry(s, c, i) \in TodaySchedule(s)
    BY <1>1, <1>4 DEF TodaySchedule
  <2> QED
    BY <1>2, <2>1
<1> QED
  BY <1>3, <1>4

LEMMA ShownAreTaken ==
  ASSUME RecordInv
  PROVE  OfferedIsMintable
<1> SUFFICES ASSUME NEW s \in Students, NEW e \in TodaySchedule(s), e.live
             PROVE  \/ e.class = TapGoesTo(s)
                    \/ \E i \in Live : i > e.class /\ <<s, sessions[i].course>> \in enrolled
  BY DEF OfferedIsMintable
<1> DEFINE covered == {c \in ShownCourses(s) : \E k \in ShownSlots : Slots[k].course = c}
           adHoc == {i \in Today : sessions[i].running /\ sessions[i].course \in ShownCourses(s) \ covered}
<1>1. RecordTypeOK /\ Ids \subseteq Nat
  BY IdsAre DEF RecordInv
<1>2. e.class \in Live /\ <<s, sessions[e.class].course>> \in enrolled
  <2>1. CASE \E c \in covered : e = Entry(s, c, Newest(c))
    <3>1. PICK c \in covered : e = Entry(s, c, Newest(c))
      BY <2>1
    <3>2. <<s, c>> \in enrolled
      BY <3>1 DEF ShownCourses
    <3>3. e.class = Newest(c) /\ Newest(c) # NoClass /\ sessions[Newest(c)].running
      BY <3>1 DEF Entry
    <3>4. Newest(c) \in Today /\ sessions[Newest(c)].course = c
      <4>1. {i \in Today : sessions[i].course = c} \subseteq Ids
        BY DEF Today
      <4> QED
        BY <1>1, <3>3, <4>1, LatestIs DEF Newest
    <3> QED
      BY <3>2, <3>3, <3>4 DEF Live
  <2>2. CASE \E i \in adHoc : e = Entry(s, sessions[i].course, i)
    <3>1. PICK i \in adHoc : e = Entry(s, sessions[i].course, i)
      BY <2>2
    <3> QED
      BY <3>1 DEF Entry, ShownCourses, Live
  <2> QED
    BY <2>1, <2>2 DEF TodaySchedule
<1>3. /\ TapGoesTo(s) \in Live /\ e.class <= TapGoesTo(s)
      /\ <<s, sessions[TapGoesTo(s)].course>> \in enrolled
  BY <1>2, TapIs
<1>4. TapGoesTo(s) \in Nat /\ e.class \in Nat
  BY <1>1, <1>2, <1>3, LiveIs
<1> QED
  BY <1>3, <1>4

\* Today's list and the tap agree on the class, for any students, courses and
\* timetable and whatever was recorded: the class a tap goes to is offered,
\* and what is offered is what a tap takes but for a class started later
\* (get_today_schedule, _active_session_for_student).
THEOREM TheTapIsOnTheList == RecordSpec => []TapIsWhatIsShown
<1>1. RecordInv => TapIsWhatIsShown
  BY TapsAreShown, ShownAreTaken DEF TapIsWhatIsShown
<1> QED
  BY <1>1, RecordsSound, PTL

-----------------------------------------------------------------------------
(* The board of the day *)

LEMMA MatchedIs ==
  ASSUME RecordInv, NEW k \in BoardSlots
  PROVE  \/ Matched(k) = NoClass /\ Linked(k) = {} /\ Unlinked(k) = {}
         \/ /\ Matched(k) # NoClass /\ Matched(k) \in Today
            /\ sessions[Matched(k)].course = Slots[k].course
            /\ \/ sessions[Matched(k)].slot = k
               \/ sessions[Matched(k)].slot = NoSlot /\ sessions[Matched(k)].start = Slots[k].start
<1>1. RecordTypeOK /\ Linked(k) \subseteq Ids /\ Unlinked(k) \subseteq Ids
  BY DEF RecordInv, Linked, Unlinked, Today
<1>2. k # NoSlot
  BY SlotsTyped DEF BoardSlots, SlotsOf
<1>3. CASE Linked(k) # {}
  <2>1. Matched(k) \in Linked(k) /\ Matched(k) # NoClass
    BY <1>1, <1>3, FirstIs DEF Matched
  <2>2. sessions[Matched(k)].slot = k /\ Matched(k) \in Today /\ Matched(k) \in Ids
    BY <1>1, <2>1 DEF Linked
  <2>3. Slots[k].course = sessions[Matched(k)].course
    BY <1>2, <2>2 DEF RecordInv, FiledRight
  <2> QED
    BY <2>1, <2>2, <2>3
<1>4. CASE Linked(k) = {} /\ Unlinked(k) # {}
  <2>1. Matched(k) \in Unlinked(k) /\ Matched(k) # NoClass
    BY <1>1, <1>4, FirstIs DEF Matched
  <2> QED
    BY <2>1 DEF Unlinked
<1>5. CASE Linked(k) = {} /\ Unlinked(k) = {}
  BY <1>1, <1>5, FirstIs DEF Matched
<1> QED
  BY <1>3, <1>4, <1>5

\* No class is matched by two slots: a linked one names its slot, and no two
\* slots of the day have course and start in common.
LEMMA MatchedOnce ==
  ASSUME RecordInv, NEW k \in BoardSlots, NEW l \in BoardSlots,
         Matched(k) # NoClass, Matched(l) = Matched(k)
  PROVE  k = l
<1> DEFINE i == Matched(k)
<1>1. /\ k \in DOMAIN Slots /\ l \in DOMAIN Slots /\ k # NoSlot /\ l # NoSlot
      /\ Slots[k].published /\ Slots[l].published /\ Slots[k] \in Slot /\ Slots[l] \in Slot
      /\ Slots[k].semester = Slots[l].semester
  BY SlotsTyped DEF BoardSlots, SlotsOf
<1>2. /\ sessions[i].course = Slots[k].course /\ sessions[i].course = Slots[l].course
      /\ sessions[i].slot = k \/ (sessions[i].slot = NoSlot /\ sessions[i].start = Slots[k].start)
      /\ sessions[i].slot = l \/ (sessions[i].slot = NoSlot /\ sessions[i].start = Slots[l].start)
  BY MatchedIs
<1>3. CASE sessions[i].slot # NoSlot
  BY <1>2, <1>3
<1>4. CASE sessions[i].slot = NoSlot
  <2>1. Slots[k].course = Slots[l].course /\ Slots[k].start = Slots[l].start
    BY <1>1, <1>2, <1>4
  <2>2. Slots[k].published = Slots[l].published
    BY <1>1 DEF Slot
  <2>3. [Slots[k] EXCEPT !.end = 0, !.room = NoRoom] = [Slots[l] EXCEPT !.end = 0, !.room = NoRoom]
    BY <1>1, <2>1, <2>2 DEF Slot
  <2> QED
    BY <1>1, <2>3, BoardAssumption
<1> QED
  BY <1>3, <1>4

LEMMA OnTheBoardOnce ==
  ASSUME RecordInv
  PROVE  EveryClassOnTheBoardOnce
<1> SUFFICES ASSUME NEW i \in Live
             PROVE  Cardinality({row \in SlotRows \cup OtherRows : row.class = i /\ row.status = "live"}) = 1
  BY DEF EveryClassOnTheBoardOnce
<1> DEFINE rows == {row \in SlotRows \cup OtherRows : row.class = i /\ row.status = "live"}
<1>1. i \in Ids /\ sessions[i].running /\ i # NoClass
  BY LiveIs, IdsAre DEF RecordInv
<1>2. CASE \E k \in BoardSlots : Matched(k) = i
  <2>1. PICK k \in BoardSlots : Matched(k) = i
    BY <1>2
  <2> DEFINE row == [slot |-> k, class |-> Matched(k), status |-> SlotStatus(k)]
  <2>2. SlotStatus(k) = "live"
    BY <1>1, <2>1 DEF SlotStatus
  <2>3. row \in rows
    BY <2>1, <2>2 DEF SlotRows
  <2>4. ASSUME NEW other \in rows
        PROVE  other = row
    <3>1. other \notin OtherRows
      BY <2>1 DEF OtherRows
    <3>2. PICK l \in BoardSlots : other = [slot |-> l, class |-> Matched(l), status |-> SlotStatus(l)]
      BY <3>1 DEF SlotRows
    <3>3. l = k
      BY <1>1, <2>1, <3>2, MatchedOnce
    <3> QED
      BY <3>2, <3>3
  <2> HIDE DEF rows, row
  <2>5. rows = {row}
    BY <2>3, <2>4
  <2> QED
    BY <2>5, FS_Singleton DEF rows
<1>3. CASE ~\E k \in BoardSlots : Matched(k) = i
  <2> DEFINE row == [slot |-> NoSlot, class |-> i, status |-> "live"]
  <2>1. row \in rows
    BY <1>3 DEF OtherRows
  <2>2. \A other \in rows : other = row
    BY <1>3 DEF OtherRows, SlotRows
  <2> HIDE DEF rows, row
  <2>3. rows = {row}
    BY <2>1, <2>2
  <2> QED
    BY <2>3, FS_Singleton DEF rows
<1> QED
  BY <1>2, <1>3

LEMMA GridIsTheBoard ==
  ASSUME RecordInv
  PROVE  GridAgreesWithBoard
<1> SUFFICES ASSUME NEW k \in BoardSlots,
                    {i \in Today : sessions[i].course = Slots[k].course} \subseteq {Matched(k)}
             PROVE  CourseStatus(Slots[k].course)
                      = IF SlotStatus(k) \in {"live", "ended"} THEN SlotStatus(k) ELSE "not_started"
  BY DEF GridAgreesWithBoard
<1> DEFINE c == Slots[k].course
           classes == {i \in Today : sessions[i].course = c}
<1>1. RecordTypeOK /\ classes \subseteq Ids
  BY DEF RecordInv, Today
<1>2. Newest(c) = Latest(classes)
  BY DEF Newest
<1>3. CASE Matched(k) = NoClass
  <2>1. NoClass \notin Ids
    BY <1>1, IdsAre
  <2>2. classes = {}
    BY <1>1, <1>3, <2>1
  <2>3. Newest(c) = NoClass
    BY <1>1, <1>2, <2>2, LatestIs
  <2>4. SlotStatus(k) \in {"upcoming", "missed", "late", "due"}
    BY <1>3 DEF SlotStatus
  <2> QED
    BY <2>3, <2>4 DEF CourseStatus
<1>4. CASE Matched(k) # NoClass
  <2>1. Matched(k) \in classes
    BY <1>4, MatchedIs
  <2>2. Latest(classes) \in classes
    BY <1>1, <2>1, LatestIs
  <2>3. Newest(c) = Matched(k)
    BY <1>2, <2>2
  <2>4. SlotStatus(k) = IF sessions[Matched(k)].running THEN "live" ELSE "ended"
    BY <1>4 DEF SlotStatus
  <2>5. CourseStatus(c) = IF sessions[Matched(k)].running THEN "live" ELSE "ended"
    BY <1>4, <2>3 DEF CourseStatus
  <2> QED
    BY <2>4, <2>5
<1> QED
  BY <1>3, <1>4

\* With nothing left open, every class in a room of its own and no class
\* begun or over that is timetabled at the door for now, the door and the
\* board light the same classes and wait for the same slots.
LEMMA DoorIsTheBoard ==
  ASSUME RecordInv
  PROVE  BoardAgreesUnlessOver
<1> SUFFICES ASSUME NEW r \in Rooms,
                    ~\E i \in Ids : Leftover(i),
                    ~\E i \in Live : ClassRoom(i) = NoRoom,
                    ~\E k \in BoardSlots : /\ Slots[k].room = r /\ Slots[k].start <= now
                                           /\ now < Slots[k].end
                                           /\ SlotStatus(k) \in {"live", "ended"}
             PROVE  DoorScreen(r) = BoardScreen(r)
  BY DEF BoardAgreesUnlessOver
<1> DEFINE roomOf(i) == IF ClassRoom(i) # NoRoom THEN ClassRoom(i)
                        ELSE IF {k \in BoardSlots : Matched(k) = i} = {} THEN NoRoom
                             ELSE Slots[Min({k \in BoardSlots : Matched(k) = i})].room
           lit == {i \in Ids : sessions[i].running /\ ClassRoom(i) = r}
           litB == {i \in Live : roomOf(i) = r}
           slots == {k \in SlotsOf(semester) : Slots[k].room = r /\ Slots[k].end > now}
           due == {k \in slots : Slots[k].start <= now}
           slotsB == {k \in BoardSlots : Slots[k].room = r}
           dueB == {k \in slotsB : Matched(k) = NoClass /\ Slots[k].start <= now /\ now < Slots[k].end}
           nextB == {k \in slotsB : Slots[k].start > now}
<1>1. \A i \in Ids : sessions[i].running \in BOOLEAN /\ sessions[i].today \in BOOLEAN
  BY IdsAre DEF RecordInv, Row
<1>2. Live = {i \in Ids : sessions[i].running}
  BY <1>1 DEF Live, Today, Leftover
<1>3. litB = lit
  BY <1>2
<1>4. /\ \A k \in BoardSlots : Slots[k].start \in Nat /\ Slots[k].end \in Nat /\ Slots[k].start < Slots[k].end
      /\ now \in Nat
  BY SlotsTyped DEF BoardSlots, SlotsOf, RecordInv, RecordTypeOK, Hours
<1>5. \A k \in BoardSlots : Matched(k) # NoClass => SlotStatus(k) \in {"live", "ended"}
  BY DEF SlotStatus
<1>6. dueB = due
  BY <1>4, <1>5 DEF BoardSlots
<1>7. nextB = slots \ due
  BY <1>4 DEF BoardSlots
<1>8. DoorScreen(r) = IF lit # {} THEN Lit(lit)
                      ELSE IF due # {} THEN Dim("not started", due) ELSE Dim("next", slots \ due)
  BY DEF DoorScreen
<1>9. BoardScreen(r) = IF litB # {} THEN Lit(litB)
                       ELSE IF dueB # {} THEN Dim("not started", dueB) ELSE Dim("next", nextB)
  BY DEF BoardScreen
<1> HIDE DEF lit, litB, slots, due, slotsB, dueB, nextB
<1>10. CASE lit # {}
  BY <1>3, <1>8, <1>9, <1>10
<1>11. CASE lit = {} /\ due # {}
  BY <1>3, <1>6, <1>8, <1>9, <1>11
<1>12. CASE lit = {} /\ due = {}
  BY <1>3, <1>6, <1>7, <1>8, <1>9, <1>12
<1> QED
  BY <1>10, <1>11, <1>12

\* The board, the timetable page and the doors tell one day, whatever classes
\* ran, ended, were left open or started again, for any timetable without two
\* classes of a course at one time (_match_sessions, door_board,
\* session_status_for_course, status_for, _room_screens).
THEOREM TheBoardIsTheDay == RecordSpec => []BoardIsTheDay
<1>1. RecordInv => BoardIsTheDay
  BY OnTheBoardOnce, GridIsTheBoard, DoorIsTheBoard DEF BoardIsTheDay
<1> QED
  BY <1>1, RecordsSound, PTL

-----------------------------------------------------------------------------
(* The lecturer's pages *)

LEMMA ActiveClassIs ==
  ASSUME RecordInv, NEW c
  PROVE  \/ ActiveClass(c) = NoClass /\ \A i \in Ids : sessions[i].course = c => ~sessions[i].running
         \/ /\ ActiveClass(c) # NoClass /\ ActiveClass(c) \in Ids
            /\ sessions[ActiveClass(c)].course = c /\ sessions[ActiveClass(c)].running
            /\ \A i \in Ids : sessions[i].course = c /\ sessions[i].running => i = ActiveClass(c)
<1> DEFINE T == {i \in Ids : sessions[i].course = c /\ sessions[i].running}
<1>1. RecordTypeOK /\ T \subseteq Ids /\ ActiveClass(c) = FirstOf(T)
  BY DEF RecordInv, ActiveClass
<1>2. \/ T = {} /\ FirstOf(T) = NoClass
      \/ T # {} /\ FirstOf(T) # NoClass /\ FirstOf(T) \in T
  BY <1>1, FirstIs
<1>3. \A i, j \in T : i = j
  BY RunningIsNewest
<1> QED
  BY <1>1, <1>2, <1>3

\* The rows of a class are those of the students present or late.
LEMMA RowsAreAttendees ==
  ASSUME RecordTypeOK, NEW i \in Ids
  PROVE  /\ Rows(i) = Attendees(i) /\ Cardinality(Rows(i)) = Present(i)
         /\ Rows(i) = {s \in Students : attendance[i][s] \in {"present", "late"}}
<1>1. Rows(i) = {s \in Students : attendance[i][s] \in {"present", "late"}}
  BY IdsAre DEF Rows, Recorded
<1> QED
  BY <1>1 DEF Attendees, Present

LEMMA TappedIsShown ==
  ASSUME RecordInv
  PROVE  WorkspaceShowsTheTapped
<1> SUFFICES ASSUME NEW s \in Students, TapGoesTo(s) # NoClass
             PROVE  /\ Workspace(sessions[TapGoesTo(s)].course).class = TapGoesTo(s)
                    /\ Poll(s) = "checked_in" <=> s \in LiveRows(sessions[TapGoesTo(s)].course)
  BY DEF WorkspaceShowsTheTapped
<1> DEFINE i == TapGoesTo(s)
           c == sessions[i].course
<1>1. i \in Ids /\ sessions[i].running
  BY TapIs, LiveIs
<1>2. ActiveClass(c) = i
  BY <1>1, ActiveClassIs
<1>3. Workspace(c).class = i
  BY <1>2 DEF Workspace
<1>4. LiveRows(c) = Rows(i)
  BY <1>2 DEF LiveRows
<1>5. Poll(s) = "checked_in" <=> Recorded(s, i)
  BY DEF Poll
<1> QED
  BY <1>3, <1>4, <1>5 DEF Rows

LEMMA CountsAreOne ==
  ASSUME RecordInv
  PROVE  SameCountEverywhere
<1>1. RecordTypeOK
  BY DEF RecordInv
<1>2. ASSUME NEW c \in Courses, NEW i \in Ids, NEW active \in SUBSET Students, i \in Held(c)
      PROVE  /\ Detail(i, active).present = SessionHistory(c)[i].present
             /\ Detail(i, active).absent = SessionHistory(c)[i].absent
  <2>1. Rows(i) = Attendees(i) /\ sessions[i].course = c
    BY <1>1, <1>2, RowsAreAttendees DEF Held
  <2> QED
    BY <1>2, <2>1 DEF Detail, SessionHistory
<1>3. \A row \in ActivePage(Courses) : row.present = Present(row.class)
  BY <1>1, RowsAreAttendees DEF ActivePage, RunningOf
<1> QED
  BY <1>1, <1>2, <1>3, RowsAreAttendees DEF SameCountEverywhere

LEMMA PartsAdd ==
  ASSUME NEW S, NEW T, IsFiniteSet(S), T \subseteq S
  PROVE  /\ IsFiniteSet(S \ T) /\ Cardinality(S \ T) = Cardinality(S) - Cardinality(T)
         /\ Cardinality(S) \in Nat /\ Cardinality(T) \in Nat /\ Cardinality(S \ T) \in Nat
<1>1. S \cap T = T /\ T \in SUBSET S
  OBVIOUS
<1>2. IsFiniteSet(T) /\ IsFiniteSet(S \ T)
  BY <1>1, FS_Subset, FS_Difference
<1>3. Cardinality(S \ T) = Cardinality(S) - Cardinality(S \cap T)
  BY FS_Difference
<1> QED
  BY <1>1, <1>2, <1>3, FS_CardinalityType

LEMMA ClassIsFinite ==
  ASSUME NEW c
  PROVE  /\ IsFiniteSet(Class(c)) /\ Cardinality(Class(c)) \in Nat
         /\ EnrolledIn(c) = Cardinality(Class(c))
<1>1. IsFiniteSet(Students) /\ Class(c) \in SUBSET Students
  BY RecordAssumption DEF Class
<1> QED
  BY <1>1, FS_Subset, FS_CardinalityType DEF Class, EnrolledIn

LEMMA AbsentAreCounted ==
  ASSUME RecordInv
  PROVE  AbsentAreTheMissing
<1> SUFFICES ASSUME NEW c \in Courses, NEW i \in Ids, NEW active \in SUBSET Students,
                    i \in Held(c), Rows(i) \subseteq Class(c)
             PROVE  /\ Detail(i, active).absent =
                         Cardinality(Detail(i, active).missing)
                           + Cardinality(Class(c) \ (active \cup Rows(i)))
                    /\ PortalHistory(Courses)[i] = SessionHistory(c)[i]
  BY DEF AbsentAreTheMissing
<1>1. sessions[i].course = c /\ RecordTypeOK
  BY DEF Held, RecordInv
<1>2. IsFiniteSet(Class(c)) /\ EnrolledIn(c) = Cardinality(Class(c)) /\ EnrolledIn(c) \in Nat
  BY ClassIsFinite
<1>3. IsFiniteSet(Rows(i)) /\ Cardinality(Rows(i)) \in Nat /\ Cardinality(Rows(i)) <= EnrolledIn(c)
  <2>1. Rows(i) \in SUBSET Class(c)
    OBVIOUS
  <2>2. IsFiniteSet(Rows(i)) /\ Cardinality(Rows(i)) <= Cardinality(Class(c))
    BY <1>2, <2>1, FS_Subset
  <2> QED
    BY <1>2, <2>2, FS_CardinalityType
<1>4. Cardinality(Detail(i, active).missing) + Cardinality(Class(c) \ (active \cup Rows(i)))
        = Cardinality(Class(c) \ Rows(i))
  <2>1. Detail(i, active).missing = (Class(c) \ Rows(i)) \cap active
    BY <1>1 DEF Detail, NotCheckedIn, Rows, Class
  <2>2. PICK rest, here : /\ rest = Class(c) \ Rows(i)
                          /\ here = (Class(c) \ Rows(i)) \cap active
    OBVIOUS
  <2>3. IsFiniteSet(rest)
    <3>1. rest \in SUBSET Class(c)
      BY <2>2
    <3> QED
      BY <1>2, <3>1, FS_Subset
  <2>4. here \in SUBSET rest /\ rest \ here = Class(c) \ (active \cup Rows(i))
    BY <2>2
  <2>5. /\ IsFiniteSet(here) /\ Cardinality(here) \in Nat /\ Cardinality(rest) \in Nat
        /\ Cardinality(rest \ here) = Cardinality(rest) - Cardinality(here)
    <3>1. here \subseteq rest
      BY <2>4
    <3>2. IsFiniteSet(here)
      BY <2>3, <2>4, FS_Subset
    <3> QED
      BY <2>3, <3>1, <3>2, PartsAdd
  <2>6. Detail(i, active).missing = here
    BY <2>1, <2>2
  <2>7. Cardinality(here) + Cardinality(rest \ here) = Cardinality(rest)
    BY <2>5
  <2> QED
    BY <2>2, <2>4, <2>6, <2>7
<1>5. Cardinality(Class(c) \ Rows(i)) = EnrolledIn(c) - Cardinality(Rows(i))
  BY <1>2, PartsAdd
<1>6. Detail(i, active).absent = EnrolledIn(c) - Cardinality(Rows(i))
  BY <1>1 DEF Detail
<1>7. Rows(i) = Attendees(i)
  BY <1>1, RowsAreAttendees
<1> DEFINE n == EnrolledIn(c) - Cardinality(Attendees(i))
<1>8. Max({n, 0}) = n
  <2>1. n \in Nat
    BY <1>2, <1>3, <1>7
  <2> HIDE DEF n
  <2>2. {n, 0} \subseteq 1..n \cup {0} /\ {n, 0} # {}
    BY <2>1
  <2>3. \E x \in {n, 0} : \A y \in {n, 0} : x >= y
    BY <2>1
  <2>4. Max({n, 0}) \in {n, 0} /\ \A y \in {n, 0} : Max({n, 0}) >= y
    BY <2>3 DEF Max
  <2> QED
    BY <2>1, <2>4
<1>9. i \in UNION {Held(d) : d \in Courses}
  OBVIOUS
<1>10. PortalHistory(Courses)[i] = [present |-> Cardinality(Attendees(i)), absent |-> n]
  BY <1>1, <1>8, <1>9 DEF PortalHistory
<1>11. SessionHistory(c)[i] = [present |-> Cardinality(Attendees(i)), absent |-> n]
  BY DEF SessionHistory
<1> QED
  BY <1>4, <1>5, <1>6, <1>10, <1>11

LEMMA SlotIsInTheWeek ==
  ASSUME RecordInv
  PROVE  StartedFromTheWeek
<1> SUFFICES ASSUME NEW c \in Current(Courses), SlotFor(c) # NoSlot
             PROVE  /\ SlotFor(c) \in Week({c})
                    /\ \A s \in Class(c) : SlotFor(c) \in StudentWeek(s)
  BY DEF StartedFromTheWeek
<1>1. c \in Courses /\ InSemester(c, semester)
  BY DEF Current
<1>2. /\ SlotFor(c) \in DOMAIN Slots /\ Slots[SlotFor(c)].course = c
      /\ Slots[SlotFor(c)].published /\ Slots[SlotFor(c)].semester = semester
  BY SlotForFits DEF SlotsOf
<1>3. SlotFor(c) \in ShownSlots
  BY <1>2 DEF ShownSlots
<1>4. SlotFor(c) \in Week({c})
  BY <1>1, <1>2, <1>3 DEF Week, Current
<1>5. \A s \in Class(c) : c \in ShownCourses(s)
  BY <1>1 DEF Class, ShownCourses
<1> QED
  BY <1>2, <1>3, <1>4, <1>5 DEF StudentWeek

LEMMA IdsAreFinite ==
  ASSUME RecordTypeOK, NEW T, T \subseteq Ids
  PROVE  IsFiniteSet(T) /\ Cardinality(T) \in Nat
<1>1. Len(sessions) \in Nat /\ Ids = 1..Len(sessions) /\ T \in SUBSET Ids
  BY IdsAre
<1>2. IsFiniteSet(Ids)
  BY <1>1, FS_Interval
<1> QED
  BY <1>1, <1>2, FS_Subset, FS_CardinalityType

LEMMA CardsCountTheRunning ==
  ASSUME RecordInv
  PROVE  RunningAreOnTheCards
<1> DEFINE run == RunningOf(Courses)
           others == {i \in run : sessions[i].course \notin Current(Courses)}
           on == {i \in run : sessions[i].course \in Current(Courses)}
           lit == {c \in Current(Courses) : ActiveClass(c) # NoClass}
<1>1. RecordTypeOK /\ run \subseteq Ids /\ others \subseteq Ids /\ on \subseteq Ids
  BY DEF RecordInv, RunningOf
<1>2. Cardinality(run) = Cardinality(on) + Cardinality(others)
  <2>1. on = run \ others /\ others \subseteq run
    OBVIOUS
  <2>2. IsFiniteSet(run)
    BY <1>1, IdsAreFinite
  <2> HIDE DEF on, run, others
  <2>3. /\ Cardinality(on) = Cardinality(run) - Cardinality(others)
        /\ Cardinality(run) \in Nat /\ Cardinality(others) \in Nat
    BY <2>1, <2>2, PartsAdd
  <2> QED
    BY <2>3
<1>3. Cardinality(on) = Cardinality(lit)
  <2> DEFINE f == [i \in on |-> sessions[i].course]
  <2>1. ASSUME NEW i \in on
        PROVE  f[i] \in lit
    <3>1. i \in Ids /\ sessions[i].running /\ sessions[i].course \in Current(Courses)
      BY DEF RunningOf
    <3> QED
      BY <3>1, ActiveClassIs
  <2>2. ASSUME NEW c \in lit
        PROVE  \E i \in on : f[i] = c
    <3>1. c \in Courses /\ c \in Current(Courses)
      BY DEF Current
    <3>2. ActiveClass(c) \in Ids /\ sessions[ActiveClass(c)].course = c /\ sessions[ActiveClass(c)].running
      BY ActiveClassIs
    <3>3. ActiveClass(c) \in on
      BY <3>1, <3>2 DEF RunningOf
    <3> QED
      BY <3>2, <3>3
  <2>3. ASSUME NEW i \in on, NEW j \in on, f[i] = f[j]
        PROVE  i = j
    <3>1. /\ i \in Ids /\ j \in Ids /\ sessions[i].running /\ sessions[j].running
          /\ sessions[i].course = sessions[j].course
      BY <2>3 DEF RunningOf
    <3> QED
      BY <3>1, RunningIsNewest
  <2>4. f \in [on -> lit]
    BY <2>1
  <2> HIDE DEF on, lit, f
  <2>5. f \in Bijection(on, lit)
    BY <2>2, <2>3, <2>4 DEF Bijection, Injection, Surjection, IsInjective
  <2>6. IsFiniteSet(on)
    BY <1>1, IdsAreFinite
  <2> QED
    BY <2>5, <2>6, FS_Bijection DEF ExistsBijection
<1>4. ASSUME NEW c \in Current(Courses)
      PROVE  /\ (\E i \in run : sessions[i].course = c) <=> ActiveClass(c) # NoClass
             /\ Cardinality(HeldOrRunning(c)) - Cardinality(Held(c))
                  = IF \E i \in run : sessions[i].course = c THEN 1 ELSE 0
  <2>1. c \in Courses
    BY DEF Current
  <2>2. CASE ActiveClass(c) = NoClass
    <3>1. \A i \in Ids : sessions[i].course = c => ~sessions[i].running
      BY <2>2, ActiveClassIs
    <3>2. HeldOrRunning(c) = Held(c) /\ Held(c) \subseteq Ids
      BY <3>1 DEF HeldOrRunning, Held
    <3>3. Cardinality(Held(c)) \in Nat
      BY <1>1, <3>2, IdsAreFinite
    <3>4. ~\E i \in run : sessions[i].course = c
      BY <3>1 DEF RunningOf
    <3> QED
      BY <2>2, <3>2, <3>3, <3>4
  <2>3. CASE ActiveClass(c) # NoClass
    <3> DEFINE i == ActiveClass(c)
    <3>1. /\ i \in Ids /\ sessions[i].course = c /\ sessions[i].running
          /\ \A j \in Ids : sessions[j].course = c /\ sessions[j].running => j = i
      BY <2>3, ActiveClassIs
    <3>2. \A j \in Ids : sessions[j].running \in BOOLEAN
      BY <1>1, IdsAre DEF Row
    <3>3. HeldOrRunning(c) = Held(c) \cup {i} /\ i \notin Held(c) /\ Held(c) \subseteq Ids
      BY <3>1, <3>2 DEF HeldOrRunning, Held
    <3>4. IsFiniteSet(Held(c)) /\ Cardinality(Held(c)) \in Nat
      BY <1>1, <3>3, IdsAreFinite
    <3>5. Cardinality(HeldOrRunning(c)) = Cardinality(Held(c)) + 1
      BY <3>3, <3>4, FS_AddElement
    <3>6. i \in run
      BY <2>1, <3>1 DEF RunningOf
    <3> QED
      BY <2>3, <3>1, <3>4, <3>5, <3>6
  <2> QED
    BY <2>2, <2>3
<1> DEFINE app == Dashboard(Courses)
           portal == PortalDashboard(Courses)
<1>5. /\ app.active = Cardinality(run) /\ portal.active = run
      /\ DOMAIN app.cards = Current(Courses) /\ DOMAIN portal.cards = Current(Courses)
  BY DEF Dashboard, PortalDashboard
<1>6. ASSUME NEW c \in Current(Courses)
      PROVE  /\ app.cards[c].class = ActiveClass(c)
             /\ app.cards[c].figure.held = Cardinality(Held(c))
             /\ portal.cards[c].classes = Cardinality(HeldOrRunning(c))
             /\ portal.cards[c].live <=> \E i \in run : sessions[i].course = c
  BY DEF Dashboard, PortalDashboard, CourseFigure
<1>7. others = {i \in portal.active : sessions[i].course \notin Current(Courses)}
  BY <1>5
<1>8. lit = {c \in DOMAIN app.cards : app.cards[c].class # NoClass}
  <2> HIDE DEF app, portal, run
  <2>1. \A c \in Current(Courses) : app.cards[c].class = ActiveClass(c)
    BY <1>6
  <2> QED
    BY <1>5, <2>1
<1>9. app.active = Cardinality({c \in DOMAIN app.cards : app.cards[c].class # NoClass})
                     + Cardinality({i \in portal.active : sessions[i].course \notin Current(Courses)})
  <2> HIDE DEF app, portal, run, lit, others, on
  <2>1. app.active = Cardinality(lit) + Cardinality(others)
    BY <1>2, <1>3, <1>5
  <2> QED
    BY <1>7, <1>8, <2>1
<1>10. ASSUME NEW c \in DOMAIN portal.cards
      PROVE  /\ portal.cards[c].live <=> app.cards[c].class # NoClass
             /\ portal.cards[c].classes - app.cards[c].figure.held = IF portal.cards[c].live THEN 1 ELSE 0
  <2>1. c \in Current(Courses)
    BY <1>5
  <2> HIDE DEF app, portal, run
  <2>2. portal.cards[c].live <=> app.cards[c].class # NoClass
    BY <1>4, <1>6, <2>1
  <2>3. Cardinality(HeldOrRunning(c)) - Cardinality(Held(c)) = IF portal.cards[c].live THEN 1 ELSE 0
    BY <1>4, <1>6, <2>1
  <2> QED
    BY <1>6, <2>1, <2>2, <2>3
<1> QED
  BY <1>9, <1>10 DEF RunningAreOnTheCards

\* The lecturer's pages, the portal's and the app's, agree with the tap, with
\* each other and with the students' week on the class that is on, on who was
\* there and on how many were missing, for any students, courses and number of
\* classes (blueprints/lecturer.py, api/lecturer.py).
THEOREM TheLecturerSeesTheClass == RecordSpec => []LecturerSeesTheClass
<1>1. RecordInv => LecturerSeesTheClass
  BY TappedIsShown, CountsAreOne, AbsentAreCounted, SlotIsInTheWeek, CardsCountTheRunning
     DEF LecturerSeesTheClass
<1> QED
  BY <1>1, RecordsSound, PTL

-----------------------------------------------------------------------------
(* What a step does to the classes and the marks *)

LEMMA StepIs ==
  ASSUME RecordInv, [RecordNext]_record
  PROVE  /\ Ids \subseteq Ids'
         /\ \A i \in Ids : sessions'[i].course = sessions[i].course
         /\ \A i \in Ids : sessions'[i].running => sessions[i].running
         /\ \A i \in Ids' \ Ids : sessions'[i].running
         /\ \A i \in Ids, s \in Students : Recorded(s, i) => attendance'[i][s] = attendance[i][s]
<1>1. /\ RecordTypeOK /\ Ids = 1..Len(sessions) /\ \A i \in Ids : sessions[i] \in Row
      /\ Len(sessions) \in Nat /\ attendance \in [Ids -> Marks]
  BY IdsAre DEF RecordInv, RecordTypeOK, Marks
<1> USE DEF Ids
<1>2. ASSUME NEW c \in Courses, NEW form \in Forms, StartClass(c, form[1], form[2])
      PROVE  /\ Ids \subseteq Ids'
             /\ \A i \in Ids : sessions'[i].course = sessions[i].course
             /\ \A i \in Ids : sessions'[i].running => sessions[i].running
             /\ \A i \in Ids' \ Ids : sessions'[i].running
             /\ \A i \in Ids, s \in Students : Recorded(s, i) => attendance'[i][s] = attendance[i][s]
  <2>1. PICK old, new : /\ old = WithoutLeftovers(c) /\ new.running
                        /\ sessions' = Append(old, new)
    BY <1>2 DEF StartClass
  <2>2. /\ old \in Seq(Row) /\ Len(old) = Len(sessions)
        /\ \A i \in Ids : /\ old[i].course = sessions[i].course
                          /\ old[i].running => sessions[i].running
    BY <1>1, <2>1, LeftoversEnd
  <2>3. /\ DOMAIN sessions' = 1..(Len(sessions) + 1) /\ sessions'[Len(sessions) + 1] = new
        /\ \A i \in Ids : sessions'[i] = old[i]
    BY <1>1, <2>1, <2>2
  <2>4. attendance \in Seq(Marks) /\ Len(attendance) = Len(sessions)
    BY <1>1
  <2>5. \A i \in Ids : attendance'[i] = attendance[i]
    BY <1>1, <1>2, <2>4 DEF StartClass
  <2>6. \A i \in Ids' \ Ids : i = Len(sessions) + 1
    BY <1>1, <2>3
  <2> QED
    BY <1>1, <2>1, <2>2, <2>3, <2>5, <2>6
<1>3. ASSUME NEW c \in Courses, EndClass(c)
      PROVE  /\ Ids' = Ids /\ attendance' = attendance
             /\ \A i \in Ids : sessions'[i].course = sessions[i].course
             /\ \A i \in Ids : sessions'[i].running => sessions[i].running
  BY <1>1, <1>3 DEF EndClass, Row
<1>4. ASSUME Sweep
      PROVE  /\ Ids' = Ids /\ attendance' = attendance
             /\ \A i \in Ids : sessions'[i].course = sessions[i].course
             /\ \A i \in Ids : sessions'[i].running => sessions[i].running
  BY <1>1, <1>4 DEF Sweep, Row
<1>5. ASSUME NextDay
      PROVE  /\ Ids' = Ids /\ attendance' = attendance
             /\ \A i \in Ids : sessions'[i].course = sessions[i].course
             /\ \A i \in Ids : sessions'[i].running => sessions[i].running
  BY <1>1, <1>5 DEF NextDay, Row
<1>6. ASSUME NEW s \in Students, NEW i \in Ids, CheckIn(s, i) \/ MarkByHand(s, i)
      PROVE  /\ sessions' = sessions
             /\ \A j \in Ids, t \in Students : Recorded(t, j) => attendance'[j][t] = attendance[j][t]
  <2>1. PICK status : /\ attendance' = [attendance EXCEPT ![i][s] = status]
                      /\ ~Recorded(s, i) /\ sessions' = sessions
    BY <1>6 DEF CheckIn, MarkByHand, Enter
  <2>2. \A j \in Ids, t \in Students : j # i \/ t # s => attendance'[j][t] = attendance[j][t]
    BY <1>1, <2>1 DEF Marks
  <2> QED
    BY <2>1, <2>2
<1>7. ASSUME NEW s \in Students, NEW c \in Courses,
             Register(s, c) \/ Drop(s, c) \/ EnrollStudent(s, c)
      PROVE  sessions' = sessions /\ attendance' = attendance
  BY <1>7 DEF Register, Drop, EnrollStudent
<1>8. ASSUME (\E m \in Semesters : Activate(m)) \/ Tick \/ UNCHANGED record
      PROVE  sessions' = sessions /\ attendance' = attendance
  BY <1>8 DEF Activate, Tick, record
<1> QED
  BY <1>2, <1>3, <1>4, <1>5, <1>6, <1>7, <1>8 DEF RecordNext

-----------------------------------------------------------------------------
(* Rounding *)

LEMMA QuotientIs ==
  ASSUME NEW a \in Nat, NEW d \in Nat \ {0}
  PROVE  /\ a \div d \in Nat
         /\ d * (a \div d) <= a /\ a < d * (a \div d) + d
OBVIOUS

LEMMA QuotientGrows ==
  ASSUME NEW a \in Nat, NEW b \in Nat, NEW d \in Nat \ {0}, a <= b
  PROVE  a \div d <= b \div d
<1>1. PICK q \in Nat : q = a \div d /\ d * q <= a
  BY QuotientIs
<1>2. PICK r \in Nat : r = b \div d /\ b < d * r + d
  BY QuotientIs
<1>3. ASSUME r < q
      PROVE  FALSE
  <2>1. PICK e \in Nat : q = r + 1 + e
    <3>1. q - r - 1 \in Nat /\ q = r + 1 + (q - r - 1)
      BY <1>3
    <3> QED
      BY <3>1
  <2>2. d * q = d * r + d + d * e /\ d * e \in Nat /\ d * r \in Nat
    BY <2>1
  <2> QED
    BY <1>1, <1>2, <2>2
<1> QED
  BY <1>1, <1>2, <1>3

LEMMA TenthsGrow ==
  ASSUME NEW a \in Nat, NEW b \in Nat, NEW w \in Nat, a <= b
  PROVE  Tenths(a, w) \in Nat /\ Tenths(b, w) \in Nat /\ Tenths(a, w) <= Tenths(b, w)
<1>1. CASE w = 0
  BY <1>1 DEF Tenths
<1>2. CASE w # 0
  <2>1. /\ 2000 * a + w \in Nat /\ 2000 * b + w \in Nat /\ 2 * w \in Nat \ {0}
        /\ 2000 * a + w <= 2000 * b + w
    BY <1>2
  <2> QED
    BY <1>2, <2>1, QuotientGrows, QuotientIs DEF Tenths
<1> QED
  BY <1>1, <1>2

-----------------------------------------------------------------------------
(* A student's percentage *)

AttendedColumns(s, c) == {i \in Columns(c) : Letter(s, i) \in {"present", "late"}}

LEMMA ColumnsAreIds ==
  ASSUME RecordTypeOK, NEW s, NEW c
  PROVE  /\ Columns(c) \subseteq Ids /\ AttendedColumns(s, c) \subseteq Ids
         /\ IsFiniteSet(Columns(c)) /\ Cardinality(Columns(c)) \in Nat
         /\ IsFiniteSet(AttendedColumns(s, c)) /\ Cardinality(AttendedColumns(s, c)) \in Nat
         /\ RegisterRow(s, c).attended = Cardinality(AttendedColumns(s, c))
         /\ RegisterRow(s, c).total = Cardinality(Columns(c))
         /\ RegisterRow(s, c).pct = Tenths(Cardinality(AttendedColumns(s, c)), Cardinality(Columns(c)))
<1>1. Columns(c) \subseteq Ids /\ AttendedColumns(s, c) \subseteq Ids
  BY DEF Columns, AttendedColumns
<1> QED
  BY <1>1, IdsAreFinite DEF RegisterRow, AttendedColumns

\* The percentage of a registered student falls only by the end of a class of
\* the course: a start, a mark, a drop by somebody else, a new semester or
\* midnight never lowers it (build_course_register_csv, held_sessions).
THEOREM PercentagesFallAtTheEnd == RecordSpec => FallsOnlyAtTheEnd
<1>1. ASSUME RecordInv, [RecordNext]_record
      PROVE  [\A p \in enrolled \cap enrolled' :
                RegisterRow(p[1], p[2]).pct' < RegisterRow(p[1], p[2]).pct
                  => \E i \in Ids : sessions[i].course = p[2] /\ sessions[i].running /\ ~sessions'[i].running]_record
  <2> SUFFICES ASSUME NEW p \in enrolled \cap enrolled',
                      \A i \in Ids : sessions[i].course = p[2] /\ sessions[i].running
                                       => sessions'[i].running
               PROVE  ~(RegisterRow(p[1], p[2]).pct' < RegisterRow(p[1], p[2]).pct)
    OBVIOUS
  <2>1. PICK s \in Students, c \in Courses : s = p[1] /\ c = p[2]
    BY <1>1 DEF RecordInv, RecordTypeOK
  <2>2. Columns(c)' = Columns(c)
    BY <1>1, <2>1, StepIs DEF Columns
  <2>3. AttendedColumns(s, c) \subseteq AttendedColumns(s, c)'
    <3> SUFFICES ASSUME NEW i \in AttendedColumns(s, c)
                 PROVE  i \in AttendedColumns(s, c)'
      OBVIOUS
    <3>1. i \in Columns(c) /\ i \in Ids /\ attendance[i][s] # "none" /\ attendance[i][s] \in {"present", "late"}
      BY DEF AttendedColumns, Letter, Columns
    <3>2. attendance'[i][s] = attendance[i][s]
      BY <1>1, <3>1, StepIs DEF Recorded
    <3> QED
      BY <2>2, <3>1, <3>2 DEF AttendedColumns, Letter
  <2>4. /\ IsFiniteSet(AttendedColumns(s, c)') /\ Cardinality(AttendedColumns(s, c)') \in Nat
        /\ RegisterRow(s, c).pct' = Tenths(Cardinality(AttendedColumns(s, c)'), Cardinality(Columns(c)'))
    <3>1. IsFiniteSet(Columns(c))
      BY <1>1, ColumnsAreIds DEF RecordInv
    <3>2. AttendedColumns(s, c)' \in SUBSET Columns(c)
      BY <2>2 DEF AttendedColumns
    <3>3. RegisterRow(s, c).pct' = Tenths(Cardinality(AttendedColumns(s, c)'), Cardinality(Columns(c)'))
      BY DEF RegisterRow, AttendedColumns
    <3> QED
      BY <3>1, <3>2, <3>3, FS_Subset, FS_CardinalityType
  <2>5. /\ Cardinality(AttendedColumns(s, c)) \in Nat /\ Cardinality(Columns(c)) \in Nat
        /\ RegisterRow(s, c).pct = Tenths(Cardinality(AttendedColumns(s, c)), Cardinality(Columns(c)))
    BY <1>1, ColumnsAreIds DEF RecordInv
  <2>6. Cardinality(AttendedColumns(s, c)) <= Cardinality(AttendedColumns(s, c)')
    <3>1. AttendedColumns(s, c) \in SUBSET (AttendedColumns(s, c)')
      BY <2>3
    <3> QED
      BY <2>4, <3>1, FS_Subset
  <2>7. /\ RegisterRow(s, c).pct <= RegisterRow(s, c).pct'
        /\ RegisterRow(s, c).pct \in Nat /\ RegisterRow(s, c).pct' \in Nat
    BY <2>2, <2>4, <2>5, <2>6, TenthsGrow
  <2> QED
    BY <2>1, <2>7
<1> QED
  BY <1>1, RecordsSound, PTL DEF RecordSpec, FallsOnlyAtTheEnd

-----------------------------------------------------------------------------
(* The figures of a student *)

LEMMA HeldIs ==
  ASSUME RecordTypeOK, NEW c
  PROVE  /\ Held(c) = Columns(c) /\ Held(c) \subseteq Ids
         /\ IsFiniteSet(Held(c)) /\ Cardinality(Held(c)) \in Nat
BY IdsAreFinite DEF Held, Columns

LEMMA AttendedIs ==
  ASSUME RecordTypeOK, NEW s \in Students, NEW c
  PROVE  /\ {i \in Held(c) : s \in Attendees(i)} = AttendedColumns(s, c)
         /\ {i \in Held(c) : Recorded(s, i)} = AttendedColumns(s, c)
         /\ Attended(s, c) = Cardinality(AttendedColumns(s, c))
         /\ Attended(s, c) = RegisterRow(s, c).attended
         /\ Attended(s, c) \in Nat /\ Attended(s, c) <= Cardinality(Held(c))
<1>1. \A i \in Held(c) : attendance[i][s] \in {"none", "present", "late"}
  BY IdsAre, HeldIs
<1>2. {i \in Held(c) : s \in Attendees(i)} = AttendedColumns(s, c)
  BY <1>1, HeldIs DEF Attendees, AttendedColumns, Letter
<1>3. {i \in Held(c) : Recorded(s, i)} = AttendedColumns(s, c)
  BY <1>1, HeldIs DEF Recorded, AttendedColumns, Letter
<1>4. AttendedColumns(s, c) \in SUBSET Held(c)
  BY <1>2
<1>5. Attended(s, c) = Cardinality(AttendedColumns(s, c))
  BY <1>2 DEF Attended
<1> QED
  BY <1>2, <1>3, <1>4, <1>5, ColumnsAreIds, HeldIs, FS_Subset

LEMMA SameFigure ==
  ASSUME RecordTypeOK
  PROVE  SameFigureEverywhere
<1> SUFFICES ASSUME NEW p \in enrolled
             PROVE  LET row == RegisterRow(p[1], p[2])
                        given == [attended |-> row.attended, total |-> row.total, pct |-> row.pct]
                        history == History(p[1], p[2])
                    IN  /\ AnalyticsRow(p[1], p[2]) = given
                        /\ p[2] \in MyCourses(p[1]) => MyRow(p[1], p[2]) = given
                        /\ Cardinality(DOMAIN history) = row.total
                        /\ Cardinality({i \in DOMAIN history : history[i] # "absent"}) = row.attended
  BY DEF SameFigureEverywhere
<1>1. PICK s \in Students, c \in Courses : s = p[1] /\ c = p[2]
  BY DEF RecordTypeOK
<1> DEFINE row == RegisterRow(s, c)
           given == [attended |-> row.attended, total |-> row.total, pct |-> row.pct]
           history == History(s, c)
<1>2. /\ row.attended = Attended(s, c) /\ row.total = Cardinality(Held(c))
      /\ row.pct = Tenths(Attended(s, c), Cardinality(Held(c)))
  BY ColumnsAreIds, AttendedIs, HeldIs
<1>3. AnalyticsRow(s, c) = given /\ MyRow(s, c) = given
  BY <1>2 DEF AnalyticsRow, MyRow
<1>4. DOMAIN history = Held(c)
  BY DEF History
<1>5. {i \in DOMAIN history : history[i] # "absent"} = {i \in Held(c) : Recorded(s, i)}
  <2>1. \A i \in Held(c) : Recorded(s, i) => attendance[i][s] # "absent"
    BY IdsAre, HeldIs DEF Recorded
  <2> QED
    BY <1>4, <2>1 DEF History
<1>6. Cardinality({i \in DOMAIN history : history[i] # "absent"}) = row.attended
  BY <1>2, <1>5, AttendedIs
<1> QED
  BY <1>1, <1>2, <1>3, <1>4, <1>6

\* The register's verdict, as the other pages compute it.
LEMMA EligibleIs ==
  ASSUME RecordTypeOK, NEW s \in Students, NEW c
  PROVE  /\ RegisterRow(s, c).eligible
              <=> Cardinality(Held(c)) # 0 /\ Tenths(Attended(s, c), Cardinality(Held(c))) >= 10 * Threshold
         /\ Tenths(Attended(s, c), Cardinality(Held(c))) \in Nat
         /\ RegisterRow(s, c).eligible <=> Tenths(Attended(s, c), Cardinality(Held(c))) >= 10 * Threshold
<1>1. /\ Attended(s, c) = Cardinality(AttendedColumns(s, c)) /\ Held(c) = Columns(c)
      /\ Attended(s, c) \in Nat /\ Cardinality(Held(c)) \in Nat
  BY AttendedIs, HeldIs
<1>2. RegisterRow(s, c).eligible
        <=> Cardinality(Held(c)) # 0 /\ Tenths(Attended(s, c), Cardinality(Held(c))) >= 10 * Threshold
  BY <1>1 DEF RegisterRow, AttendedColumns
<1>3. Tenths(Attended(s, c), Cardinality(Held(c))) \in Nat
  BY <1>1, TenthsGrow
<1>4. Cardinality(Held(c)) = 0 => Tenths(Attended(s, c), Cardinality(Held(c))) = 0
  BY DEF Tenths
<1>5. 10 * Threshold \in Nat /\ 10 * Threshold > 0
  BY FiguresAssumption
<1> QED
  BY <1>2, <1>3, <1>4, <1>5

LEMMA ListIsTheRegister ==
  ASSUME RecordTypeOK
  PROVE  FlaggedIffNotEligible
<1> SUFFICES ASSUME NEW m \in Semesters, NEW active \in SUBSET Students
             PROVE  Below(m, active) = {p \in InScope(m, active) : ~RegisterRow(p[1], p[2]).eligible}
  BY DEF FlaggedIffNotEligible
<1>1. ASSUME NEW p \in InScope(m, active)
      PROVE  Tenths(Attended(p[1], p[2]), Cardinality(Held(p[2]))) < 10 * Threshold
               <=> ~RegisterRow(p[1], p[2]).eligible
  <2>1. p[1] \in Students
    BY DEF InScope, RecordTypeOK
  <2>2. 10 * Threshold \in Nat
    BY FiguresAssumption
  <2> QED
    BY <2>1, <2>2, EligibleIs
<1> QED
  BY <1>1 DEF Below

LEMMA RiskIsTheRegister ==
  ASSUME RecordTypeOK
  PROVE  AtRiskIsTheRegister
<1> SUFFICES ASSUME NEW s \in Students
             PROVE  AtRisk(s) = Cardinality({c \in MyCourses(s) : ~RegisterRow(s, c).eligible})
  BY DEF AtRiskIsTheRegister
<1>1. ASSUME NEW c \in MyCourses(s)
      PROVE  MyRow(s, c).pct < 10 * Threshold <=> ~RegisterRow(s, c).eligible
  <2>1. MyRow(s, c).pct = Tenths(Attended(s, c), Cardinality(Held(c)))
    BY DEF MyRow
  <2>2. 10 * Threshold \in Nat
    BY FiguresAssumption
  <2> QED
    BY <2>1, <2>2, EligibleIs
<1>2. {c \in MyCourses(s) : MyRow(s, c).pct < 10 * Threshold}
        = {c \in MyCourses(s) : ~RegisterRow(s, c).eligible}
  BY <1>1
<1> QED
  BY <1>2 DEF AtRisk

-----------------------------------------------------------------------------
(* Sums over finite sets.  MapThenSumSet is a fold, which picks the elements *)
(* in an order of its own; the sum of f over T is also the number of places  *)
(* in a heap of columns, f[x] high for each x in T, which is in no order.    *)

Heap(f, T) == {p \in T \X Nat : p[2] \in 1..f[p[1]]}
SumOver(f, T) == Cardinality(Heap(f, T))

LEMMA SmallerSubsets ==
  ASSUME NEW S, IsFiniteSet(S)
  PROVE  IsWellFoundedOn(StrictSubsetOrdering(S), SUBSET S)
<1>1. FiniteSubsetsOf(S) = SUBSET S
  BY FS_FiniteSubsetsOfFinite
<1> QED
  BY <1>1, FS_StrictSubsetOrderingWellFounded

LEMMA StrongSubsetInduction ==
  ASSUME NEW S, IsFiniteSet(S), NEW Good, Good \subseteq SUBSET S,
         \A T \in SUBSET S : (\A U \in SUBSET T : U # T => U \in Good) => T \in Good
  PROVE  Good = SUBSET S
<1> DEFINE Bad == (SUBSET S) \ Good
<1> SUFFICES ASSUME Bad # {} PROVE FALSE
  OBVIOUS
<1>1. PICK T \in Bad : \A U \in Bad : ~(<<U, T>> \in StrictSubsetOrdering(S))
  <2>1. IsWellFoundedOn(StrictSubsetOrdering(S), SUBSET S)
    BY SmallerSubsets
  <2>2. Bad \subseteq SUBSET S
    OBVIOUS
  <2> HIDE DEF Bad
  <2> QED
    BY <2>1, <2>2, WFMin
<1>2. \A U \in Bad : U \subseteq T => U = T
  BY <1>1 DEF StrictSubsetOrdering
<1>3. \A U \in SUBSET T : U # T => U \in Good
  BY <1>1, <1>2
<1> QED
  BY <1>1, <1>3

LEMMA SubsetInduction ==
  ASSUME NEW S, IsFiniteSet(S), NEW Good, Good \subseteq SUBSET S, {} \in Good,
         \A T \in Good : \A x \in S \ T : T \cup {x} \in Good
  PROVE  S \in Good
<1>1. ASSUME NEW T \in SUBSET S, \A U \in SUBSET T : U # T => U \in Good
      PROVE  T \in Good
  <2>1. CASE T = {}
    BY <2>1
  <2>2. CASE T # {}
    <3>1. PICK x \in T : TRUE
      BY <2>2
    <3>2. T \ {x} \in Good
      BY <1>1, <3>1
    <3>3. T = (T \ {x}) \cup {x} /\ x \in S \ (T \ {x})
      BY <3>1
    <3> QED
      BY <3>2, <3>3
  <2> QED
    BY <2>1, <2>2
<1>2. Good = SUBSET S
  BY <1>1, StrongSubsetInduction
<1> QED
  BY <1>2

LEMMA HeapGrows ==
  ASSUME NEW S, NEW f \in [S -> Nat], NEW T \in SUBSET S, NEW x \in S \ T, IsFiniteSet(Heap(f, T))
  PROVE  /\ IsFiniteSet(Heap(f, T \cup {x}))
         /\ SumOver(f, T \cup {x}) = SumOver(f, T) + f[x]
<1> DEFINE column == {x} \X (1..f[x])
<1>1. f[x] \in Nat
  OBVIOUS
<1>2. IsFiniteSet(1..f[x]) /\ Cardinality(1..f[x]) = f[x]
  BY <1>1, FS_Interval
<1>3. IsFiniteSet({x}) /\ Cardinality({x}) = 1
  BY FS_Singleton
<1>4. IsFiniteSet(column) /\ Cardinality(column) = f[x]
  BY <1>1, <1>2, <1>3, FS_Product
<1>5. Heap(f, T \cup {x}) = Heap(f, T) \cup column
  BY <1>1 DEF Heap
<1>6. Heap(f, T) \cap column = {}
  BY DEF Heap
<1> HIDE DEF column
<1>7. Cardinality(Heap(f, T) \cup column)
        = Cardinality(Heap(f, T)) + Cardinality(column) - Cardinality(Heap(f, T) \cap column)
  BY <1>4, FS_Union
<1>8. Cardinality(Heap(f, T) \cap column) = 0 /\ Cardinality(Heap(f, T)) \in Nat
  BY <1>6, FS_EmptySet, FS_CardinalityType
<1>9. IsFiniteSet(Heap(f, T) \cup column)
  BY <1>4, FS_Union
<1>10. PICK n \in Nat, m \in Nat : n = Cardinality(Heap(f, T)) /\ m = f[x]
  BY <1>1, <1>8
<1>11. Cardinality(Heap(f, T) \cup column) = n + m - 0
  BY <1>4, <1>7, <1>8, <1>10
<1>12. n + m - 0 = n + m
  OBVIOUS
<1>13. Cardinality(Heap(f, T \cup {x})) = Cardinality(Heap(f, T)) + f[x]
  BY <1>5, <1>10, <1>11, <1>12
<1> QED
  BY <1>5, <1>9, <1>13 DEF SumOver

LEMMA HeapIsFinite ==
  ASSUME NEW S, IsFiniteSet(S), NEW f \in [S -> Nat], NEW T \in SUBSET S
  PROVE  IsFiniteSet(Heap(f, T)) /\ SumOver(f, T) \in Nat
<1> DEFINE Good == {U \in SUBSET T : IsFiniteSet(Heap(f, U))}
<1>1. Heap(f, {}) = {}
  BY DEF Heap
<1>2. {} \in Good
  BY <1>1, FS_EmptySet
<1>3. ASSUME NEW U \in Good, NEW x \in T \ U
      PROVE  U \cup {x} \in Good
  BY HeapGrows
<1>4. IsFiniteSet(T)
  BY FS_Subset
<1> HIDE DEF Good
<1>5. T \in Good
  <2>1. Good \subseteq SUBSET T
    BY DEF Good
  <2> QED
    BY <1>2, <1>3, <1>4, <2>1, SubsetInduction
<1>6. IsFiniteSet(Heap(f, T))
  BY <1>5 DEF Good
<1> QED
  BY <1>6, FS_CardinalityType DEF SumOver

\* How a sum grows, one element at a time.
LEMMA SumGrows ==
  ASSUME NEW S, IsFiniteSet(S), NEW f \in [S -> Nat]
  PROVE  /\ SumOver(f, {}) = 0
         /\ \A T \in SUBSET S : SumOver(f, T) \in Nat
         /\ \A T \in SUBSET S : \A x \in S \ T : SumOver(f, T \cup {x}) = SumOver(f, T) + f[x]
<1>1. Heap(f, {}) = {}
  BY DEF Heap
<1> QED
  BY <1>1, FS_EmptySet, HeapIsFinite, HeapGrows DEF SumOver

\* The function a fold of MapThenSumSet computes.
IsFold(f, S, iter) ==
  iter = [T \in SUBSET S |-> IF T = {} THEN 0
                             ELSE f[CHOOSE x \in T : TRUE] + iter[T \ {CHOOSE x \in T : TRUE}]]

\* There is such a function, and it gives the sum, whatever it picks first.
LEMMA FoldIsSum ==
  ASSUME NEW S, IsFiniteSet(S), NEW f \in [S -> Nat]
  PROVE  /\ \E iter : IsFold(f, S, iter)
         /\ \A iter : IsFold(f, S, iter) => iter[S] = SumOver(f, S)
<1> DEFINE first(T) == CHOOSE x \in T : TRUE
<1>1. ASSUME NEW T \in SUBSET S, T # {}
      PROVE  /\ first(T) \in T /\ T \ {first(T)} \in SUBSET T /\ T \ {first(T)} # T
             /\ SumOver(f, T) = f[first(T)] + SumOver(f, T \ {first(T)})
  <2>1. PICK x : x = first(T)
    OBVIOUS
  <2>2. x \in T
    BY <1>1, <2>1
  <2>3. T = (T \ {x}) \cup {x} /\ x \in S \ (T \ {x}) /\ T \ {x} \in SUBSET S /\ f[x] \in Nat
    BY <2>2
  <2>4. SumOver(f, T) = SumOver(f, T \ {x}) + f[x] /\ SumOver(f, T \ {x}) \in Nat
    <3>1. PICK U \in SUBSET S : U = T \ {x} /\ T = U \cup {x} /\ x \in S \ U
      BY <2>3
    <3>2. SumOver(f, U \cup {x}) = SumOver(f, U) + f[x] /\ SumOver(f, U) \in Nat
      BY <3>1, SumGrows
    <3> QED
      BY <3>1, <3>2
  <2>5. SumOver(f, T) = f[x] + SumOver(f, T \ {x})
    BY <2>3, <2>4
  <2> QED
    BY <2>1, <2>2, <2>5
<1> DEFINE h == [T \in SUBSET S |-> SumOver(f, T)]
<1>2. h = [T \in SUBSET S |-> IF T = {} THEN 0 ELSE f[first(T)] + h[T \ {first(T)}]]
  <2>1. \A T \in SUBSET S : SumOver(f, T) = IF T = {} THEN 0 ELSE f[first(T)] + h[T \ {first(T)}]
    BY <1>1, SumGrows
  <2> QED
    BY <2>1
<1>3. ASSUME NEW iter,
             iter = [T \in SUBSET S |-> IF T = {} THEN 0 ELSE f[first(T)] + iter[T \ {first(T)}]]
      PROVE  iter[S] = SumOver(f, S)
  <2> DEFINE Good == {T \in SUBSET S : iter[T] = SumOver(f, T)}
  <2>1. ASSUME NEW T \in SUBSET S, \A U \in SUBSET T : U # T => U \in Good
        PROVE  T \in Good
    <3>1. CASE T = {}
      BY <1>3, <3>1, SumGrows
    <3>2. CASE T # {}
      <4>1. iter[T] = f[first(T)] + iter[T \ {first(T)}]
        BY <1>3, <3>2
      <4>2. T \ {first(T)} \in Good
        BY <1>1, <2>1, <3>2
      <4> QED
        BY <1>1, <3>2, <4>1, <4>2
    <3> QED
      BY <3>1, <3>2
  <2>2. Good \subseteq SUBSET S
    OBVIOUS
  <2> HIDE DEF Good
  <2>3. S \in Good
    BY <2>1, <2>2, StrongSubsetInduction
  <2> QED
    BY <2>3 DEF Good
<1>4. IsFold(f, S, h)
  BY <1>2 DEF IsFold
<1>5. ASSUME NEW iter, IsFold(f, S, iter)
      PROVE  iter[S] = SumOver(f, S)
  BY <1>3, <1>5 DEF IsFold
<1> QED
  BY <1>4, <1>5

\* A sum is greater where a term is, and it is linear.
LEMMA SumMonotone ==
  ASSUME NEW S, IsFiniteSet(S), NEW f \in [S -> Nat], NEW g \in [S -> Nat],
         \A x \in S : f[x] <= g[x]
  PROVE  /\ SumOver(f, S) <= SumOver(g, S)
         /\ (\E x \in S : f[x] < g[x]) => SumOver(f, S) < SumOver(g, S)
<1>1. IsFiniteSet(Heap(g, S)) /\ SumOver(f, S) \in Nat /\ SumOver(g, S) \in Nat
  BY HeapIsFinite
<1>2. Heap(f, S) \subseteq Heap(g, S)
  <2>1. ASSUME NEW p \in Heap(f, S)
        PROVE  p \in Heap(g, S)
    <3>1. p \in S \X Nat /\ p[2] \in 1..f[p[1]]
      BY DEF Heap
    <3>2. f[p[1]] \in Nat /\ g[p[1]] \in Nat /\ f[p[1]] <= g[p[1]] /\ p[2] \in Nat
      BY <3>1
    <3>3. p[2] \in 1..g[p[1]]
      BY <3>1, <3>2
    <3> QED
      BY <3>1, <3>3 DEF Heap
  <2> QED
    BY <2>1
<1>3. /\ SumOver(f, S) <= SumOver(g, S)
      /\ SumOver(f, S) = SumOver(g, S) => Heap(f, S) = Heap(g, S)
  BY <1>1, <1>2, FS_Subset DEF SumOver
<1>4. ASSUME NEW x \in S, f[x] < g[x]
      PROVE  Heap(f, S) # Heap(g, S)
  <2>1. g[x] \in Nat /\ f[x] \in Nat
    OBVIOUS
  <2>2. <<x, g[x]>> \in Heap(g, S)
    BY <1>4, <2>1 DEF Heap
  <2>3. <<x, g[x]>> \notin Heap(f, S)
    BY <1>4, <2>1 DEF Heap
  <2> QED
    BY <2>2, <2>3
<1> QED
  BY <1>1, <1>3, <1>4

Combines(S, h, a, f, b, g) == \A x \in S : h[x] = a * f[x] + b * g[x]

LEMMA SumLinear ==
  ASSUME NEW S, IsFiniteSet(S), NEW f \in [S -> Nat], NEW g \in [S -> Nat], NEW h \in [S -> Nat],
         NEW a \in Nat, NEW b \in Nat, Combines(S, h, a, f, b, g)
  PROVE  SumOver(h, S) = a * SumOver(f, S) + b * SumOver(g, S)
<1> DEFINE Good == {T \in SUBSET S : SumOver(h, T) = a * SumOver(f, T) + b * SumOver(g, T)}
<1>1. {} \in Good
  BY SumGrows
<1>2. ASSUME NEW T \in Good, NEW x \in S \ T
      PROVE  T \cup {x} \in Good
  <2>1. PICK sf \in Nat, sg \in Nat, sh \in Nat :
          sf = SumOver(f, T) /\ sg = SumOver(g, T) /\ sh = SumOver(h, T)
    BY SumGrows
  <2>2. PICK xf \in Nat, xg \in Nat, xh \in Nat : xf = f[x] /\ xg = g[x] /\ xh = h[x]
    OBVIOUS
  <2>3. /\ SumOver(f, T \cup {x}) = sf + xf
        /\ SumOver(g, T \cup {x}) = sg + xg
        /\ SumOver(h, T \cup {x}) = sh + xh
    BY <2>1, <2>2, SumGrows
  <2>4. sh = a * sf + b * sg /\ xh = a * xf + b * xg
    BY <2>1, <2>2 DEF Combines
  <2>5. a * (sf + xf) = a * sf + a * xf /\ b * (sg + xg) = b * sg + b * xg
    OBVIOUS
  <2>6. a * sf \in Nat /\ a * xf \in Nat /\ b * sg \in Nat /\ b * xg \in Nat
    OBVIOUS
  <2>7. sh + xh = a * (sf + xf) + b * (sg + xg)
    BY <2>4, <2>5, <2>6
  <2> QED
    BY <2>3, <2>7
<1>3. Good \subseteq SUBSET S
  OBVIOUS
<1> HIDE DEF Good
<1>4. S \in Good
  BY <1>1, <1>2, <1>3, SubsetInduction
<1> QED
  BY <1>4 DEF Good

LEMMA SumOfOnes ==
  ASSUME NEW S, IsFiniteSet(S)
  PROVE  SumOver([x \in S |-> 1], S) = Cardinality(S)
<1> DEFINE f == [x \in S |-> 1]
           Good == {T \in SUBSET S : SumOver(f, T) = Cardinality(T)}
<1>1. f \in [S -> Nat]
  OBVIOUS
<1>2. {} \in Good
  BY <1>1, SumGrows, FS_EmptySet
<1>3. ASSUME NEW T \in Good, NEW x \in S \ T
      PROVE  T \cup {x} \in Good
  <2>1. IsFiniteSet(T)
    BY FS_Subset
  <2>2. Cardinality(T \cup {x}) = Cardinality(T) + 1
    BY <2>1, FS_AddElement
  <2>3. SumOver(f, T \cup {x}) = SumOver(f, T) + 1
    <3> f[x] = 1
      OBVIOUS
    <3> HIDE DEF f
    <3> QED
      BY <1>1, SumGrows
  <2> QED
    BY <2>2, <2>3
<1>4. Good \subseteq SUBSET S
  OBVIOUS
<1> HIDE DEF Good
<1>5. S \in Good
  BY <1>2, <1>3, <1>4, SubsetInduction
<1> QED
  BY <1>5 DEF Good

\* Counted by where g sends them, the elements of R are all counted once.
LEMMA SumOfFibres ==
  ASSUME NEW S, IsFiniteSet(S), NEW R, IsFiniteSet(R), NEW g \in [R -> S], NEW f \in [S -> Nat],
         \A x \in S : f[x] = Cardinality({r \in R : g[r] = x})
  PROVE  SumOver(f, S) = Cardinality(R)
<1> DEFINE over(T) == {r \in R : g[r] \in T}
           Good == {T \in SUBSET S : SumOver(f, T) = Cardinality(over(T))}
<1>1. {} \in Good
  <2>1. over({}) = {}
    OBVIOUS
  <2> QED
    BY <2>1, SumGrows, FS_EmptySet
<1>2. ASSUME NEW T \in Good, NEW x \in S \ T
      PROVE  T \cup {x} \in Good
  <2> DEFINE fibre == {r \in R : g[r] = x}
  <2>1. over(T \cup {x}) = over(T) \cup fibre /\ over(T) \cap fibre = {}
    OBVIOUS
  <2>2. IsFiniteSet(over(T)) /\ IsFiniteSet(fibre)
    BY FS_Subset
  <2>3. f[x] = Cardinality(fibre) /\ SumOver(f, T) = Cardinality(over(T))
    OBVIOUS
  <2>4. SumOver(f, T \cup {x}) = SumOver(f, T) + f[x]
    BY SumGrows
  <2> HIDE DEF over, fibre
  <2>5. Cardinality(over(T) \cup fibre)
          = Cardinality(over(T)) + Cardinality(fibre) - Cardinality(over(T) \cap fibre)
    BY <2>2, FS_Union
  <2>6. Cardinality(over(T) \cap fibre) = 0
    BY <2>1, FS_EmptySet
  <2>7. PICK n \in Nat, m \in Nat : n = Cardinality(over(T)) /\ m = Cardinality(fibre)
    BY <2>2, FS_CardinalityType
  <2>8. Cardinality(over(T \cup {x})) = n + m
    <3>1. Cardinality(over(T) \cup fibre) = n + m - 0
      BY <2>5, <2>6, <2>7
    <3>2. n + m - 0 = n + m
      OBVIOUS
    <3> QED
      BY <2>1, <3>1, <3>2
  <2>9. SumOver(f, T \cup {x}) = n + m
    BY <2>3, <2>4, <2>7
  <2> QED
    BY <2>8, <2>9
<1>3. Good \subseteq SUBSET S
  OBVIOUS
<1> HIDE DEF Good
<1>4. S \in Good
  BY <1>1, <1>2, <1>3, SubsetInduction
<1>5. over(S) = R
  OBVIOUS
<1> QED
  BY <1>4, <1>5 DEF Good

\* What is nothing need not be counted.
LEMMA SumWithoutZeros ==
  ASSUME NEW S, NEW T \in SUBSET S, NEW f \in [S -> Nat], NEW g \in [T -> Nat],
         \A x \in T : g[x] = f[x], \A x \in S \ T : f[x] = 0
  PROVE  SumOver(f, S) = SumOver(g, T)
<1>1. ASSUME NEW p \in S \X Nat
      PROVE  p[2] \in 1..f[p[1]] <=> p[1] \in T /\ p[2] \in 1..g[p[1]]
  <2>1. CASE p[1] \in T
    BY <2>1
  <2>2. CASE p[1] \notin T
    <3>1. f[p[1]] = 0
      BY <2>2
    <3> QED
      BY <2>2, <3>1
  <2> QED
    BY <2>1, <2>2
<1>2. Heap(f, S) = Heap(g, T)
  BY <1>1 DEF Heap
<1> QED
  BY <1>2 DEF SumOver

-----------------------------------------------------------------------------
(* Rounded figures *)

\* What the greater of two numbers is more.
LEMMA Excess ==
  ASSUME NEW a \in Int, NEW b \in Int, a <= b
  PROVE  \E u \in Nat : b = a + u
<1>1. b - a \in Nat /\ b = a + (b - a)
  OBVIOUS
<1> QED
  BY <1>1

LEMMA TenthsAre ==
  ASSUME NEW a \in Nat, NEW w \in Nat \ {0}
  PROVE  /\ Tenths(a, w) \in Nat /\ w * Tenths(a, w) \in Nat
         /\ 2 * (w * Tenths(a, w)) <= 2000 * a + w
         /\ 2000 * a + w < 2 * (w * Tenths(a, w)) + 2 * w
<1>1. PICK n \in Nat, d \in Nat \ {0} : n = 2000 * a + w /\ d = 2 * w
  OBVIOUS
<1>2. PICK q \in Nat : q = n \div d /\ d * q <= n /\ n < d * q + d
  BY QuotientIs
<1>3. q = Tenths(a, w)
  BY <1>1, <1>2 DEF Tenths
<1>4. d * q = 2 * (w * q) /\ w * q \in Nat
  BY <1>1
<1> QED
  BY <1>1, <1>2, <1>3, <1>4

LEMMA TenthsBetween ==
  ASSUME NEW a \in Nat, NEW w \in Nat \ {0}, NEW q \in Nat, q = Tenths(a, w), NEW wq \in Nat, wq = w * q
  PROVE  2 * wq <= 2000 * a + w /\ 2000 * a + w < 2 * wq + 2 * w
BY TenthsAre

\* Tenths and whole points against a bound of whole points.
LEMMA PointsAgainstTenths ==
  ASSUME NEW a \in Nat, NEW w \in Nat \ {0}, NEW t \in Nat \ {0}
  PROVE  /\ Points(a, w) < t => Tenths(a, w) < 10 * t
         /\ Tenths(a, w) < 10 * t - 5 => Points(a, w) < t
<1>1. PICK q \in Nat, wq \in Nat :
        /\ q = Tenths(a, w) /\ wq = w * q
        /\ 2 * wq <= 2000 * a + w /\ 2000 * a + w < 2 * wq + 2 * w
  <2>1. PICK q \in Nat : q = Tenths(a, w)
    BY TenthsAre
  <2>2. PICK wq \in Nat : wq = w * q
    OBVIOUS
  <2> QED
    BY <2>1, <2>2, TenthsAre
<1>2. PICK n \in Nat, d \in Nat \ {0} : n = 200 * a + w /\ d = 2 * w
  OBVIOUS
<1>3. PICK p \in Nat : p = n \div d /\ d * p <= n /\ n < d * p + d
  BY <1>2, QuotientIs
<1>4. p = Points(a, w)
  BY <1>2, <1>3 DEF Points
<1>5. PICK wp \in Nat : wp = w * p
  OBVIOUS
<1>6. 2 * wp <= 200 * a + w /\ 200 * a + w < 2 * wp + 2 * w
  <2>1. d * p = 2 * wp
    BY <1>2, <1>5
  <2> QED
    BY <1>2, <1>3, <2>1
<1>7. ASSUME p < t, q >= 10 * t
      PROVE  FALSE
  <2>1. PICK u \in Nat : t = p + 1 + u
    BY <1>7, Excess
  <2>2. PICK v \in Nat : q = 10 * p + 10 + v
    BY <1>7, <2>1, Excess
  <2>3. wq = 10 * wp + 10 * w + w * v /\ w * v \in Nat
    BY <1>1, <1>5, <2>2
  <2> QED
    BY <1>1, <1>6, <2>3
<1>8. ASSUME q < 10 * t - 5, p >= t
      PROVE  FALSE
  <2>1. PICK u \in Nat : 10 * p = q + 6 + u
    <3>1. q + 6 <= 10 * p /\ q + 6 \in Int /\ 10 * p \in Int
      BY <1>8
    <3> QED
      BY <3>1, Excess
  <2>2. w * (10 * p) = w * (q + 6 + u)
    BY <2>1
  <2>3. w * (10 * p) = 10 * wp /\ w * (q + 6 + u) = wq + 6 * w + w * u /\ w * u \in Nat
    BY <1>1, <1>5
  <2> QED
    BY <1>1, <1>6, <2>2, <2>3
<1> QED
  BY <1>1, <1>4, <1>7, <1>8

\* The mean m of n rounded figures that sum to s, of parts that sum to a of k
\* each, against the figure q of the parts all together.
MeanIsClose(n, k, a, s) == ((2 * s + n) \div (2 * n)) - Tenths(a, n * k) \in -1..1

LEMMA MeanAgainstWhole ==
  ASSUME NEW n \in Nat \ {0}, NEW k \in Nat \ {0}, NEW a \in Nat, NEW s \in Nat,
         2 * (k * s) <= 2000 * a + n * k, 2000 * a + n * k <= 2 * (k * s) + 2 * (n * k)
  PROVE  MeanIsClose(n, k, a, s)
<1>1. PICK w \in Nat \ {0} : w = n * k
  <2>1. n * k \in Nat \ {0}
    OBVIOUS
  <2> QED
    BY <2>1
<1>2. PICK q \in Nat, wq \in Nat :
        /\ q = Tenths(a, w) /\ wq = w * q
        /\ 2 * wq <= 2000 * a + w /\ 2000 * a + w < 2 * wq + 2 * w
  <2>1. PICK q \in Nat : q = Tenths(a, w)
    BY TenthsAre
  <2>2. PICK wq \in Nat : wq = w * q
    OBVIOUS
  <2> QED
    BY <2>1, <2>2, TenthsAre
<1>3. PICK b \in Nat, d \in Nat \ {0} : b = 2 * s + n /\ d = 2 * n
  OBVIOUS
<1>4. PICK m \in Nat : m = b \div d /\ d * m <= b /\ b < d * m + d
  BY <1>3, QuotientIs
<1>5. PICK ks \in Nat : ks = k * s /\ 2 * ks <= 2000 * a + w /\ 2000 * a + w <= 2 * ks + 2 * w
  BY <1>1
<1>6. PICK wm \in Nat : wm = w * m
  OBVIOUS
<1>7. 2 * wm <= 2 * ks + w /\ 2 * ks + w < 2 * wm + 2 * w
  <2>1. PICK nm \in Nat : nm = n * m
    OBVIOUS
  <2>2. 2 * nm <= 2 * s + n /\ 2 * s + n < 2 * nm + 2 * n
    <3>1. d * m = 2 * nm
      BY <1>3, <2>1
    <3> QED
      BY <1>3, <1>4, <3>1
  <2>3. wm = k * nm
    BY <1>1, <1>6, <2>1
  <2>4. PICK e \in Nat : 2 * s + n = 2 * nm + e
    BY <2>2, Excess
  <2>5. PICK g \in Nat : 2 * nm + 2 * n = 2 * s + n + 1 + g
    <3>1. 2 * s + n + 1 <= 2 * nm + 2 * n
      BY <2>2
    <3> QED
      BY <3>1, Excess
  <2>6. k * (2 * s + n) = k * (2 * nm + e) /\ k * (2 * nm + 2 * n) = k * (2 * s + n + 1 + g)
    BY <2>4, <2>5
  <2>7. k * (2 * s + n) = 2 * ks + w /\ k * (2 * nm + e) = 2 * wm + k * e
    BY <1>1, <1>5, <2>3
  <2>8. k * (2 * s + n + 1 + g) = 2 * ks + w + k + k * g /\ k * (2 * nm + 2 * n) = 2 * wm + 2 * w
    BY <1>1, <1>5, <2>3
  <2>9. k * e \in Nat /\ k * g \in Nat
    OBVIOUS
  <2> QED
    BY <2>6, <2>7, <2>8, <2>9
<1>8. 2 * wm < 2 * wq + 3 * w /\ 2 * wq < 2 * wm + 3 * w
  BY <1>2, <1>5, <1>7
<1>9. ASSUME m >= q + 2
      PROVE  FALSE
  <2>1. PICK u \in Nat : m = q + 2 + u
    BY <1>9, Excess
  <2>2. wm = wq + 2 * w + w * u /\ w * u \in Nat
    BY <1>2, <1>6, <2>1
  <2> QED
    BY <1>8, <2>2
<1>10. ASSUME q >= m + 2
       PROVE  FALSE
  <2>1. PICK u \in Nat : q = m + 2 + u
    BY <1>10, Excess
  <2>2. wq = wm + 2 * w + w * u /\ w * u \in Nat
    BY <1>2, <1>6, <2>1
  <2> QED
    BY <1>8, <2>2
<1>11. m - q \in -1..1
  BY <1>9, <1>10
<1> QED
  BY <1>1, <1>2, <1>3, <1>4, <1>11 DEF MeanIsClose

-----------------------------------------------------------------------------
(* The average of a course *)

\* Who attended which of the classes of a course.
Attendances(c) == {p \in Held(c) \X Students : p[2] \in Attendees(p[1])}

LEMMA AttendancesAre ==
  ASSUME RecordTypeOK, NEW c
  PROVE  /\ IsFiniteSet(Attendances(c)) /\ AttendedByAll(c) = Cardinality(Attendances(c))
         /\ AttendedByAll(c) \in Nat
<1>1. IsFiniteSet(Held(c)) /\ IsFiniteSet(Students)
  BY HeldIs, RecordAssumption
<1>2. IsFiniteSet(Held(c) \X Students)
  BY <1>1, FS_Product
<1>3. Attendances(c) \subseteq Held(c) \X Students
  BY DEF Attendances
<1>4. IsFiniteSet(Attendances(c))
  BY <1>2, <1>3, FS_Subset
<1> QED
  BY <1>4, FS_CardinalityType DEF AttendedByAll, Attendances

LEMMA SameCount ==
  ASSUME NEW S, IsFiniteSet(S), NEW T, NEW f \in [S -> T],
         \A x, y \in S : f[x] = f[y] => x = y, \A z \in T : \E x \in S : f[x] = z
  PROVE  Cardinality(S) = Cardinality(T)
<1>1. f \in Bijection(S, T)
  BY DEF Bijection, Injection, Surjection, IsInjective
<1> QED
  BY <1>1, FS_Bijection DEF ExistsBijection

\* A student's classes, and a class's students, counted among them.
LEMMA RowIsFibre ==
  ASSUME RecordTypeOK, NEW c, NEW s \in Students
  PROVE  Attended(s, c) = Cardinality({p \in Attendances(c) : p[2] = s})
<1> DEFINE mine == {i \in Held(c) : s \in Attendees(i)}
           fibre == {p \in Attendances(c) : p[2] = s}
           f == [i \in mine |-> <<i, s>>]
<1>1. IsFiniteSet(mine) => Cardinality(mine) = Cardinality(fibre)
  <2>1. f \in [mine -> fibre]
    BY DEF Attendances
  <2>2. \A i, j \in mine : f[i] = f[j] => i = j
    OBVIOUS
  <2>3. \A p \in fibre : \E i \in mine : f[i] = p
    BY DEF Attendances
  <2> HIDE DEF f, mine, fibre
  <2> QED
    BY <2>1, <2>2, <2>3, SameCount
<1>2. IsFiniteSet(mine)
  <2>1. mine \in SUBSET Held(c)
    OBVIOUS
  <2> HIDE DEF mine
  <2> QED
    BY <2>1, HeldIs, FS_Subset
<1>3. Cardinality(mine) = Cardinality(fibre)
  BY <1>1, <1>2
<1> QED
  BY <1>3 DEF Attended

LEMMA ColumnIsFibre ==
  ASSUME RecordTypeOK, NEW c, NEW i \in Held(c)
  PROVE  /\ Cardinality(Attendees(i)) = Cardinality({p \in Attendances(c) : p[1] = i})
         /\ Cardinality(Attendees(i)) \in Nat
<1> DEFINE fibre == {p \in Attendances(c) : p[1] = i}
           f == [s \in Attendees(i) |-> <<i, s>>]
<1>1. IsFiniteSet(Attendees(i)) => Cardinality(Attendees(i)) = Cardinality(fibre)
  <2>1. f \in [Attendees(i) -> fibre]
    BY DEF Attendances, Attendees
  <2>2. \A s, t \in Attendees(i) : f[s] = f[t] => s = t
    OBVIOUS
  <2>3. \A p \in fibre : \E s \in Attendees(i) : f[s] = p
    BY DEF Attendances
  <2> HIDE DEF f, fibre
  <2> QED
    BY <2>1, <2>2, <2>3, SameCount
<1>2. IsFiniteSet(Attendees(i)) /\ Cardinality(Attendees(i)) \in Nat
  <2>1. Attendees(i) \subseteq Students
    BY DEF Attendees
  <2> QED
    BY <2>1, RecordAssumption, FS_Subset, FS_CardinalityType
<1> QED
  BY <1>1, <1>2

LEMMA AverageAgrees ==
  ASSUME RecordTypeOK
  PROVE  AverageIsTheRegisters
<1> SUFFICES ASSUME NEW c \in Courses
             PROVE  LET left == (UNION {Attendees(i) : i \in Held(c)}) \ Class(c)
                    IN  /\ AttendedByAll(c)
                             = MapThenSumSet(LAMBDA s : RegisterRow(s, c).attended, Class(c) \cup left)
                        /\ left = {} => CourseFigure(c).pct <= 1000
  BY DEF AverageIsTheRegisters
<1> DEFINE left == (UNION {Attendees(i) : i \in Held(c)}) \ Class(c)
           all == Class(c) \cup left
           f == [s \in all |-> RegisterRow(s, c).attended]
           step(iter) == iter = [T \in SUBSET all |->
                                   IF T = {} THEN 0
                                   ELSE RegisterRow(CHOOSE s \in T : TRUE, c).attended
                                          + iter[T \ {CHOOSE s \in T : TRUE}]]
<1>1. all \subseteq Students /\ IsFiniteSet(all)
  <2>1. all \subseteq Students
    BY DEF Attendees, Class
  <2> QED
    BY <2>1, RecordAssumption, FS_Subset
<1>2. ASSUME NEW s \in all
      PROVE  /\ RegisterRow(s, c).attended \in Nat
             /\ RegisterRow(s, c).attended = Cardinality({p \in Attendances(c) : p[2] = s})
  BY <1>1, AttendedIs, RowIsFibre
<1>3. f \in [all -> Nat]
  BY <1>2
<1>4. AttendedByAll(c) = SumOver(f, all)
  <2> DEFINE g == [p \in Attendances(c) |-> p[2]]
  <2>1. g \in [Attendances(c) -> all]
    BY DEF Attendances
  <2>2. ASSUME NEW s \in all
        PROVE  f[s] = Cardinality({p \in Attendances(c) : g[p] = s})
    <3>1. {p \in Attendances(c) : g[p] = s} = {p \in Attendances(c) : p[2] = s}
      OBVIOUS
    <3> QED
      BY <1>2, <3>1
  <2> HIDE DEF f, g, all
  <2> QED
    BY <1>1, <1>3, <2>1, <2>2, AttendancesAre, SumOfFibres
<1>5. MapThenSumSet(LAMBDA s : RegisterRow(s, c).attended, all) = (CHOOSE iter : step(iter))[all]
  BY DEF MapThenSumSet, MapThenFoldSet
<1>6. \A iter : step(iter) <=> IsFold(f, all, iter)
  BY DEF IsFold
<1>7. MapThenSumSet(LAMBDA s : RegisterRow(s, c).attended, all) = SumOver(f, all)
  <2> HIDE DEF f, step, all
  <2>1. step(CHOOSE iter : step(iter))
    BY <1>1, <1>3, <1>6, FoldIsSum
  <2>2. IsFold(f, all, CHOOSE iter : step(iter))
    BY <1>6, <2>1
  <2>3. (CHOOSE iter : step(iter))[all] = SumOver(f, all)
    BY <1>1, <1>3, <2>2, FoldIsSum
  <2> QED
    BY <1>5, <2>3
<1>8. ASSUME left = {}
      PROVE  CourseFigure(c).pct <= 1000
  <2>1. /\ IsFiniteSet(Held(c) \X Class(c))
        /\ Cardinality(Held(c) \X Class(c)) = Cardinality(Held(c)) * Cardinality(Class(c))
    BY HeldIs, ClassIsFinite, FS_Product
  <2>2. Attendances(c) \subseteq Held(c) \X Class(c)
    BY <1>8 DEF Attendances
  <2>3. AttendedByAll(c) <= Cardinality(Held(c)) * Cardinality(Class(c))
    BY <2>1, <2>2, FS_Subset, AttendancesAre
  <2>4. PICK a \in Nat, w \in Nat :
          a = AttendedByAll(c) /\ w = Cardinality(Held(c)) * Cardinality(Class(c)) /\ a <= w
    BY <2>3, AttendancesAre, HeldIs, ClassIsFinite
  <2>5. Tenths(a, w) <= 1000
    <3>1. CASE w = 0
      BY <3>1 DEF Tenths
    <3>2. CASE w # 0
      <4>1. PICK q \in Nat : q = Tenths(a, w) /\ w * q \in Nat /\ 2 * (w * q) <= 2000 * a + w
        <5>1. PICK q \in Nat : q = Tenths(a, w)
          BY <3>2, TenthsAre
        <5> QED
          BY <3>2, <5>1, TenthsAre
      <4>2. ASSUME q >= 1001
            PROVE  FALSE
        <5>1. PICK u \in Nat : q = 1001 + u
          BY <4>2, Excess
        <5>2. w * q = 1001 * w + w * u /\ w * u \in Nat
          BY <5>1
        <5> QED
          BY <2>4, <3>2, <4>1, <5>2
      <4> QED
        BY <4>1, <4>2
    <3> QED
      BY <3>1, <3>2
  <2> QED
    BY <2>4, <2>5 DEF CourseFigure
<1> QED
  BY <1>4, <1>7, <1>8

-----------------------------------------------------------------------------
(* The trend of a course *)

LEMMA TrendSum ==
  ASSUME RecordTypeOK, NEW c
  PROVE  /\ Trend(c) \in [Held(c) -> Nat]
         /\ MapThenSumSet(LAMBDA i : Trend(c)[i], Held(c)) = SumOver(Trend(c), Held(c))
<1> DEFINE held == Held(c)
           f == Trend(c)
<1>1. IsFiniteSet(held)
  BY HeldIs
<1>2. f \in [held -> Nat]
  <2>1. ASSUME NEW i \in held
        PROVE  Tenths(Cardinality(Attendees(i)), Cardinality(Class(c))) \in Nat
    <3>1. PICK x \in Nat, k \in Nat : x = Cardinality(Attendees(i)) /\ k = Cardinality(Class(c))
      BY ColumnIsFibre, ClassIsFinite
    <3>2. Tenths(x, k) \in Nat
      BY TenthsGrow
    <3> QED
      BY <3>1, <3>2
  <2> QED
    BY <2>1 DEF Trend
<1>3. MapThenSumSet(LAMBDA i : Trend(c)[i], Held(c)) = (CHOOSE iter : IsFold(f, held, iter))[held]
  BY DEF MapThenSumSet, MapThenFoldSet, IsFold
<1> HIDE DEF f, held
<1>4. IsFold(f, held, CHOOSE iter : IsFold(f, held, iter))
  BY <1>1, <1>2, FoldIsSum
<1>5. (CHOOSE iter : IsFold(f, held, iter))[held] = SumOver(f, held)
  BY <1>1, <1>2, <1>4, FoldIsSum
<1> QED
  BY <1>2, <1>3, <1>5 DEF f, held

LEMMA TrendFollowsAverage ==
  ASSUME RecordTypeOK
  PROVE  TrendAgreesWithAverage
<1> SUFFICES ASSUME NEW c \in Courses, Held(c) # {}
             PROVE  TrendMean(c) - CourseFigure(c).pct \in -1..1
  BY DEF TrendAgreesWithAverage
<1> DEFINE held == Held(c)
           f == Trend(c)
           a == [i \in held |-> Cardinality(Attendees(i))]
           one == [i \in held |-> 1]
<1>1. IsFiniteSet(held)
  BY HeldIs
<1>2. f \in [held -> Nat] /\ a \in [held -> Nat] /\ one \in [held -> Nat]
  BY TrendSum, ColumnIsFibre
<1>3. PICK n \in Nat \ {0}, k \in Nat : n = Cardinality(held) /\ k = Cardinality(Class(c))
  BY <1>1, HeldIs, ClassIsFinite, FS_EmptySet
<1>4. SumOver(a, held) = AttendedByAll(c)
  <2> DEFINE g == [p \in Attendances(c) |-> p[1]]
  <2>1. g \in [Attendances(c) -> held]
    BY DEF Attendances
  <2>2. ASSUME NEW i \in held
        PROVE  a[i] = Cardinality({p \in Attendances(c) : g[p] = i})
    <3>1. {p \in Attendances(c) : g[p] = i} = {p \in Attendances(c) : p[1] = i}
      OBVIOUS
    <3> QED
      BY <3>1, ColumnIsFibre
  <2> HIDE DEF a, g, held
  <2> QED
    BY <1>1, <1>2, <2>1, <2>2, AttendancesAre, SumOfFibres
<1>5. SumOver(one, held) = n
  BY <1>1, <1>3, SumOfOnes
<1>6. PICK s \in Nat, t \in Nat : s = SumOver(f, held) /\ t = SumOver(a, held)
  BY <1>1, <1>2, SumGrows
<1>7. /\ TrendMean(c) = (2 * s + n) \div (2 * n)
      /\ CourseFigure(c).pct = Tenths(t, n * k)
  BY <1>3, <1>4, <1>6, TrendSum DEF TrendMean, CourseFigure
<1>8. \A i \in held : a[i] \in Nat /\ one[i] = 1 /\ f[i] \in Nat /\ f[i] = Tenths(a[i], k)
  BY <1>2, <1>3 DEF Trend
<1>9. CASE k = 0
  <2>1. \A i \in held : f[i] = 0
    BY <1>8, <1>9 DEF Tenths
  <2> DEFINE z == [i \in held |-> 0]
  <2>2. s = 0
    <3>1. z \in [held -> Nat] /\ Combines(held, f, 0, z, 0, z)
      BY <2>1 DEF Combines
    <3> HIDE DEF f, held, z
    <3>2. SumOver(f, held) = 0 * SumOver(z, held) + 0 * SumOver(z, held)
      BY <1>1, <1>2, <3>1, SumLinear
    <3>3. SumOver(z, held) \in Nat
      BY <1>1, <3>1, SumGrows
    <3> QED
      BY <1>6, <3>2, <3>3
  <2>3. n \div (2 * n) = 0
    <3>1. PICK d \in Nat \ {0} : d = 2 * n
      OBVIOUS
    <3>2. PICK q \in Nat : q = n \div d /\ d * q <= n
      BY <3>1, QuotientIs
    <3>3. ASSUME q >= 1
          PROVE  FALSE
      <4>1. PICK u \in Nat : q = 1 + u
        BY <3>3, Excess
      <4>2. d * q = d + d * u /\ d * u \in Nat
        BY <4>1
      <4> QED
        BY <3>1, <3>2, <4>2
    <3> QED
      BY <3>1, <3>2, <3>3
  <2>4. TrendMean(c) = 0
    <3>1. 2 * s + n = n
      BY <2>2
    <3> QED
      BY <1>7, <2>3, <3>1
  <2>5. CourseFigure(c).pct = 0
    <3>1. n * k = 0
      BY <1>9
    <3> QED
      BY <1>7, <3>1 DEF Tenths
  <2> QED
    BY <2>4, <2>5
<1>10. CASE k # 0
  <2>1. PICK d \in Nat, o \in Nat : d = 2 * k /\ o = 0
    OBVIOUS
  <2> HIDE DEF f, a, one, held
  <2> DEFINE low == [i \in held |-> d * f[i] + o * one[i]]
             mid == [i \in held |-> 2000 * a[i] + k * one[i]]
             high == [i \in held |-> d * f[i] + d * one[i]]
  <2>2. ASSUME NEW i \in held
        PROVE  /\ low[i] \in Nat /\ mid[i] \in Nat /\ high[i] \in Nat
               /\ low[i] <= mid[i] /\ mid[i] <= high[i]
    <3>1. PICK x \in Nat, y \in Nat : x = a[i] /\ y = f[i] /\ y = Tenths(x, k) /\ one[i] = 1
      BY <1>8
    <3>2. PICK ky \in Nat : ky = k * y
      OBVIOUS
    <3>3. 2 * ky <= 2000 * x + k /\ 2000 * x + k <= 2 * ky + 2 * k
      BY <1>10, <3>1, <3>2, TenthsBetween
    <3>4. d * y = 2 * ky /\ k * 1 = k /\ d * 1 = 2 * k /\ o * 1 = 0
      BY <2>1, <3>2
    <3>5. low[i] = d * y + o * 1 /\ mid[i] = 2000 * x + k * 1 /\ high[i] = d * y + d * 1
      <4>1. /\ low[i] = d * f[i] + o * one[i]
            /\ mid[i] = 2000 * a[i] + k * one[i]
            /\ high[i] = d * f[i] + d * one[i]
        OBVIOUS
      <4>2. a[i] = x /\ f[i] = y /\ one[i] = 1
        BY <3>1
      <4> HIDE DEF low, mid, high
      <4>3. low[i] = d * y + o * 1
        BY <4>1, <4>2
      <4>4. mid[i] = 2000 * x + k * 1
        BY <4>1, <4>2
      <4>5. high[i] = d * y + d * 1
        BY <4>1, <4>2
      <4> QED
        BY <4>3, <4>4, <4>5
    <3>6. low[i] = 2 * ky /\ mid[i] = 2000 * x + k /\ high[i] = 2 * ky + 2 * k
      <4> HIDE DEF low, mid, high
      <4> QED
        BY <3>4, <3>5
    <3> HIDE DEF low, mid, high
    <3> QED
      BY <3>3, <3>6
  <2>3. /\ low \in [held -> Nat] /\ mid \in [held -> Nat] /\ high \in [held -> Nat]
        /\ Combines(held, low, d, f, o, one)
        /\ Combines(held, mid, 2000, a, k, one)
        /\ Combines(held, high, d, f, d, one)
    BY <2>2 DEF Combines
  <2> HIDE DEF low, mid, high
  <2>4. SumOver(low, held) <= SumOver(mid, held) /\ SumOver(mid, held) <= SumOver(high, held)
    BY <1>1, <2>2, <2>3, SumMonotone
  <2>5. SumOver(low, held) = d * s + o * n
    BY <1>1, <1>2, <1>5, <1>6, <2>3, SumLinear
  <2>6. SumOver(mid, held) = 2000 * t + k * n
    BY <1>1, <1>2, <1>5, <1>6, <2>3, SumLinear
  <2>7. SumOver(high, held) = d * s + d * n
    BY <1>1, <1>2, <1>5, <1>6, <2>3, SumLinear
  <2>8. d * s = 2 * (k * s) /\ k * n = n * k /\ d * n = 2 * (n * k) /\ o * n = 0 /\ 2 * (k * s) \in Nat
    BY <2>1
  <2>9. 2 * (k * s) <= 2000 * t + n * k /\ 2000 * t + n * k <= 2 * (k * s) + 2 * (n * k)
    BY <2>4, <2>5, <2>6, <2>7, <2>8
  <2>10. MeanIsClose(n, k, t, s)
    BY <1>10, <2>9, MeanAgainstWhole
  <2> QED
    BY <1>7, <2>10 DEF MeanIsClose
<1> QED
  BY <1>9, <1>10

-----------------------------------------------------------------------------
(* The head of department's list *)

LEMMA CoursesAreFinite ==
  ASSUME NEW S, S \subseteq Courses
  PROVE  IsFiniteSet(S)
BY RecordAssumption, FS_Subset

LEMMA MyCoursesAreFinite ==
  ASSUME NEW s
  PROVE  IsFiniteSet(MyCourses(s)) /\ IsFiniteSet(HodCourses(s)) /\ HodCourses(s) \subseteq MyCourses(s)
<1>1. MyCourses(s) \subseteq Courses /\ HodCourses(s) \subseteq Courses
  BY DEF MyCourses, HodCourses
<1> QED
  BY <1>1, CoursesAreFinite DEF HodCourses

LEMMA MyRowIs ==
  ASSUME RecordTypeOK, NEW s \in Students, NEW c
  PROVE  /\ MyRow(s, c).attended = Attended(s, c) /\ MyRow(s, c).total = Cardinality(Held(c))
         /\ Attended(s, c) \in Nat /\ Cardinality(Held(c)) \in Nat
         /\ Held(c) = {} => Attended(s, c) = 0 /\ Cardinality(Held(c)) = 0
         /\ Held(c) # {} => Cardinality(Held(c)) > 0
<1>1. MyRow(s, c).attended = Attended(s, c) /\ MyRow(s, c).total = Cardinality(Held(c))
  BY DEF MyRow
<1>2. Held(c) = {} <=> Cardinality(Held(c)) = 0
  BY HeldIs, FS_EmptySet
<1> QED
  BY <1>1, <1>2, AttendedIs, HeldIs

LEMMA MyAttendedSum ==
  ASSUME RecordTypeOK, NEW s \in Students
  PROVE  LET f == [c \in MyCourses(s) |-> MyRow(s, c).attended]
         IN  /\ f \in [MyCourses(s) -> Nat]
             /\ MapThenSumSet(LAMBDA c : MyRow(s, c).attended, MyCourses(s)) = SumOver(f, MyCourses(s))
<1> DEFINE S == MyCourses(s)
           f == [c \in S |-> MyRow(s, c).attended]
           step(iter) == iter = [T \in SUBSET S |->
                                   IF T = {} THEN 0
                                   ELSE MyRow(s, CHOOSE c \in T : TRUE).attended + iter[T \ {CHOOSE c \in T : TRUE}]]
<1>1. IsFiniteSet(S) /\ f \in [S -> Nat]
  BY MyCoursesAreFinite, MyRowIs
<1>2. MapThenSumSet(LAMBDA c : MyRow(s, c).attended, S) = (CHOOSE iter : step(iter))[S]
  BY DEF MapThenSumSet, MapThenFoldSet
<1>3. \A iter : step(iter) <=> IsFold(f, S, iter)
  BY DEF IsFold
<1> HIDE DEF step, f, S
<1>4. step(CHOOSE iter : step(iter))
  BY <1>1, <1>3, FoldIsSum
<1>5. IsFold(f, S, CHOOSE iter : step(iter))
  BY <1>3, <1>4
<1>6. MapThenSumSet(LAMBDA c : MyRow(s, c).attended, S) = SumOver(f, S)
  BY <1>1, <1>2, <1>5, FoldIsSum
<1> QED
  BY <1>1, <1>6 DEF f, S

LEMMA MyTotalSum ==
  ASSUME RecordTypeOK, NEW s \in Students
  PROVE  LET f == [c \in MyCourses(s) |-> MyRow(s, c).total]
         IN  /\ f \in [MyCourses(s) -> Nat]
             /\ MapThenSumSet(LAMBDA c : MyRow(s, c).total, MyCourses(s)) = SumOver(f, MyCourses(s))
<1> DEFINE S == MyCourses(s)
           f == [c \in S |-> MyRow(s, c).total]
           step(iter) == iter = [T \in SUBSET S |->
                                   IF T = {} THEN 0
                                   ELSE MyRow(s, CHOOSE c \in T : TRUE).total + iter[T \ {CHOOSE c \in T : TRUE}]]
<1>1. IsFiniteSet(S) /\ f \in [S -> Nat]
  BY MyCoursesAreFinite, MyRowIs
<1>2. MapThenSumSet(LAMBDA c : MyRow(s, c).total, S) = (CHOOSE iter : step(iter))[S]
  BY DEF MapThenSumSet, MapThenFoldSet
<1>3. \A iter : step(iter) <=> IsFold(f, S, iter)
  BY DEF IsFold
<1> HIDE DEF step, f, S
<1>4. step(CHOOSE iter : step(iter))
  BY <1>1, <1>3, FoldIsSum
<1>5. IsFold(f, S, CHOOSE iter : step(iter))
  BY <1>3, <1>4
<1>6. MapThenSumSet(LAMBDA c : MyRow(s, c).total, S) = SumOver(f, S)
  BY <1>1, <1>2, <1>5, FoldIsSum
<1> QED
  BY <1>1, <1>6 DEF f, S

LEMMA HodAttendedSum ==
  ASSUME RecordTypeOK, NEW s \in Students
  PROVE  LET f == [c \in HodCourses(s) |-> Attended(s, c)]
         IN  /\ f \in [HodCourses(s) -> Nat]
             /\ MapThenSumSet(LAMBDA c : Attended(s, c), HodCourses(s)) = SumOver(f, HodCourses(s))
<1> DEFINE S == HodCourses(s)
           f == [c \in S |-> Attended(s, c)]
           step(iter) == iter = [T \in SUBSET S |->
                                   IF T = {} THEN 0
                                   ELSE Attended(s, CHOOSE c \in T : TRUE) + iter[T \ {CHOOSE c \in T : TRUE}]]
<1>1. IsFiniteSet(S) /\ f \in [S -> Nat]
  BY MyCoursesAreFinite, MyRowIs
<1>2. MapThenSumSet(LAMBDA c : Attended(s, c), S) = (CHOOSE iter : step(iter))[S]
  BY DEF MapThenSumSet, MapThenFoldSet
<1>3. \A iter : step(iter) <=> IsFold(f, S, iter)
  BY DEF IsFold
<1> HIDE DEF step, f, S
<1>4. step(CHOOSE iter : step(iter))
  BY <1>1, <1>3, FoldIsSum
<1>5. IsFold(f, S, CHOOSE iter : step(iter))
  BY <1>3, <1>4
<1>6. MapThenSumSet(LAMBDA c : Attended(s, c), S) = SumOver(f, S)
  BY <1>1, <1>2, <1>5, FoldIsSum
<1> QED
  BY <1>1, <1>6 DEF f, S

LEMMA HodTotalSum ==
  ASSUME RecordTypeOK, NEW s \in Students
  PROVE  LET f == [c \in HodCourses(s) |-> Cardinality(Held(c))]
         IN  /\ f \in [HodCourses(s) -> Nat]
             /\ MapThenSumSet(LAMBDA c : Cardinality(Held(c)), HodCourses(s)) = SumOver(f, HodCourses(s))
<1> DEFINE S == HodCourses(s)
           f == [c \in S |-> Cardinality(Held(c))]
           step(iter) == iter = [T \in SUBSET S |->
                                   IF T = {} THEN 0
                                   ELSE Cardinality(Held(CHOOSE c \in T : TRUE)) + iter[T \ {CHOOSE c \in T : TRUE}]]
<1>1. IsFiniteSet(S) /\ f \in [S -> Nat]
  BY MyCoursesAreFinite, MyRowIs
<1>2. MapThenSumSet(LAMBDA c : Cardinality(Held(c)), S) = (CHOOSE iter : step(iter))[S]
  BY DEF MapThenSumSet, MapThenFoldSet
<1>3. \A iter : step(iter) <=> IsFold(f, S, iter)
  BY DEF IsFold
<1> HIDE DEF step, f, S
<1>4. step(CHOOSE iter : step(iter))
  BY <1>1, <1>3, FoldIsSum
<1>5. IsFold(f, S, CHOOSE iter : step(iter))
  BY <1>3, <1>4
<1>6. MapThenSumSet(LAMBDA c : Cardinality(Held(c)), S) = SumOver(f, S)
  BY <1>1, <1>2, <1>5, FoldIsSum
<1> QED
  BY <1>1, <1>6 DEF f, S

LEMMA HodAgrees ==
  ASSUME RecordTypeOK
  PROVE  HodFlagsTheLow
<1> SUFFICES ASSUME NEW s \in Students
             PROVE  /\ HodFlags(s) => OverallRate(s) < 10 * Threshold
                    /\ HodCourses(s) # {} /\ OverallRate(s) < 10 * Threshold - 5 => HodFlags(s)
  BY DEF HodFlagsTheLow
<1> DEFINE M == MyCourses(s)
           H == HodCourses(s)
           a == [c \in M |-> MyRow(s, c).attended]
           w == [c \in M |-> MyRow(s, c).total]
           b == [c \in H |-> Attended(s, c)]
           v == [c \in H |-> Cardinality(Held(c))]
<1>1. /\ a \in [M -> Nat] /\ w \in [M -> Nat] /\ b \in [H -> Nat] /\ v \in [H -> Nat]
      /\ OverallRate(s) = Tenths(SumOver(a, M), SumOver(w, M))
      /\ HodOverall(s) = Points(SumOver(b, H), SumOver(v, H))
  BY MyAttendedSum, MyTotalSum, HodAttendedSum, HodTotalSum DEF OverallRate, HodOverall
<1>2. IsFiniteSet(M) /\ IsFiniteSet(H) /\ H \in SUBSET M
  BY MyCoursesAreFinite
<1>3. /\ \A c \in H : b[c] = a[c] /\ v[c] = w[c] /\ v[c] > 0
      /\ \A c \in M \ H : a[c] = 0 /\ w[c] = 0
  <2>1. \A c \in H : b[c] = a[c] /\ v[c] = w[c]
    BY <1>2, MyRowIs
  <2>2. \A c \in H : Held(c) # {}
    BY DEF HodCourses
  <2>3. \A c \in H : v[c] > 0
    BY <2>2, MyRowIs
  <2>4. \A c \in M \ H : Held(c) = {}
    BY DEF HodCourses
  <2>5. \A c \in M \ H : a[c] = 0 /\ w[c] = 0
    BY <2>4, MyRowIs
  <2> QED
    BY <2>1, <2>3, <2>5
<1> HIDE DEF a, b, w, v, M, H
<1>4. SumOver(a, M) = SumOver(b, H) /\ SumOver(w, M) = SumOver(v, H)
  BY <1>1, <1>2, <1>3, SumWithoutZeros
<1>5. PICK x \in Nat, y \in Nat : x = SumOver(b, H) /\ y = SumOver(v, H)
  BY <1>1, <1>2, SumGrows
<1>6. ASSUME H # {}
      PROVE  y # 0
  <2> DEFINE z == [c \in H |-> 0]
  <2>1. z \in [H -> Nat] /\ \A c \in H : z[c] <= v[c] /\ z[c] < v[c]
    BY <1>1, <1>3
  <2> HIDE DEF z
  <2>2. SumOver(z, H) < SumOver(v, H)
    BY <1>1, <1>2, <1>6, <2>1, SumMonotone
  <2>3. SumOver(z, H) \in Nat
    BY <1>2, <2>1, SumGrows
  <2> QED
    BY <1>5, <2>2, <2>3
<1>7. ASSUME H # {}
      PROVE  /\ Points(x, y) < Threshold => Tenths(x, y) < 10 * Threshold
             /\ Tenths(x, y) < 10 * Threshold - 5 => Points(x, y) < Threshold
  <2>1. Threshold \in Nat \ {0}
    BY FiguresAssumption
  <2> QED
    BY <1>6, <1>7, <2>1, PointsAgainstTenths
<1>8. HodFlags(s) <=> H # {} /\ Points(x, y) < Threshold
  BY <1>1, <1>5 DEF HodFlags, H
<1>9. OverallRate(s) = Tenths(x, y)
  BY <1>1, <1>4, <1>5
<1> QED
  BY <1>7, <1>8, <1>9 DEF H

-----------------------------------------------------------------------------
(* The rate of a department *)

\* A figure above a bound, and one below it, multiplied out.
LEMMA TenthsAbove ==
  ASSUME NEW a \in Nat, NEW w \in Nat, NEW q \in Nat, w # 0 => q <= Tenths(a, w)
  PROVE  2 * (q * w) <= 2000 * a + w
<1>1. CASE w = 0
  BY <1>1
<1>2. CASE w # 0
  <2>1. PICK p \in Nat : p = Tenths(a, w)
    BY <1>2, TenthsAre
  <2>2. PICK wp \in Nat : wp = w * p
    OBVIOUS
  <2>3. 2 * wp <= 2000 * a + w
    BY <1>2, <2>1, <2>2, TenthsBetween
  <2>4. PICK u \in Nat : p = q + u
    BY <1>2, <2>1, Excess
  <2>5. wp = q * w + w * u /\ w * u \in Nat /\ q * w \in Nat
    BY <2>2, <2>4
  <2> QED
    BY <2>3, <2>5
<1> QED
  BY <1>1, <1>2

LEMMA TenthsBelow ==
  ASSUME NEW a \in Nat, NEW w \in Nat, NEW q \in Nat, w # 0 => Tenths(a, w) < q, w = 0 => a = 0
  PROVE  /\ 2000 * a + w <= 2 * (q * w)
         /\ w # 0 => 2000 * a + w < 2 * (q * w)
<1>1. CASE w = 0
  BY <1>1
<1>2. CASE w # 0
  <2>1. PICK p \in Nat : p = Tenths(a, w)
    BY <1>2, TenthsAre
  <2>2. PICK wp \in Nat : wp = w * p
    OBVIOUS
  <2>3. 2000 * a + w < 2 * wp + 2 * w
    BY <1>2, <2>1, <2>2, TenthsBetween
  <2>4. PICK u \in Nat : q = p + 1 + u
    <3>1. p + 1 <= q /\ p + 1 \in Int /\ q \in Int
      BY <1>2, <2>1
    <3> QED
      BY <3>1, Excess
  <2>5. q * w = wp + w + w * u /\ w * u \in Nat
    BY <2>2, <2>4
  <2> QED
    BY <2>3, <2>5
<1> QED
  BY <1>1, <1>2

\* Rates of parts against the rate of the whole: it is below none of them only
\* if it is above none, parts of nothing among them left aside.
LEMMA WholeIsBetween ==
  ASSUME NEW S, IsFiniteSet(S), NEW a \in [S -> Nat], NEW w \in [S -> Nat],
         NEW x \in S, w[x] # 0
  PROVE  /\ \E c \in S : w[c] # 0 /\ Tenths(a[c], w[c]) <= Tenths(SumOver(a, S), SumOver(w, S))
         /\ \/ \E c \in S : w[c] # 0 /\ Tenths(a[c], w[c]) >= Tenths(SumOver(a, S), SumOver(w, S))
            \/ \E c \in S : w[c] = 0 /\ a[c] # 0
<1> DEFINE z == [c \in S |-> 0]
<1>1. z \in [S -> Nat] /\ (\A c \in S : z[c] <= w[c]) /\ \E c \in S : z[c] < w[c]
  <2>1. \A c \in S : w[c] \in Nat
    OBVIOUS
  <2> QED
    BY <2>1
<1> HIDE DEF z
<1>2. PICK A \in Nat, W \in Nat \ {0} : A = SumOver(a, S) /\ W = SumOver(w, S)
  <2>1. SumOver(z, S) < SumOver(w, S) /\ SumOver(z, S) \in Nat
    BY <1>1, SumMonotone, SumGrows
  <2>2. SumOver(a, S) \in Nat /\ SumOver(w, S) \in Nat
    BY SumGrows
  <2> QED
    BY <2>1, <2>2
<1>3. PICK Q \in Nat : Q = Tenths(A, W)
  BY TenthsAre
<1>4. PICK WQ \in Nat : WQ = W * Q
  OBVIOUS
<1>5. 2 * WQ <= 2000 * A + W /\ 2000 * A + W < 2 * WQ + 2 * W
  BY <1>3, <1>4, TenthsBetween
<1>6. \A c \in S : a[c] \in Nat /\ w[c] \in Nat /\ Tenths(a[c], w[c]) \in Nat
  BY TenthsGrow
<1> DEFINE both == [c \in S |-> 2000 * a[c] + 1 * w[c]]
<1>7. both \in [S -> Nat] /\ SumOver(both, S) = 2000 * A + W
  <2> DEFINE one == 1
  <2>1. both \in [S -> Nat] /\ Combines(S, both, 2000, a, one, w) /\ one \in Nat
    BY <1>6 DEF Combines
  <2> HIDE DEF both, one
  <2>2. SumOver(both, S) = 2000 * SumOver(a, S) + one * SumOver(w, S)
    BY <2>1, SumLinear
  <2>3. one * W = W
    BY DEF one
  <2> QED
    BY <1>2, <2>1, <2>2, <2>3
<1>8. \A c \in S : both[c] = 2000 * a[c] + w[c]
  BY <1>6
<1>9. ASSUME \A c \in S : w[c] # 0 => Q + 1 <= Tenths(a[c], w[c])
      PROVE  FALSE
  <2>1. PICK d \in Nat, o \in Nat, q \in Nat : d = 2 * (Q + 1) /\ o = 0 /\ q = Q + 1
    OBVIOUS
  <2> DEFINE low == [c \in S |-> d * w[c] + o * w[c]]
  <2>2. low \in [S -> Nat] /\ Combines(S, low, d, w, o, w)
    BY <1>6 DEF Combines
  <2>3. ASSUME NEW c \in S
        PROVE  low[c] <= both[c]
    <3>1. PICK y \in Nat, v \in Nat : y = a[c] /\ v = w[c]
      BY <1>6
    <3>2. v # 0 => q <= Tenths(y, v)
      BY <1>9, <2>1, <3>1
    <3>3. 2 * (q * v) <= 2000 * y + v
      BY <3>2, TenthsAbove
    <3>4. d * v + o * v = 2 * (q * v)
      BY <2>1
    <3>5. low[c] = d * w[c] + o * w[c]
      OBVIOUS
    <3> HIDE DEF low, both
    <3> QED
      BY <1>8, <3>1, <3>3, <3>4, <3>5
  <2> HIDE DEF low, both
  <2>4. SumOver(low, S) <= SumOver(both, S)
    BY <1>7, <2>2, <2>3, SumMonotone
  <2>5. SumOver(low, S) = d * W + o * W
    BY <1>2, <2>2, SumLinear
  <2>6. d * W + o * W = 2 * WQ + 2 * W
    BY <1>4, <2>1
  <2> QED
    BY <1>5, <1>7, <2>4, <2>5, <2>6
<1>10. ASSUME \A c \in S : w[c] # 0 => Tenths(a[c], w[c]) < Q,
              \A c \in S : w[c] = 0 => a[c] = 0
       PROVE  FALSE
  <2>1. PICK d \in Nat, o \in Nat : d = 2 * Q /\ o = 0
    OBVIOUS
  <2> DEFINE high == [c \in S |-> d * w[c] + o * w[c]]
  <2>2. high \in [S -> Nat] /\ Combines(S, high, d, w, o, w)
    BY <1>6 DEF Combines
  <2>3. ASSUME NEW c \in S
        PROVE  both[c] <= high[c] /\ (w[c] # 0 => both[c] < high[c])
    <3>1. PICK y \in Nat, v \in Nat : y = a[c] /\ v = w[c]
      BY <1>6
    <3>2. (v # 0 => Tenths(y, v) < Q) /\ (v = 0 => y = 0)
      BY <1>10, <3>1
    <3>3. 2000 * y + v <= 2 * (Q * v) /\ (v # 0 => 2000 * y + v < 2 * (Q * v))
      BY <3>2, TenthsBelow
    <3>4. d * v + o * v = 2 * (Q * v)
      BY <2>1
    <3>5. high[c] = d * w[c] + o * w[c]
      OBVIOUS
    <3> HIDE DEF high, both
    <3> QED
      BY <1>8, <3>1, <3>3, <3>4, <3>5
  <2> HIDE DEF high, both
  <2>4. SumOver(both, S) < SumOver(high, S)
    BY <1>7, <2>2, <2>3, SumMonotone
  <2>5. SumOver(high, S) = d * W + o * W
    BY <1>2, <2>2, SumLinear
  <2>6. d * W + o * W = 2 * WQ
    BY <1>4, <2>1
  <2> QED
    BY <1>5, <1>7, <2>4, <2>5, <2>6
<1>11. \E c \in S : w[c] # 0 /\ Tenths(a[c], w[c]) <= Q
  <2>1. PICK c \in S : w[c] # 0 /\ ~(Q + 1 <= Tenths(a[c], w[c]))
    BY <1>9
  <2> QED
    BY <1>6, <2>1
<1>12. \/ \E c \in S : w[c] # 0 /\ Tenths(a[c], w[c]) >= Q
       \/ \E c \in S : w[c] = 0 /\ a[c] # 0
  <2>1. CASE \E c \in S : w[c] = 0 /\ a[c] # 0
    BY <2>1
  <2>2. CASE \A c \in S : w[c] = 0 => a[c] = 0
    <3>1. PICK c \in S : w[c] # 0 /\ ~(Tenths(a[c], w[c]) < Q)
      BY <1>10, <2>2
    <3> QED
      BY <1>6, <3>1
  <2> QED
    BY <2>1, <2>2
<1> QED
  BY <1>2, <1>3, <1>11, <1>12

LEMMA ShareIs ==
  ASSUME RecordTypeOK, NEW c
  PROVE  /\ AttendedByAll(c) \in Nat
         /\ Cardinality(Held(c)) * Cardinality(Class(c)) \in Nat
         /\ Cardinality(Held(c)) * Cardinality(Class(c)) = 0 /\ AttendedByAll(c) # 0 => Class(c) = {}
<1>1. PICK h \in Nat, k \in Nat : h = Cardinality(Held(c)) /\ k = Cardinality(Class(c))
  BY HeldIs, ClassIsFinite
<1>2. h = 0 => AttendedByAll(c) = 0
  <2>1. SUFFICES ASSUME h = 0 PROVE AttendedByAll(c) = 0
    OBVIOUS
  <2>2. Held(c) = {}
    BY <1>1, <2>1, HeldIs, FS_EmptySet
  <2>3. Attendances(c) = {}
    BY <2>2 DEF Attendances
  <2> QED
    BY <2>3, AttendancesAre, FS_EmptySet
<1>3. k = 0 => Class(c) = {}
  BY <1>1, ClassIsFinite, FS_EmptySet
<1>4. h * k \in Nat /\ (h * k = 0 => h = 0 \/ k = 0)
  OBVIOUS
<1> QED
  BY <1>1, <1>2, <1>3, <1>4, AttendancesAre

LEMMA DepartmentAttendedSum ==
  ASSUME RecordTypeOK, NEW courses, courses \subseteq Courses
  PROVE  LET f == [c \in courses |-> AttendedByAll(c)]
         IN  /\ f \in [courses -> Nat]
             /\ MapThenSumSet(LAMBDA c : AttendedByAll(c), courses) = SumOver(f, courses)
<1> DEFINE S == courses
           f == [c \in S |-> AttendedByAll(c)]
           step(iter) == iter = [T \in SUBSET S |->
                                   IF T = {} THEN 0
                                   ELSE AttendedByAll(CHOOSE c \in T : TRUE) + iter[T \ {CHOOSE c \in T : TRUE}]]
<1>1. IsFiniteSet(S) /\ f \in [S -> Nat]
  BY CoursesAreFinite, ShareIs
<1>2. MapThenSumSet(LAMBDA c : AttendedByAll(c), S) = (CHOOSE iter : step(iter))[S]
  BY DEF MapThenSumSet, MapThenFoldSet
<1>3. \A iter : step(iter) <=> IsFold(f, S, iter)
  BY DEF IsFold
<1> HIDE DEF step, f, S
<1>4. step(CHOOSE iter : step(iter))
  BY <1>1, <1>3, FoldIsSum
<1>5. IsFold(f, S, CHOOSE iter : step(iter))
  BY <1>3, <1>4
<1>6. MapThenSumSet(LAMBDA c : AttendedByAll(c), S) = SumOver(f, S)
  BY <1>1, <1>2, <1>5, FoldIsSum
<1> QED
  BY <1>1, <1>6 DEF f, S

LEMMA DepartmentExpectedSum ==
  ASSUME RecordTypeOK, NEW courses, courses \subseteq Courses
  PROVE  LET f == [c \in courses |-> Cardinality(Held(c)) * Cardinality(Class(c))]
         IN  /\ f \in [courses -> Nat]
             /\ MapThenSumSet(LAMBDA c : Cardinality(Held(c)) * Cardinality(Class(c)), courses)
                  = SumOver(f, courses)
<1> DEFINE S == courses
           f == [c \in S |-> Cardinality(Held(c)) * Cardinality(Class(c))]
           step(iter) == iter = [T \in SUBSET S |->
                                   IF T = {} THEN 0
                                   ELSE Cardinality(Held(CHOOSE c \in T : TRUE)) * Cardinality(Class(CHOOSE c \in T : TRUE)) + iter[T \ {CHOOSE c \in T : TRUE}]]
<1>1. IsFiniteSet(S) /\ f \in [S -> Nat]
  BY CoursesAreFinite, ShareIs
<1>2. MapThenSumSet(LAMBDA c : Cardinality(Held(c)) * Cardinality(Class(c)), S) = (CHOOSE iter : step(iter))[S]
  BY DEF MapThenSumSet, MapThenFoldSet
<1>3. \A iter : step(iter) <=> IsFold(f, S, iter)
  BY DEF IsFold
<1> HIDE DEF step, f, S
<1>4. step(CHOOSE iter : step(iter))
  BY <1>1, <1>3, FoldIsSum
<1>5. IsFold(f, S, CHOOSE iter : step(iter))
  BY <1>3, <1>4
<1>6. MapThenSumSet(LAMBDA c : Cardinality(Held(c)) * Cardinality(Class(c)), S) = SumOver(f, S)
  BY <1>1, <1>2, <1>5, FoldIsSum
<1> QED
  BY <1>1, <1>6 DEF f, S

LEMMA RateAgrees ==
  ASSUME RecordTypeOK
  PROVE  RateWithinTheReport
<1> SUFFICES ASSUME NEW courses \in SUBSET {c \in Courses : semester # NoSemester /\ SemesterOf[c] = semester}
             PROVE  LET report == Report(semester)
                        rated == {c \in courses : report[c].held * report[c].enrolled # 0}
                    IN  rated # {} =>
                          /\ \E c \in rated : report[c].pct <= DepartmentRate(courses)
                          /\ \/ \E c \in rated : report[c].pct >= DepartmentRate(courses)
                             \/ \E c \in courses : Class(c) = {} /\ AttendedByAll(c) # 0
  BY DEF RateWithinTheReport
<1> DEFINE report == Report(semester)
           rated == {c \in courses : report[c].held * report[c].enrolled # 0}
           a == [c \in courses |-> AttendedByAll(c)]
           w == [c \in courses |-> Cardinality(Held(c)) * Cardinality(Class(c))]
<1>1. courses \subseteq Courses /\ IsFiniteSet(courses)
  BY CoursesAreFinite
<1>2. ASSUME NEW c \in courses
      PROVE  report[c] = CourseFigure(c)
  BY DEF Report, InSemester
<1>3. ASSUME NEW c \in courses
      PROVE  /\ a[c] = AttendedByAll(c) /\ w[c] = Cardinality(Held(c)) * Cardinality(Class(c))
             /\ report[c].held * report[c].enrolled = w[c]
             /\ report[c].pct = Tenths(a[c], w[c])
  <2>1. a[c] = AttendedByAll(c) /\ w[c] = Cardinality(Held(c)) * Cardinality(Class(c))
    OBVIOUS
  <2>2. /\ report[c].held = Cardinality(Held(c)) /\ report[c].enrolled = Cardinality(Class(c))
        /\ report[c].pct = Tenths(AttendedByAll(c), Cardinality(Held(c)) * Cardinality(Class(c)))
    <3>1. PICK r : r = report[c]
      OBVIOUS
    <3>2. r = CourseFigure(c)
      BY <1>2, <3>1
    <3> HIDE DEF a, w, report, rated
    <3>3. /\ r.held = Cardinality(Held(c)) /\ r.enrolled = Cardinality(Class(c))
          /\ r.pct = Tenths(AttendedByAll(c), Cardinality(Held(c)) * Cardinality(Class(c)))
      BY <3>2 DEF CourseFigure
    <3> QED
      BY <3>1, <3>3
  <2> HIDE DEF a, w, report
  <2> QED
    BY <2>1, <2>2
<1>4. /\ a \in [courses -> Nat] /\ w \in [courses -> Nat]
      /\ DepartmentRate(courses) = Tenths(SumOver(a, courses), SumOver(w, courses))
  BY <1>1, DepartmentAttendedSum, DepartmentExpectedSum DEF DepartmentRate
<1>5. ASSUME NEW c \in courses, w[c] = 0, a[c] # 0
      PROVE  Class(c) = {} /\ AttendedByAll(c) # 0
  BY <1>3, <1>5, ShareIs
<1>6. rated = {c \in courses : w[c] # 0}
  BY <1>3
<1> HIDE DEF report, rated, a, w
<1> SUFFICES ASSUME NEW x \in rated
             PROVE  /\ \E c \in rated : report[c].pct <= DepartmentRate(courses)
                    /\ \/ \E c \in rated : report[c].pct >= DepartmentRate(courses)
                       \/ \E c \in courses : Class(c) = {} /\ AttendedByAll(c) # 0
  BY DEF report, rated
<1>7. x \in courses /\ w[x] # 0
  BY <1>6
<1>8. /\ \E c \in courses : w[c] # 0 /\ Tenths(a[c], w[c]) <= DepartmentRate(courses)
      /\ \/ \E c \in courses : w[c] # 0 /\ Tenths(a[c], w[c]) >= DepartmentRate(courses)
         \/ \E c \in courses : w[c] = 0 /\ a[c] # 0
  BY <1>1, <1>4, <1>7, WholeIsBetween
<1> QED
  BY <1>3, <1>5, <1>6, <1>8

\* Every page counts a student, a course and a department as the register
\* does, its sums over all the courses and everybody who ever attended
\* included (utils.py 241-262, analytics.py 5-8, dashboard_today.py 183-215).
THEOREM FiguresAlwaysAgree == RecordSpec => []FiguresAgree
<1>1. RecordTypeOK => FiguresAgree
  BY SameFigure, ListIsTheRegister, RiskIsTheRegister, AverageAgrees, TrendFollowsAverage,
     HodAgrees, RateAgrees DEF FiguresAgree
<1> QED
  BY <1>1, RecordTypes, PTL
=============================================================================
