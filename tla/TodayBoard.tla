----------------------------- MODULE TodayBoard ------------------------------
(***************************************************************************)
(* What is on now: the student's Today and the class a tap would go to,    *)
(* the timetable's "happening now", the administration's board of today's  *)
(* classes, and the screen of the reader at each door (api/student.py,     *)
(* utils.py, dashboard_today.py, terminal_status.py).  Each finds "the     *)
(* class" of a course, a slot or a room by a query of its own.             *)
(*                                                                         *)
(* Abstracted: a screen's wording; whether a reader is reachable, which    *)
(* only chooses the group a row is listed under.                           *)
(***************************************************************************)
EXTENDS ClassRecord

CONSTANT LateAfter   \* dashboard_today.LATE_AFTER

\* No two published classes of a course start together (the timetable's
\* checks), so no class matches two slots.
ASSUME BoardAssumption ==
  /\ LateAfter \in Nat
  /\ \A k, l \in DOMAIN Slots :
       /\ Slots[k].published /\ Slots[l].published
       /\ [Slots[k] EXCEPT !.end = 0, !.room = NoRoom] = [Slots[l] EXCEPT !.end = 0, !.room = NoRoom]
       => k = l

NoClass == 0
Today == {i \in Ids : sessions[i].today}
Latest(ids) == IF ids = {} THEN NoClass ELSE Max(ids)
Present(i) == Cardinality({s \in Students : attendance[i][s] \in {"present", "late"}})
EnrolledIn(c) == Cardinality({s \in Students : <<s, c>> \in enrolled})

-----------------------------------------------------------------------------
(* The student *)

\* _active_session_for_student: what the mint binds and the poll looks at.
TapGoesToAny(s) == Latest({i \in Today : sessions[i].running})
TapGoesTo(s) == Latest({i \in Today : sessions[i].running /\ <<s, sessions[i].course>> \in enrolled})

\* get_checkin_status
Poll(s) ==
  LET i == TapGoesTo(s)
  IN  IF i = NoClass THEN "no_active_session"
      ELSE IF Recorded(s, i) THEN "checked_in" ELSE "waiting"

\* current_slot_filter: no filter without an active semester.
ShownSlots == {k \in DOMAIN Slots : Slots[k].published /\ semester \in {NoSemester, Slots[k].semester}}

ShownCourses(s) == {c \in Courses : <<s, c>> \in enrolled /\ InSemester(c, semester)}

\* get_today_schedule: an entry for a slot shows the newest of the course's
\* classes of the day; running classes without a slot follow.
Newest(c) == Latest({i \in Today : sessions[i].course = c})

Entry(s, c, i) ==
  [course |-> c, class |-> i,
   status |-> IF i # NoClass /\ Recorded(s, i) THEN "PRESENT"
              ELSE IF i # NoClass /\ ~sessions[i].running THEN "ABSENT" ELSE "PENDING",
   live |-> i # NoClass /\ sessions[i].running /\ ~Recorded(s, i)]

TodaySchedule(s) ==
  LET covered == {c \in ShownCourses(s) : \E k \in ShownSlots : Slots[k].course = c}
      adHoc == {i \in Today : sessions[i].running /\ sessions[i].course \in ShownCourses(s) \ covered}
  IN  {Entry(s, c, Newest(c)) : c \in covered} \cup {Entry(s, sessions[i].course, i) : i \in adHoc}

-----------------------------------------------------------------------------
(* The timetable page *)

\* session_status_for_course
CourseStatus(c) ==
  IF Newest(c) = NoClass THEN "not_started"
  ELSE IF sessions[Newest(c)].running THEN "live" ELSE "ended"

-----------------------------------------------------------------------------
(* The board of the day *)

BoardSlots == SlotsOf(semester)

\* _match_sessions: the day's first class with the slot's timetable_id, else
\* the first without one that has its course and planned start.
FirstOf(ids) == IF ids = {} THEN NoClass ELSE Min(ids)
Linked(k) == {i \in Today : sessions[i].slot = k}
Unlinked(k) == {i \in Today : /\ sessions[i].slot = NoSlot /\ sessions[i].course = Slots[k].course
                              /\ sessions[i].start = Slots[k].start}

MatchedByCourse(k) == FirstOf({i \in Today : sessions[i].course = Slots[k].course})
Matched(k) == FirstOf(IF Linked(k) # {} THEN Linked(k) ELSE Unlinked(k))

\* _status
SlotStatus(k) ==
  LET i == Matched(k)
  IN  IF i # NoClass THEN IF sessions[i].running THEN "live" ELSE "ended"
      ELSE IF now < Slots[k].start THEN "upcoming"
      ELSE IF now >= Slots[k].end THEN "missed"
      ELSE IF now >= Slots[k].start + LateAfter THEN "late" ELSE "due"

Live == {i \in Today : sessions[i].running}

\* door_board: a row for each slot, then one for each live class without.
SlotRows == {[slot |-> k, class |-> Matched(k), status |-> SlotStatus(k)] : k \in BoardSlots}
OtherRows == {[slot |-> NoSlot, class |-> i, status |-> "live"] :
                i \in Live \ {Matched(k) : k \in BoardSlots}}

-----------------------------------------------------------------------------
(* The reader at a door *)

\* class_room: the room given at the start, else the slot's.
ClassRoom(i) ==
  IF sessions[i].room # NoRoom THEN sessions[i].room
  ELSE IF sessions[i].slot # NoSlot THEN Slots[sessions[i].slot].room ELSE NoRoom

Lit(ids) == LET i == Min(ids)
            IN  [shows |-> "class", what |-> sessions[i].course, more |-> Cardinality(ids) - 1,
                 present |-> Present(i), of |-> EnrolledIn(sessions[i].course)]

Dim(state, ks) == [shows |-> state, what |-> IF ks = {} THEN "nothing" ELSE Slots[Min(ks)].course,
                   more |-> 0, present |-> 0, of |-> 0]

\* status_for, drawn by the firmware: a live class, a class due, the next.
DoorScreen(r) ==
  LET on == {i \in Ids : sessions[i].running /\ ClassRoom(i) = r}
      slots == {k \in SlotsOf(semester) : Slots[k].room = r /\ Slots[k].end > now}
      due == {k \in slots : Slots[k].start <= now}
  IN  IF on # {} THEN Lit(on)
      ELSE IF due # {} THEN Dim("not started", due) ELSE Dim("next", slots \ due)

\* _room_screens: what the board says the reader shows.
BoardScreen(r) ==
  LET roomOf(i) == IF ClassRoom(i) # NoRoom THEN ClassRoom(i)
                   ELSE LET ks == {k \in BoardSlots : Matched(k) = i}
                        IN  IF ks = {} THEN NoRoom ELSE Slots[Min(ks)].room
      on == {i \in Live : roomOf(i) = r}
      slots == {k \in BoardSlots : Slots[k].room = r}
      due == {k \in slots : Matched(k) = NoClass /\ Slots[k].start <= now /\ now < Slots[k].end}
  IN  IF on # {} THEN Lit(on)
      ELSE IF due # {} THEN Dim("not started", due)
      ELSE Dim("next", {k \in slots : Slots[k].start > now})

-----------------------------------------------------------------------------
(* Properties *)

\* Today's list offers a check-in to every student whose tap would be taken:
\* the class the mint binds, if it is not recorded yet and belongs to this
\* semester, is an entry that says so, whether it is on the timetable or not
\* (api/student.py 848-867).
MintableIsVisible ==
  \A s \in Students :
    LET i == TapGoesTo(s)
    IN  i # NoClass /\ ~Recorded(s, i) /\ sessions[i].course \in ShownCourses(s)
          => \E e \in TodaySchedule(s) : e.course = sessions[i].course /\ e.live

\* An entry that offers a check-in is the class the tap goes to, unless the
\* student has another class running.
OfferedIsMintable ==
  \A s \in Students : \A e \in TodaySchedule(s) :
    e.live => \/ e.class = TapGoesTo(s)
              \/ \E i \in Live : i > e.class /\ <<s, sessions[i].course>> \in enrolled

\* What a student is offered and what a tap does are one
\* (get_today_schedule, _active_session_for_student).
TapIsWhatIsShown == MintableIsVisible /\ OfferedIsMintable

\* Every class running today is on the board in exactly one live row.
EveryClassOnTheBoardOnce ==
  \A i \in Live :
    Cardinality({row \in SlotRows \cup OtherRows : row.class = i /\ row.status = "live"}) = 1

\* For a course with one slot today and at most one class, the timetable
\* page and the board tell the same of it (utils.py 97-102).
GridAgreesWithBoard ==
  \A k \in BoardSlots :
    LET c == Slots[k].course
        slots == {l \in BoardSlots : Slots[l].course = c}
        classes == {i \in Today : sessions[i].course = c}
        told == IF SlotStatus(k) \in {"live", "ended"} THEN SlotStatus(k) ELSE "not_started"
    IN  slots = {k} /\ classes \subseteq {Matched(k)} => CourseStatus(c) = told

\* The reader at a door shows what the board says it shows, if no class was
\* left running overnight, and no class timetabled there for now has ended
\* early or is held in another room.
BoardAgreesUnlessOver ==
  \A r \in Rooms :
    \/ \E i \in Ids : Leftover(i)
    \/ \E i \in Live : ClassRoom(i) = NoRoom
    \/ \E k \in BoardSlots : /\ Slots[k].room = r /\ Slots[k].start <= now /\ now < Slots[k].end
                             /\ SlotStatus(k) \in {"live", "ended"}
    \/ DoorScreen(r) = BoardScreen(r)

\* The three pictures of the day, the board's, the grid's and the doors', are
\* of one day (dashboard_today.py, terminal_status.py).
BoardIsTheDay == EveryClassOnTheBoardOnce /\ GridAgreesWithBoard /\ BoardAgreesUnlessOver
=============================================================================
