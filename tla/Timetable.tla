------------------------------ MODULE Timetable ------------------------------
(***************************************************************************)
(* The timetable of one semester: classes an admin adds, changes and       *)
(* removes by hand, classes read from the department's sheets or copied    *)
(* from last year and kept as drafts, the publication that swaps the       *)
(* drafts in, and the notice that follows (blueprints/admin.py,            *)
(* timetable_import.py, timetable_publish.py).                             *)
(*                                                                         *)
(* A handler reads and checks, then commits, then tells the people the     *)
(* change affects: three steps, between which others run.  A commit writes *)
(* the columns the handler changed; an UPDATE of a row that is gone rolls  *)
(* everything back, a DELETE of one does nothing.                          *)
(*                                                                         *)
(* Meanwhile lecturers are put on courses and taken off them, and students *)
(* register and drop, with no look at the timetable and no notice.         *)
(*                                                                         *)
(* Abstracted: a time is an interval of hours of the week; kind and type   *)
(* of a class; how a PDF is read (a plan is any set of classes); which of  *)
(* its lecturers coordinates a course, and how two changes of them race    *)
(* (StaffRoster has both); other semesters, of which only last year's      *)
(* published classes are copied from.                                      *)
(***************************************************************************)
EXTENDS Integers, FiniteSets, SequencesExt

CONSTANTS
  Courses, Rooms, Students, Lecturers,
  Times,          \* intervals <<start, end>>
  Teachings,      \* the ways the courses are shared among the lecturers at first
  Registered,     \* the students registered for each course at first
  LastYear,       \* the published classes of the semester copied from
  Plans,          \* the previews an admin may confirm, stale or edited ones too
  Forms,          \* the classes an admin may enter by hand
  Requests,
  MaxBegun,       \* bound: requests made
  MaxStarted,     \* bound: classes started
  MaxDay          \* bound: days passed

NoRoom == "no room"
Place == Times \X (Rooms \cup {NoRoom})
Class == [course : Courses, time : Times, room : Rooms \cup {NoRoom}]

\* A course has its coordinator at the least: Course.lecturer_id is never NULL.
ASSUME TimetableAssumption ==
  /\ Teachings \subseteq [Courses -> (SUBSET Lecturers) \ {{}}]
  /\ Registered \in [Courses -> SUBSET Students]
  /\ Times \subseteq Nat \X Nat
  /\ LastYear \subseteq Class /\ Forms \subseteq Class /\ Plans \subseteq SUBSET Class
  /\ IsFiniteSet(LastYear) /\ \A plan \in Plans : IsFiniteSet(plan)
  /\ MaxBegun \in Nat /\ MaxStarted \in Nat /\ MaxDay \in Nat

VARIABLES
  slots,          \* timetable: sequence of rows, the id is the place
  sessions,       \* course_id, timetable_id, planned_start, session_date
  offered,        \* courses that exist
  teachers,       \* Course.all_lecturers
  registered,     \* enrollments
  told,           \* the schedule of a course each person was last told
  request,        \* what each request has read, is to commit or to tell
  today,
  begun,
  raced,          \* history: courses written, or told of, by a request that
                  \* another had overtaken
  stripped,       \* history: courses a hand edit took a draft class from
  missed,         \* history: courses of which a notice was lost
  strained,       \* history: pairs of classes that got a lecturer in common
                  \* by a change of lecturers, not edited since
  joined          \* history: who came to a course after its last notice

tables == <<slots, sessions, offered, teachers, registered>>
vars == <<tables, told, request, today, begun, raced, stripped, missed, strained, joined>>

Gone == [course |-> "gone"]
NoDate == -1
NoSlot == 0
Idle == [op |-> "idle"]

Ids == DOMAIN slots
Exists(i) == i \in Ids /\ slots[i] # Gone
Published(i) == Exists(i) /\ slots[i].published
Draft(i) == Exists(i) /\ ~slots[i].published
Key(s) == <<s.course, s.time>>
At(s) == <<s.time, s.room>>

\* published_schedules, schedule_of
Schedule(c) == {At(slots[i]) : i \in {j \in Ids : Published(j) /\ slots[j].course = c}}

\* The students registered for a course and all its lecturers.
Affected(c) == registered[c] \cup teachers[c]

People == Students \cup Lecturers

Slot == [course : Courses, time : Times, room : Rooms \cup {NoRoom},
         published : {TRUE}, since : 0..MaxDay]
          \cup [course : Courses, time : Times, room : Rooms \cup {NoRoom},
                published : {FALSE}, since : {NoDate}]

TypeOK ==
  /\ slots \in Seq(Slot \cup {Gone})
  /\ sessions \in Seq([course : Courses, slot : Nat, start : Nat, date : 0..MaxDay])
  /\ offered \subseteq Courses
  /\ teachers \in [Courses -> (SUBSET Lecturers) \ {{}}]
  /\ registered \in [Courses -> SUBSET Students]
  /\ \A c \in Courses : told[c] \in [People -> SUBSET Place]
  /\ today \in 0..MaxDay /\ begun \in 0..MaxBegun
  /\ raced \cup stripped \cup missed \subseteq Courses
  /\ strained \subseteq Ids \X Ids
  /\ joined \subseteq Courses \X People

-----------------------------------------------------------------------------
(* Clashes *)

Overlap(s, t) == s[1] < t[2] /\ t[1] < s[2]

\* Two classes that cannot both be held.
Clash(a, b) ==
  /\ Overlap(a.time, b.time)
  /\ \/ a.room = b.room /\ a.room # NoRoom
     \/ teachers[a.course] \cap teachers[b.course] # {}

\* _validate_timetable_slot: against every stored class, drafts too.
ValidSlot(class, except) ==
  /\ class.time[1] < class.time[2]
  /\ \A i \in Ids \ {except} : Exists(i) => ~Clash(class, slots[i])

\* _check_clashes against the published classes only.
FitsPublished(plan) ==
  \A a \in plan, i \in Ids :
    Published(i) /\ slots[i].course \notin {b.course : b \in plan} => ~Clash(a, slots[i])

\* _check_clashes: the classes of a plan against those of other courses.
FitsStored(plan) ==
  \A a \in plan, i \in Ids :
    Exists(i) /\ slots[i].course \notin {b.course : b \in plan} => ~Clash(a, slots[i])

\* missing_courses
Missing(plan) == {a.course : a \in plan} \ offered

\* plan_slots and _check: no class of the plan in error.
PlanOk(plan) ==
  /\ Missing(plan) = {}
  /\ \A a \in plan : a.time[1] < a.time[2]
  /\ \A a, b \in plan : a # b =>
       /\ ~Clash(a, b)
       /\ a.course = b.course => ~Overlap(a.time, b.time)
  /\ FitsStored(plan)

\* plan_copy: last year's published classes of the courses there are.
CopyPlan(kept) == {a \in LastYear : a.course \in kept \cap offered}

\* The first in the order of start time, then id.
FirstOf(S) ==
  CHOOSE i \in S : \A j \in S :
    \/ slots[i].time[1] < slots[j].time[1]
    \/ slots[i].time[1] = slots[j].time[1] /\ i <= j

LastOf(S) == CHOOSE i \in S : \A j \in S \ {i} : FirstOf({i, j}) = j

\* resolve_timetable_slot_for_course: the class not over yet that comes first,
\* else the last of the day.
SlotFor(c, now) ==
  LET mine == {i \in Ids : Published(i) /\ slots[i].course = c}
      ahead == {i \in mine : slots[i].time[2] > now}
  IN  IF mine = {} THEN NoSlot
      ELSE IF ahead # {} THEN FirstOf(ahead) ELSE LastOf(mine)

Init ==
  /\ teachers \in Teachings
  /\ \E P \in Plans \cup {{}} :
       /\ \A a \in P : a.time[1] < a.time[2]
       /\ \A a, b \in P : a # b => ~Clash(a, b)
       /\ slots = [i \in 1..Cardinality(P) |->
                    LET s == SetToSeq(P)[i] IN
                    [course |-> s.course, time |-> s.time, room |-> s.room,
                     published |-> TRUE, since |-> 0]]
       /\ offered \in {O \in SUBSET Courses : \A a \in P : a.course \in O}
  /\ sessions = <<>>
  /\ registered = Registered
  /\ told = [c \in Courses |-> [p \in People |-> Schedule(c)]]
  /\ request = [r \in Requests |-> Idle]
  /\ today = 0 /\ begun = 0
  /\ raced = {} /\ stripped = {} /\ missed = {}
  /\ strained = {} /\ joined = {}

-----------------------------------------------------------------------------
(* Requests *)

\* No change is still to be told.
AllTold == \A r \in Requests : request[r].op \notin {"edited", "published"}

\* A handler has made its reads and passed its checks.
Ask(r, job) ==
  /\ request[r] = Idle
  /\ begun < MaxBegun
  /\ begun' = begun + 1
  /\ request' = [request EXCEPT ![r] = job]
  /\ UNCHANGED <<tables, told, today, raced, stripped, missed, strained, joined>>

\* The commit of r went through: every other request under way is overtaken,
\* and r has people to tell or is done.
Committed(r, courses, job) ==
  /\ request' = [q \in Requests |->
       IF q = r THEN job
       ELSE IF request[q] = Idle THEN Idle ELSE [request[q] EXCEPT !.alone = FALSE]]
  /\ raced' = IF request[r].alone THEN raced ELSE raced \cup courses

RolledBack(r) ==
  /\ request' = [request EXCEPT ![r] = Idle]
  /\ UNCHANGED <<tables, told, today, begun, raced, stripped, missed, strained, joined>>

\* After a hand edit the published schedules are read again.
TellNow(courses, before) == [op |-> "edited", courses |-> courses, before |-> before, alone |-> TRUE]

Schedules(courses) == [c \in courses |-> Schedule(c)]

-----------------------------------------------------------------------------
(* Classes by hand: timetable_page *)

\* A class added by hand is published at once and runs from today.
OnTimetable(class) ==
  [course |-> class.course, time |-> class.time, room |-> class.room,
   published |-> TRUE, since |-> today]

BeginCreate(r, class) ==
  /\ class.course \in offered /\ ValidSlot(class, NoSlot)
  /\ Ask(r, [op |-> "create", class |-> class, before |-> Schedules({class.course}),
             alone |-> AllTold])

CommitCreate(r) ==
  /\ request[r].op = "create"
  /\ LET job == request[r]
         c == job.class.course
     IN  /\ slots' = Append(slots, OnTimetable(job.class))
         /\ Committed(r, {c}, TellNow({c}, job.before))
  /\ UNCHANGED <<sessions, offered, teachers, registered, told, today, begun, stripped, missed,
                 strained, joined>>

BeginUpdate(r, i, class) ==
  /\ Exists(i) /\ class.course \in offered /\ ValidSlot(class, i)
  /\ Ask(r, [op |-> "update", id |-> i, class |-> class, seen |-> slots[i],
             before |-> Schedules({slots[i].course, class.course}), alone |-> AllTold])

\* The columns the form changed, and the date if a published class moved.
Updated(now, seen, class) ==
  [course |-> IF class.course = seen.course THEN now.course ELSE class.course,
   time |-> IF class.time = seen.time THEN now.time ELSE class.time,
   room |-> IF class.room = seen.room THEN now.room ELSE class.room,
   published |-> now.published,
   since |-> IF seen.published /\ Key(class) # Key(seen) THEN today ELSE now.since]

CommitUpdate(r) ==
  /\ request[r].op = "update"
  /\ LET job == request[r]
         courses == {job.seen.course, job.class.course}
     IN  \/ /\ Exists(job.id)
            /\ slots' = [slots EXCEPT ![job.id] = Updated(@, job.seen, job.class)]
            /\ Committed(r, courses \cup {slots[job.id].course}, TellNow(courses, job.before))
            /\ stripped' = IF ~job.seen.published /\ job.class.course # job.seen.course
                             THEN stripped \cup {job.seen.course} ELSE stripped
            /\ strained' = {e \in strained : job.id \notin {e[1], e[2]}}
            /\ UNCHANGED <<sessions, offered, teachers, registered, told, today, begun, missed,
                           joined>>
         \/ ~Exists(job.id) /\ RolledBack(r)

\* Sessions whose class goes keep their history, without a class.
Unfiled(those) ==
  [k \in DOMAIN sessions |->
     IF k \in those THEN [sessions[k] EXCEPT !.slot = NoSlot] ELSE sessions[k]]

Detached(gone) == Unfiled({k \in DOMAIN sessions : sessions[k].slot \in gone})

\* The sessions filed under a class.
FiledUnder(i) == {k \in DOMAIN sessions : sessions[k].slot = i}

BeginDelete(r, i) ==
  /\ Exists(i)
  /\ Ask(r, [op |-> "delete", id |-> i, seen |-> slots[i], filed |-> FiledUnder(i),
             before |-> Schedules({slots[i].course}), alone |-> AllTold])

\* The relationship Timetable.sessions has no cascade: deleting the row sets
\* the timetable_id of the sessions that were read to NULL.  A session filed
\* since then holds the row by its foreign key, and nothing is deleted.
CommitDelete(r) ==
  /\ request[r].op = "delete"
  /\ LET job == request[r]
         c == job.seen.course
         fits == FiledUnder(job.id) \subseteq job.filed
     IN  \/ /\ fits
            /\ slots' = [slots EXCEPT ![job.id] = Gone]
            /\ sessions' = Unfiled(job.filed)
            /\ Committed(r, {c} \cup {slots[i].course : i \in {j \in {job.id} : Exists(j)}}
                              \cup {sessions[k].course : k \in job.filed \cap DOMAIN sessions},
                         TellNow({c}, job.before))
            /\ stripped' = IF job.seen.published THEN stripped ELSE stripped \cup {c}
            /\ UNCHANGED <<offered, teachers, registered, told, today, begun, missed, strained,
                           joined>>
         \/ ~fits /\ RolledBack(r)

-----------------------------------------------------------------------------
(* Sheets and copies: timetable_import_confirm *)

BeginSave(r, plan) ==
  /\ plan # {} /\ PlanOk(plan)
  /\ Ask(r, [op |-> "save", plan |-> plan,
             old |-> {i \in Ids : Draft(i) /\ slots[i].course \in {a.course : a \in plan}},
             alone |-> AllTold])

\* apply_plan: the drafts of the plan's courses make way.
CommitSave(r) ==
  /\ request[r].op = "save"
  /\ LET job == request[r]
         courses == {a.course : a \in job.plan}
         kept == [i \in Ids |-> IF i \in job.old THEN Gone ELSE slots[i]]
         drafts == {[course |-> a.course, time |-> a.time, room |-> a.room,
                     published |-> FALSE, since |-> NoDate] : a \in job.plan}
     IN  /\ slots' = kept \o SetToSeq(drafts)
         /\ sessions' = Detached(job.old)
         /\ Committed(r, courses \cup {slots[i].course : i \in {j \in job.old : Exists(j)}}, Idle)
  /\ UNCHANGED <<offered, teachers, registered, told, today, begun, stripped, missed, strained,
                 joined>>

\* The courses a preview misses are uploaded (timetable_import_missing_courses,
\* bulk_upload), and the preview is checked again.
AddMissing(plan) ==
  /\ Missing(plan) # {}
  /\ offered' = offered \cup Missing(plan)
  /\ UNCHANGED <<slots, sessions, teachers, registered, told, request, today, begun, raced,
                 stripped, missed, strained, joined>>

-----------------------------------------------------------------------------
(* Publication: timetable_publish, publish_drafts *)

BeginPublish(r) ==
  LET drafts == {i \in Ids : Draft(i)}
      courses == {slots[i].course : i \in drafts}
  IN  /\ drafts # {}
      /\ Ask(r, [op |-> "publish", drafts |-> drafts, seen |-> slots, courses |-> courses,
                 old |-> {i \in Ids : Published(i) /\ slots[i].course \in courses},
                 before |-> Schedules(courses), alone |-> AllTold])

\* No draft is the class of an old slot again: all run from today.
NoneReissued(job, d) == {}

\* The old slot whose course, day and times a draft repeats.
Reissued(job, d) ==
  {i \in job.old : /\ Key(job.seen[i]) = Key(job.seen[d])
                   /\ \A j \in job.old : Key(job.seen[j]) = Key(job.seen[d]) => i <= j
                   /\ \A e \in job.drafts : Key(job.seen[e]) = Key(job.seen[d]) => d <= e}

\* The draft takes over the sessions of the class it repeats.
TakenOver(job) ==
  [k \in DOMAIN sessions |->
     LET heirs == {d \in job.drafts : sessions[k].slot \in Reissued(job, d)} IN
     IF heirs # {} THEN [sessions[k] EXCEPT !.slot = CHOOSE d \in heirs : TRUE]
     ELSE Detached(job.old)[k]]

\* All old classes of the courses go.
SwappedOut(job) == job.old

CommitPublish(r) ==
  /\ request[r].op = "publish"
  /\ LET job == request[r]
         fits == \A d \in job.drafts : Exists(d)
         after == [c \in job.courses |->
           {At(job.seen[d]) : d \in {e \in job.drafts : job.seen[e].course = c}}]
     IN  \/ /\ fits
            /\ slots' = [i \in Ids |->
                 IF i \in job.drafts
                   THEN [slots[i] EXCEPT
                           !.published = TRUE,
                           !.since = IF Reissued(job, i) = {} THEN today
                                     ELSE job.seen[CHOOSE k \in Reissued(job, i) : TRUE].since]
                 ELSE IF i \in SwappedOut(job) THEN Gone ELSE slots[i]]
            /\ sessions' = TakenOver(job)
            /\ Committed(r, job.courses \cup {slots[i].course : i \in {j \in job.drafts \cup job.old : Exists(j)}},
                 [op |-> "published", courses |-> job.courses, before |-> job.before,
                  after |-> after, alone |-> TRUE])
            /\ UNCHANGED <<offered, teachers, registered, told, today, begun, stripped, missed,
                           strained, joined>>
         \/ ~fits /\ RolledBack(r)

\* What notify_schedule_changes is given: for a publication the schedules it
\* worked out before its commit, for a hand edit those published now.
After(job) == IF job.op = "published" THEN job.after ELSE Schedules(job.courses)

\* Only the courses' first classes are worth a notice.
ChangedNew(job) == {c \in job.courses : job.before[c] = {} /\ After(job)[c] # {}}

\* Every course of the request, changed or not.
ChangedAll(job) == job.courses

Changed(job) == {c \in job.courses : job.before[c] # After(job)[c]}

\* notify_schedule_changes: everyone whose classes changed, in one message.
Tell(r) ==
  /\ request[r].op \in {"edited", "published"}
  /\ LET job == request[r] IN
       /\ told' = [c \in Courses |->
            IF c \in Changed(job)
              THEN [p \in People |-> IF p \in Affected(c) THEN After(job)[c] ELSE told[c][p]]
              ELSE told[c]]
       /\ joined' = {e \in joined : e[1] \notin Changed(job)}
       /\ raced' = IF job.alone THEN raced ELSE raced \cup job.courses
       /\ missed' = missed \ Changed(job)
  /\ request' = [request EXCEPT ![r] = Idle]
  /\ UNCHANGED <<tables, today, begun, stripped, strained>>

\* The server stops, or the notice fails, after the commit: nobody is told and
\* the change stays.
TellFails(r) ==
  /\ request[r].op \in {"edited", "published"}
  /\ missed' = missed \cup request[r].courses
  /\ request' = [request EXCEPT ![r] = Idle]
  /\ UNCHANGED <<tables, told, today, begun, raced, stripped, strained, joined>>

-----------------------------------------------------------------------------
(* Who teaches and who attends *)

\* The requests that are still to commit have checked with other lecturers.
Overtaking ==
  [r \in Requests |->
     IF request[r].op \in {"idle", "edited", "published"} THEN request[r]
     ELSE [request[r] EXCEPT !.alone = FALSE]]

\* The classes that p teaching c brings together.
Straining(c, p) ==
  {e \in Ids \X Ids :
     /\ Exists(e[1]) /\ Exists(e[2])
     /\ ~Clash(slots[e[1]], slots[e[2]])
     /\ Overlap(slots[e[1]].time, slots[e[2]].time)
     /\ \/ slots[e[1]].course = c /\ p \in teachers[slots[e[2]].course]
        \/ slots[e[2]].course = c /\ p \in teachers[slots[e[1]].course]}

\* _manage_course_lecturer: another lecturer or coordinator, who may have
\* another class at the time.
PutOn(c, p) ==
  /\ c \in offered /\ p \notin teachers[c] /\ begun < MaxBegun
  /\ teachers' = [teachers EXCEPT ![c] = @ \cup {p}]
  /\ strained' = strained \cup Straining(c, p)
  /\ joined' = joined \cup {<<c, p>>}
  /\ request' = Overtaking
  /\ begun' = begun + 1
  /\ UNCHANGED <<slots, sessions, offered, registered, told, today, raced, stripped, missed>>

\* .. or one less; a course keeps its coordinator.
TakeOff(c, p) ==
  /\ p \in teachers[c] /\ teachers[c] # {p} /\ begun < MaxBegun
  /\ teachers' = [teachers EXCEPT ![c] = @ \ {p}]
  /\ request' = Overtaking
  /\ begun' = begun + 1
  /\ UNCHANGED <<slots, sessions, offered, registered, told, today, raced, stripped, missed,
                 strained, joined>>

\* register_courses, drop_course
Register(c, p) ==
  /\ c \in offered /\ p \notin registered[c] /\ begun < MaxBegun
  /\ registered' = [registered EXCEPT ![c] = @ \cup {p}]
  /\ joined' = joined \cup {<<c, p>>}
  /\ begun' = begun + 1
  /\ UNCHANGED <<slots, sessions, offered, teachers, told, request, today, raced, stripped, missed,
                 strained>>

Drop(c, p) ==
  /\ p \in registered[c] /\ begun < MaxBegun
  /\ registered' = [registered EXCEPT ![c] = @ \ {p}]
  /\ begun' = begun + 1
  /\ UNCHANGED <<slots, sessions, offered, teachers, told, request, today, raced, stripped, missed,
                 strained, joined>>

-----------------------------------------------------------------------------
(* Teaching *)

\* start_session: the session is filed under the class of the hour.
StartClass(c, now) ==
  /\ c \in offered /\ Len(sessions) < MaxStarted
  /\ SlotFor(c, now) # NoSlot
  /\ sessions' = Append(sessions,
       [course |-> c, slot |-> SlotFor(c, now),
        start |-> slots[SlotFor(c, now)].time[1], date |-> today])
  /\ UNCHANGED <<slots, offered, teachers, registered, told, request, today, begun, raced,
                 stripped, missed, strained, joined>>

NextDay ==
  /\ today < MaxDay
  /\ today' = today + 1
  /\ UNCHANGED <<tables, told, request, begun, raced, stripped, missed, strained, joined>>

\* delivery: the days a class was due, from the first of teaching or from its
\* own start, and those it was held; a session that names no published class
\* counts for the one of its course that starts at its hour.
TeachingStart == Min({sessions[k].date : k \in DOMAIN sessions})

SlotOf(k) ==
  LET s == sessions[k]
      same == {i \in Ids : Published(i) /\ slots[i].course = s.course /\ slots[i].time[1] = s.start}
  IN  IF Published(s.slot) THEN s.slot
      ELSE IF same = {} THEN NoSlot ELSE CHOOSE i \in same : \A j \in same : j <= i

Counted(k) ==
  /\ SlotOf(k) # NoSlot
  /\ sessions[k].date >= slots[SlotOf(k)].since

DueClasses(c) ==
  IF sessions = <<>> THEN 0
  ELSE Cardinality({due \in Ids \X (TeachingStart..today) :
                      /\ Published(due[1]) /\ slots[due[1]].course = c
                      /\ due[2] >= slots[due[1]].since})

HeldClasses(c) ==
  Min({DueClasses(c),
       Cardinality({<<SlotOf(k), sessions[k].date>> :
         k \in {j \in DOMAIN sessions : sessions[j].course = c /\ Counted(j)}})})

-----------------------------------------------------------------------------
Hours == {t[1] : t \in Times}

Next ==
  \/ \E r \in Requests :
       \/ \E class \in Forms : BeginCreate(r, class)
       \/ \E i \in Ids, class \in Forms : BeginUpdate(r, i, class)
       \/ \E i \in Ids : BeginDelete(r, i)
       \/ \E plan \in Plans \cup {CopyPlan(kept) : kept \in SUBSET Courses} : BeginSave(r, plan)
       \/ BeginPublish(r)
       \/ CommitCreate(r) \/ CommitUpdate(r) \/ CommitDelete(r)
       \/ CommitSave(r) \/ CommitPublish(r)
       \/ Tell(r) \/ TellFails(r)
  \/ \E plan \in Plans : AddMissing(plan)
  \/ \E c \in Courses, p \in Lecturers : PutOn(c, p) \/ TakeOff(c, p)
  \/ \E c \in Courses, p \in Students : Register(c, p) \/ Drop(c, p)
  \/ \E c \in Courses, now \in Hours : StartClass(c, now)
  \/ NextDay

Spec == Init /\ [][Next]_vars

-----------------------------------------------------------------------------
(* Properties *)

\* The state is well typed, and no room and no lecturer is published twice at
\* one time, though a plan is checked against stored classes only of courses it
\* leaves alone and lecturers come and go -- but for two edits that overlapped,
\* for a course of which a draft was taken away by hand, as publishing does not
\* check again, and for two classes that a change of lecturers brought together
\* and nobody has edited since (_validate_timetable_slot, _check_clashes,
\* publish_drafts, _manage_course_lecturer).
NoDoubleBooking ==
  /\ TypeOK
  /\ \A i, j \in Ids :
    i # j /\ Published(i) /\ Published(j) /\ Clash(slots[i], slots[j]) =>
      \/ {slots[i].course, slots[j].course} \cap (raced \cup stripped) # {}
      \/ <<i, j>> \in strained

\* Whoever a course concerns was last told the schedule that is published,
\* unless a notice was lost or two overtook each other -- but for those who came
\* to the course since, whom nobody tells
\* (notify_schedule_changes: "each affected person").
LastWordIsCurrent ==
  \A c \in Courses \ (raced \cup missed) :
    AllTold => \A p \in Affected(c) : <<c, p>> \in joined \/ told[c][p] = Schedule(c)

\* A session is filed under a class that is on the timetable, or under none
\* (publish_drafts, apply_plan, Timetable.sessions).
SessionsHaveTheirClass ==
  \A k \in DOMAIN sessions : sessions[k].slot # NoSlot => Published(sessions[k].slot)

\* Nobody is told a schedule twice in a row, unless two changes overtook each
\* other or a notice was lost ("a course that ended up identical -> nobody is
\* told").
NobodyToldTwice ==
  [][\A r \in Requests :
       request[r].op \in {"edited", "published"} /\ request'[r] = Idle =>
         \A c \in Changed(request[r]) \ (raced \cup raced' \cup missed \cup missed') :
           \A p \in Affected(c) : <<c, p>> \in joined \/ told'[c][p] # told[c][p]]_vars

\* A class moved by hand to another course keeps the sessions of the first.
Misfiled(c) ==
  \E k \in DOMAIN sessions :
    /\ sessions[k].course = c
    /\ Published(sessions[k].slot) /\ slots[sessions[k].slot].course # c

Keys(c) == {Key(slots[i]) : i \in {j \in Ids : Published(j) /\ slots[j].course = c}}

\* A sheet published again, to fix a room say, leaves every class of the same
\* day and times with the classes due and held it had (publish_drafts, "so
\* Analytics keeps counting that class from when it really started") -- unless
\* sessions were left under another course's class by a hand edit.
CountsSurviveReissue ==
  \A c \in Courses \ raced' :
    /\ sessions' # <<>> /\ Len(sessions') = Len(sessions) /\ today' = today
    /\ Keys(c)' = Keys(c) /\ ~Misfiled(c)
    => HeldClasses(c)' = HeldClasses(c) /\ DueClasses(c)' = DueClasses(c)

\* What is published changes by a publication, which puts exactly the drafts of
\* its courses in their place, or by a hand edit: a draft shows nobody anything
\* (apply_plan, publish_drafts).
PublishIsTheDrafts ==
  \A r \in Requests, c \in Courses \ raced' :
    request[r].op \in {"save", "publish"} /\ request'[r] # request[r]
      /\ request'[r].op \in {"idle", "published"} =>
    Schedule(c)' =
      IF request'[r].op = "published" /\ c \in request[r].courses
        THEN {At(slots[d]) : d \in {e \in request[r].drafts : slots[e].course = c}}
        ELSE Schedule(c)

\* A publication, or any other change of the timetable, shows the classes it
\* was made for and loses neither the sessions nor the counts of a class it
\* leaves as it was (publish_drafts).
PublishKeepsHistory ==
  [][PublishIsTheDrafts /\ SessionsHaveTheirClass' /\ CountsSurviveReissue]_vars
=============================================================================
