----------------------------- MODULE StaffRoster -----------------------------
(***************************************************************************)
(* Lecturers, heads of department and who teaches what: the Lecturers,     *)
(* HODs and Courses pages of blueprints/admin.py with the rules of         *)
(* people_status.py, record_edits.py and bulk_upload.py.                   *)
(*                                                                         *)
(* One login may carry a Lecturer row, an HOD row, or both.  A handler     *)
(* reads, decides, and commits: two steps here, between which another      *)
(* admin's handler may commit.  A commit writes the columns the handler    *)
(* changed since its reads; a row or a link it counted on that is gone, or *)
(* a unique key already taken, rolls everything back.                      *)
(*                                                                         *)
(* Abstracted: names and staff IDs (a person is its login), departments of *)
(* lecturers, the dates of a semester (a course is running or over).       *)
(***************************************************************************)
EXTENDS Integers, FiniteSets

CONSTANTS
  Staff, Departments, Courses,
  Requests,       \* request threads of the server
  MaxBegun        \* bound: requests made

NoDepartment == "no department"

ASSUME StaffAssumption == MaxBegun \in Nat /\ NoDepartment \notin Departments

VARIABLES
  lecturers,      \* lecturers.status, or that there is no row
  heads,          \* the department of a person's row in hods, or none
  login,          \* users.role and users.is_active, or that there is no row
  courses,        \* courses.lecturer_id, course_lecturers, still running or over
  recorded,       \* logins with something on record (STAFF_HISTORY)
  request,        \* what each request thread has read and is about to commit
  begun,          \* requests made so far
  raced,          \* history: people, departments, courses changed by a request
                  \* that had not seen the latest change of them
  allowed         \* history: running courses a lecturer who left was given

tables == <<lecturers, heads, login, courses, recorded>>
vars == <<tables, request, begun, raced, allowed>>

NoRow == "no row"
NoLogin == [role |-> "none", active |-> FALSE]
GoneLogin == [role |-> "deleted", active |-> FALSE]
NoCourse == [running |-> FALSE]
Idle == [op |-> "idle"]

Statuses == {"active", "on_leave", "left"}
Things == Staff \cup Departments \cup Courses
Course == [coordinator : Staff, co : SUBSET Staff, running : BOOLEAN]
Login == [role : {"lecturer", "hod"}, active : BOOLEAN]

IsCourse(c) == courses[c] # NoCourse
IsLecturer(p) == lecturers[p] # NoRow
IsHead(p) == heads[p] # NoDepartment
HeadsOf(d) == {p \in Staff : heads[p] = d}

\* Course.all_lecturers
Teachers(c) == {courses[c].coordinator} \cup courses[c].co

\* running_courses of a lecturer, coordinated or co-taught.
Coordinates(p) == {c \in Courses : IsCourse(c) /\ courses[c].running /\ courses[c].coordinator = p}
CoTeaches(p) == {c \in Courses : IsCourse(c) /\ courses[c].running /\ p \in courses[c].co}

Job ==
  [op : {"status"}, who : Staff, to : Statuses, was : Login, off : SUBSET Courses,
   about : SUBSET Things, alone : BOOLEAN]
    \cup [op : {"promote", "create", "move"}, who : Staff, dept : Departments,
          about : SUBSET Things, alone : BOOLEAN]
    \cup [op : {"add", "remove", "coordinator"}, who : Staff, course : Courses, seen : Course,
          about : SUBSET Things, alone : BOOLEAN]
    \cup [op : {"copy", "confirm"}, course : Courses, first : Staff, rest : SUBSET Staff,
          about : SUBSET Things, alone : BOOLEAN]

TypeOK ==
  /\ lecturers \in [Staff -> Statuses \cup {NoRow}]
  /\ heads \in [Staff -> Departments \cup {NoDepartment}]
  /\ login \in [Staff -> Login \cup {NoLogin, GoneLogin}]
  /\ courses \in [Courses -> Course \cup {NoCourse}]
  /\ recorded \subseteq Staff
  /\ request \in [Requests -> Job \cup {Idle}]
  /\ begun \in 0..MaxBegun
  /\ raced \subseteq Things /\ allowed \subseteq Courses

\* Some lecturers, one course, no head of department yet.
Init ==
  /\ \E L \in SUBSET Staff :
       /\ lecturers = [p \in Staff |-> IF p \in L THEN "active" ELSE NoRow]
       /\ login = [p \in Staff |-> IF p \in L THEN [role |-> "lecturer", active |-> TRUE]
                                            ELSE NoLogin]
       /\ \E c \in Courses, p \in L :
            courses = [x \in Courses |->
              IF x = c THEN [coordinator |-> p, co |-> {}, running |-> TRUE] ELSE NoCourse]
  /\ heads = [p \in Staff |-> NoDepartment]
  /\ recorded = {}
  /\ request = [r \in Requests |-> Idle]
  /\ begun = 0
  /\ raced = {} /\ allowed = {}

-----------------------------------------------------------------------------
(* Requests *)

\* A handler has made its reads and passed its checks.
Ask(r, job) ==
  /\ request[r] = Idle
  /\ begun < MaxBegun
  /\ begun' = begun + 1
  /\ request' = [request EXCEPT ![r] = job]
  /\ UNCHANGED <<tables, raced, allowed>>

\* The requests now under way about some things have not seen their change.
Overtaken(things) ==
  [q \in Requests |->
     IF request[q] # Idle /\ request[q].about \cap things # {}
       THEN [request[q] EXCEPT !.alone = FALSE] ELSE request[q]]

\* The commit of r went through.
Committed(r) ==
  /\ request' = [Overtaken(request[r].about) EXCEPT ![r] = Idle]
  /\ raced' = IF request[r].alone THEN raced ELSE raced \cup request[r].about
  /\ UNCHANGED begun

RolledBack(r) ==
  /\ request' = [request EXCEPT ![r] = Idle]
  /\ UNCHANGED <<tables, begun, raced, allowed>>

\* The columns of the login a status change writes.
Switched(p, was, on) == IF was.active = on THEN login[p] ELSE [login[p] EXCEPT !.active = on]

-----------------------------------------------------------------------------
(* Lecturers *)

\* Each of them becomes a lecturer and may sign in.
Hired(P) ==
  /\ lecturers' = [p \in Staff |-> IF p \in P THEN "active" ELSE lecturers[p]]
  /\ login' = [p \in Staff |-> IF p \in P THEN [role |-> "lecturer", active |-> TRUE] ELSE login[p]]
  /\ begun < MaxBegun /\ begun' = begun + 1
  /\ UNCHANGED <<heads, courses, recorded, request, raced, allowed>>

\* lecturers_page, create: a username nobody has.
CreateLecturer(p) == login[p] = NoLogin /\ Hired({p})

\* plan_lecturers: those already registered are skipped; one whose login is
\* somebody else's, an HOD's say, and nobody of the file is saved.
PlanLecturers(file) ==
  IF \E p \in file : ~IsLecturer(p) /\ login[p] \in Login THEN {}
  ELSE {p \in file : login[p] = NoLogin}

\* bulk_upload_confirm and apply_lecturers
UploadLecturers(file) == PlanLecturers(file) # {} /\ Hired(PlanLecturers(file))

\* A lecturer may leave whatever they coordinate.
MayTakeAny(p, status) == lecturers[p] \in Statuses \ {status}

\* set_lecturer_status: not left while coordinating a running course.
MayTake(p, status) ==
  /\ lecturers[p] \in Statuses \ {status}
  /\ status = "left" => Coordinates(p) = {}

\* change_status and bulk_status up to the commit.
BeginStatus(r, p, status) ==
  /\ MayTake(p, status)
  /\ LET off == IF status = "left" THEN CoTeaches(p) ELSE {} IN
       Ask(r, [op |-> "status", who |-> p, to |-> status, was |-> login[p], off |-> off,
               about |-> {p} \cup off, alone |-> TRUE])

CommitStatus(r) ==
  /\ request[r].op = "status"
  /\ LET job == request[r]
         p == job.who
     IN  \/ /\ IsLecturer(p)
            /\ \A c \in job.off : IsCourse(c) /\ p \in courses[c].co
            /\ lecturers' = [lecturers EXCEPT ![p] = job.to]
            /\ login' = [login EXCEPT ![p] = Switched(p, job.was, job.to = "active")]
            /\ courses' = [c \in Courses |->
                 IF c \in job.off THEN [courses[c] EXCEPT !.co = @ \ {p}] ELSE courses[c]]
            /\ Committed(r)
            /\ UNCHANGED <<heads, recorded, allowed>>
         \/ /\ ~(IsLecturer(p) /\ \A c \in job.off : IsCourse(c) /\ p \in courses[c].co)
            /\ RolledBack(r)

\* delete_record of a lecturer: nothing on record, no course coordinated, no
\* HOD.  What comes in between is held by a foreign key.
DeleteLecturer(p) ==
  /\ IsLecturer(p) /\ ~IsHead(p) /\ p \notin recorded /\ begun < MaxBegun
  /\ \A c \in Courses : IsCourse(c) => courses[c].coordinator # p
  /\ lecturers' = [lecturers EXCEPT ![p] = NoRow]
  /\ login' = [login EXCEPT ![p] = GoneLogin]
  /\ courses' = [c \in Courses |->
       IF IsCourse(c) THEN [courses[c] EXCEPT !.co = @ \ {p}] ELSE NoCourse]
  /\ begun' = begun + 1
  /\ UNCHANGED <<heads, recorded, request, raced, allowed>>

\* A login does something that carries its name.
Act(p) ==
  /\ login[p].active /\ p \notin recorded
  /\ recorded' = recorded \cup {p}
  /\ UNCHANGED <<lecturers, heads, login, courses, request, begun, raced, allowed>>

-----------------------------------------------------------------------------
(* Heads of department *)

\* hods_page, edit_hod: no other HOD in the department.
MayHead(d, p) == HeadsOf(d) \subseteq {p}

BeginHead(r, kind, p, d) ==
  /\ MayHead(d, p)
  /\ CASE kind = "promote" -> lecturers[p] = "active" /\ ~IsHead(p)
       [] kind = "create" -> login[p] = NoLogin
       [] kind = "move" -> IsHead(p) /\ heads[p] # d
  /\ Ask(r, [op |-> kind, who |-> p, dept |-> d, about |-> {p, d}, alone |-> TRUE])

\* hods.staff_id and users.username are unique, the department is not.
CommitHead(r) ==
  /\ request[r].op \in {"promote", "create", "move"}
  /\ LET job == request[r]
         p == job.who
         fits == CASE job.op = "promote" -> IsLecturer(p) /\ ~IsHead(p)
                   [] job.op = "create" -> login[p] = NoLogin
                   [] job.op = "move" -> IsHead(p)
     IN  \/ /\ fits
            /\ heads' = [heads EXCEPT ![p] = job.dept]
            /\ login' = CASE job.op = "promote" -> [login EXCEPT ![p].role = "hod"]
                          [] job.op = "create" ->
                               [login EXCEPT ![p] = [role |-> "hod", active |-> TRUE]]
                          [] job.op = "move" -> login
            /\ Committed(r)
            /\ UNCHANGED <<lecturers, courses, recorded, allowed>>
         \/ ~fits /\ RolledBack(r)

\* A removed HOD keeps the role the login had.
RoleKept(p) == login[p]

\* A promoted lecturer goes back to being a lecturer; a login with nothing on
\* record goes; one with a record is switched off.
RoleAfterHod(p) ==
  IF IsLecturer(p) THEN [login[p] EXCEPT !.role = "lecturer"]
  ELSE IF p \notin recorded THEN GoneLogin
  ELSE [login[p] EXCEPT !.active = FALSE]

\* remove_hod
RemoveHod(p) ==
  /\ IsHead(p) /\ begun < MaxBegun
  /\ heads' = [heads EXCEPT ![p] = NoDepartment]
  /\ login' = [login EXCEPT ![p] = RoleAfterHod(p)]
  /\ begun' = begun + 1
  /\ UNCHANGED <<lecturers, courses, recorded, request, raced, allowed>>

-----------------------------------------------------------------------------
(* Courses *)

\* The running course c was given to a lecturer who has left, on the Courses
\* page or by a longer semester: neither looks at the lecturer's status.
Given(c, p) == IF lecturers[p] = "left" THEN allowed \cup {c} ELSE allowed

\* courses_page, create.
CreateCourse(c, p) ==
  /\ ~IsCourse(c) /\ IsLecturer(p) /\ begun < MaxBegun
  /\ courses' = [courses EXCEPT ![c] = [coordinator |-> p, co |-> {}, running |-> TRUE]]
  /\ allowed' = Given(c, p)
  /\ request' = Overtaken({c, p})
  /\ begun' = begun + 1
  /\ UNCHANGED <<lecturers, heads, login, recorded, raced>>

\* _manage_course_lecturer up to its commit.
BeginManage(r, c, p, change) ==
  /\ IsCourse(c) /\ IsLecturer(p)
  /\ CASE change = "add" -> p \notin Teachers(c)
       [] change = "remove" -> p \in courses[c].co /\ p # courses[c].coordinator
       [] change = "coordinator" -> p # courses[c].coordinator
  /\ Ask(r, [op |-> change, who |-> p, course |-> c, seen |-> courses[c],
             about |-> {c, p}, alone |-> TRUE])

\* The links a change takes away must be there, those it makes must not.
LinksFit(now, job) ==
  LET seen == job.seen IN
  CASE job.op = "add" -> job.who \notin now.co
    [] job.op = "remove" -> job.who \in now.co
    [] job.op = "coordinator" ->
         /\ job.who \in seen.co => job.who \in now.co
         /\ seen.coordinator \notin seen.co =>
              seen.coordinator \notin now.co /\ IsLecturer(seen.coordinator)

\* A new coordinator takes the place of the old one.
ManagedReplacing(now, job) ==
  CASE job.op = "add" -> [now EXCEPT !.co = @ \cup {job.who}]
    [] job.op = "remove" -> [now EXCEPT !.co = @ \ {job.who}]
    [] job.op = "coordinator" -> [now EXCEPT !.coordinator = job.who, !.co = @ \ {job.who}]

\* The old coordinator stays on as a lecturer.
Managed(now, job) ==
  CASE job.op = "add" -> [now EXCEPT !.co = @ \cup {job.who}]
    [] job.op = "remove" -> [now EXCEPT !.co = @ \ {job.who}]
    [] job.op = "coordinator" ->
         [now EXCEPT !.coordinator = job.who,
                     !.co = (IF job.who \in job.seen.co THEN @ \ {job.who} ELSE @)
                              \cup {job.seen.coordinator}]

CommitManage(r) ==
  /\ request[r].op \in {"add", "remove", "coordinator"}
  /\ LET job == request[r]
         c == job.course
         fits == IsCourse(c) /\ IsLecturer(job.who) /\ LinksFit(courses[c], job)
     IN  \/ /\ fits
            /\ courses' = [courses EXCEPT ![c] = Managed(courses[c], job)]
            /\ allowed' = IF job.op = "remove" THEN allowed ELSE Given(c, job.who)
            /\ Committed(r)
            /\ UNCHANGED <<lecturers, heads, login, recorded>>
         \/ ~fits /\ RolledBack(r)

Active(p) == lecturers[p] = "active"

\* plan_course_copy: the active teachers of a course, the coordinator first;
\* the preview carries them to the confirm form.
BeginCopy(r, source, target, first) ==
  /\ IsCourse(source) /\ ~IsCourse(target)
  /\ first \in Teachers(source) /\ Active(first)
  /\ Active(courses[source].coordinator) => first = courses[source].coordinator
  /\ Ask(r, [op |-> "copy", course |-> target, first |-> first,
             rest |-> {p \in Teachers(source) \ {first} : Active(p)},
             about |-> {target}, alone |-> TRUE])

\* A plan taken at its word: the keys that a commit meets.
PlanTrusted(target, who) == ~IsCourse(target) /\ \A p \in who : IsLecturer(p)

\* plan_courses: no row of the plan in error.
PlanOk(target, who) == ~IsCourse(target) /\ \A p \in who : Active(p)

\* bulk_upload_confirm: the plan rebuilt from the posted preview and checked
\* again from scratch; a row now in error saves nothing.
ConfirmCopy(r) ==
  /\ request[r].op = "copy"
  /\ LET job == request[r]
         who == {job.first} \cup job.rest
     IN  \/ /\ PlanOk(job.course, who)
            /\ request' = [request EXCEPT ![r] =
                 [job EXCEPT !.op = "confirm", !.about = {job.course} \cup who, !.alone = TRUE]]
            /\ UNCHANGED <<tables, begun, raced, allowed>>
         \/ ~PlanOk(job.course, who) /\ RolledBack(r)

\* apply_courses and the commit: the new course's key must still be free, its
\* lecturers' rows still there.
CommitCopy(r) ==
  /\ request[r].op = "confirm"
  /\ LET job == request[r]
         fits == PlanTrusted(job.course, {job.first} \cup job.rest)
     IN  \/ /\ fits
            /\ courses' = [courses EXCEPT ![job.course] =
                 [coordinator |-> job.first, co |-> job.rest, running |-> TRUE]]
            /\ Committed(r)
            /\ UNCHANGED <<lecturers, heads, login, recorded, allowed>>
         \/ ~fits /\ RolledBack(r)

\* The last day of the course's semester passes, or is moved (edit_semester).
Leaving(p) ==
  \/ lecturers[p] = "left"
  \/ \E r \in Requests : request[r].op = "status" /\ request[r].who = p

EndOrExtend(c) ==
  /\ IsCourse(c) /\ begun < MaxBegun
  /\ courses' = [courses EXCEPT ![c].running = ~@]
  /\ allowed' = IF \E p \in Teachers(c) : Leaving(p) THEN allowed \cup {c} ELSE allowed
  /\ begun' = begun + 1
  /\ UNCHANGED <<lecturers, heads, login, recorded, request, raced>>

-----------------------------------------------------------------------------
LecturerStep ==
  \/ \E file \in SUBSET Staff : UploadLecturers(file)
  \/ \E p \in Staff : CreateLecturer(p) \/ DeleteLecturer(p) \/ Act(p) \/ RemoveHod(p)
  \/ \E r \in Requests :
       \/ \E p \in Staff, status \in Statuses : BeginStatus(r, p, status)
       \/ CommitStatus(r)
       \/ \E kind \in {"promote", "create", "move"}, p \in Staff, d \in Departments :
            BeginHead(r, kind, p, d)
       \/ CommitHead(r)

CourseStep ==
  \/ \E c \in Courses : EndOrExtend(c) \/ \E p \in Staff : CreateCourse(c, p)
  \/ \E r \in Requests :
       \/ \E c \in Courses, p \in Staff, change \in {"add", "remove", "coordinator"} :
            BeginManage(r, c, p, change)
       \/ CommitManage(r)
       \/ \E source, target \in Courses, p \in Staff : BeginCopy(r, source, target, p)
       \/ ConfirmCopy(r)
       \/ CommitCopy(r)

Next == LecturerStep \/ CourseStep

Spec == Init /\ [][Next]_vars

-----------------------------------------------------------------------------
(* Properties *)

\* A lecturer signs in exactly while active, through promotion to HOD, removal
\* and every edit -- except after two overlapping changes of their status, of
\* which the later writes the status but not a login it had read as already
\* so (_switch_login).
LoginFollowsStatus ==
  \A p \in Staff \ raced : IsLecturer(p) => (login[p].active <=> lecturers[p] = "active")

\* A login that can sign in as an HOD heads a department, and whoever heads
\* one has the role, in every interleaving of promotions, removals and
\* deletes: no lecturer is left with an HOD's pages or an HOD without them
\* (hods_page, remove_hod).
RoleFollowsHod ==
  \A p \in Staff :
    /\ IsHead(p) => login[p].role = "hod"
    /\ login[p].role = "hod" /\ (login[p].active \/ IsLecturer(p)) => IsHead(p)

\* One HOD per department, unless two assignments to it overlapped: nothing
\* in the table prevents it (hods_page, edit_hod).
OneHodPerDepartment ==
  \A d \in Departments \ raced : Cardinality(HeadsOf(d)) <= 1

\* Logins, roles and the list of HODs agree (people_status.py, hods_page,
\* record_edits.py).
LoginsAgree == LoginFollowsStatus /\ RoleFollowsHod /\ OneHodPerDepartment

\* A lecturer who has left teaches no running course, neither as coordinator
\* nor as co-lecturer -- but for one given to them after they left, and for
\* requests about them that overlapped (set_lecturer_status).
LeftTeachNothing ==
  \A c \in Courses \ (raced \cup allowed) :
    IsCourse(c) /\ courses[c].running =>
      \A p \in Teachers(c) \ raced : lecturers[p] # "left"

\* Each teacher of a course once: coordinator or co-lecturer
\* (_manage_course_lecturer).
TeachersListedOnce ==
  \A c \in Courses \ raced : IsCourse(c) => courses[c].coordinator \notin courses[c].co

\* Every running course is taught by those who may teach it, each named once.
CoursesAreTaught == LeftTeachNothing /\ TeachersListedOnce

\* A new coordinator takes no class away from the old one, unless two changes
\* of the course's lecturers overlapped (_manage_course_lecturer, "so no one
\* silently loses access to classes they teach").
NobodyLosesAClass ==
  [][\A c \in Courses :
       IsCourse(c) /\ IsCourse(c)' /\ courses'[c].coordinator # courses[c].coordinator =>
         \/ courses[c].coordinator \in courses'[c].co
         \/ c \in raced']_vars

\* A copied course starts with active lecturers only, however long the preview
\* waited for its confirmation and whatever happened to them meanwhile -- but
\* for a change that commits after the confirmation looked and before it saves
\* (bulk_upload_confirm, plan_courses).
CopiesAreTaught ==
  [][\A r \in Requests, c \in Courses :
       /\ request[r].op \in {"copy", "confirm"} /\ request[r].course = c
       /\ ~IsCourse(c) /\ IsCourse(c)' /\ request'[r] = Idle
       => \/ c \in raced'
          \/ \A p \in Teachers(c)' : Active(p)']_vars
=============================================================================
