-------------------------- MODULE StaffRosterProofs --------------------------
(* Proofs about StaffRoster: for any number of staff, departments, courses   *)
(* and admins at work at once.                                               *)
EXTENDS StaffRoster, TLAPS, FiniteSetTheorems

-----------------------------------------------------------------------------
(* Rows and jobs *)

StatusJob(j) ==
  /\ j.op = "status" /\ j.who \in Staff /\ j.to \in Statuses /\ j.was \in Login
  /\ j.off \in SUBSET Courses

HeadJob(j) == j.op \in {"promote", "create", "move"} /\ j.who \in Staff /\ j.dept \in Departments

ManageJob(j) ==
  /\ j.op \in {"add", "remove", "coordinator"}
  /\ j.who \in Staff /\ j.course \in Courses /\ j.seen \in Course

CopyJob(j) ==
  /\ j.op \in {"copy", "confirm"} /\ j.course \in Courses /\ j.first \in Staff /\ j.rest \in SUBSET Staff

LEMMA JobKinds ==
  ASSUME NEW j \in Job
  PROVE  /\ StatusJob(j) \/ HeadJob(j) \/ ManageJob(j) \/ CopyJob(j)
         /\ j.about \in SUBSET Things /\ j.alone \in BOOLEAN
  BY DEF Job, StatusJob, HeadJob, ManageJob, CopyJob

LEMMA IdleIsNoJob == Idle \notin Job
  BY DEF Idle, Job

LEMMA NoCourseIsNone == NoCourse \notin Course
  BY DEF NoCourse, Course

LEMMA NoLoginIsNone == NoLogin \notin Login /\ GoneLogin \notin Login /\ NoLogin # GoneLogin
<1>1. ASSUME NEW l \in Login
      PROVE  l.role \in {"lecturer", "hod"}
  BY DEF Login
<1>2. NoLogin.role = "none" /\ GoneLogin.role = "deleted"
  BY DEF NoLogin, GoneLogin
<1> QED
  BY <1>1, <1>2

LEMMA CourseFields ==
  ASSUME NEW x \in Course, NEW S \in SUBSET Staff, NEW p \in Staff
  PROVE  /\ x.coordinator \in Staff /\ x.co \in SUBSET Staff /\ x.running \in BOOLEAN
         /\ [x EXCEPT !.co = S] \in Course
         /\ [x EXCEPT !.co = S].coordinator = x.coordinator
         /\ [x EXCEPT !.co = S].co = S
         /\ [x EXCEPT !.co = S].running = x.running
         /\ [x EXCEPT !.coordinator = p, !.co = S] \in Course
         /\ [x EXCEPT !.coordinator = p, !.co = S].coordinator = p
         /\ [x EXCEPT !.coordinator = p, !.co = S].co = S
         /\ [x EXCEPT !.coordinator = p, !.co = S].running = x.running
         /\ [x EXCEPT !.running = ~@] \in Course
         /\ [x EXCEPT !.running = ~@].coordinator = x.coordinator
         /\ [x EXCEPT !.running = ~@].co = x.co
  BY DEF Course

LEMMA NewCourse ==
  ASSUME NEW p \in Staff, NEW S \in SUBSET Staff
  PROVE  LET x == [coordinator |-> p, co |-> S, running |-> TRUE]
         IN  x \in Course /\ x.coordinator = p /\ x.co = S /\ x.running
  BY DEF Course

LEMMA LoginFields ==
  ASSUME NEW l \in Login, NEW on \in BOOLEAN, NEW role \in {"lecturer", "hod"}
  PROVE  /\ l.role \in {"lecturer", "hod"} /\ l.active \in BOOLEAN
         /\ [l EXCEPT !.active = on] \in Login
         /\ [l EXCEPT !.active = on].role = l.role
         /\ [l EXCEPT !.active = on].active = on
         /\ [l EXCEPT !.role = role] \in Login
         /\ [l EXCEPT !.role = role].role = role
         /\ [l EXCEPT !.role = role].active = l.active
  BY DEF Login

LEMMA NewLogin ==
  ASSUME NEW role \in {"lecturer", "hod"}
  PROVE  LET l == [role |-> role, active |-> TRUE]
         IN  l \in Login /\ l.role = role /\ l.active
  BY DEF Login

\* A job that was overtaken is the same job, but not alone any more.
LEMMA OvertakenJob ==
  ASSUME NEW j \in Job
  PROVE  LET k == [j EXCEPT !.alone = FALSE] IN
         /\ k \in Job /\ ~k.alone /\ k.op = j.op /\ k.about = j.about
         /\ StatusJob(j) => k.who = j.who /\ k.to = j.to /\ k.was = j.was /\ k.off = j.off
         /\ HeadJob(j) => k.who = j.who /\ k.dept = j.dept
         /\ ManageJob(j) => k.who = j.who /\ k.course = j.course /\ k.seen = j.seen
         /\ CopyJob(j) => k.course = j.course /\ k.first = j.first /\ k.rest = j.rest
<1> DEFINE k == [j EXCEPT !.alone = FALSE]
<1>1. CASE StatusJob(j)
  <2>1. j \in [op : {"status"}, who : Staff, to : Statuses, was : Login, off : SUBSET Courses,
               about : SUBSET Things, alone : BOOLEAN]
    BY <1>1 DEF StatusJob, Job
  <2> QED
    BY <1>1, <2>1 DEF StatusJob, HeadJob, ManageJob, CopyJob, Job
<1>2. CASE HeadJob(j)
  <2>1. j \in [op : {"promote", "create", "move"}, who : Staff, dept : Departments,
               about : SUBSET Things, alone : BOOLEAN]
    BY <1>2 DEF HeadJob, Job
  <2> QED
    BY <1>2, <2>1 DEF StatusJob, HeadJob, ManageJob, CopyJob, Job
<1>3. CASE ManageJob(j)
  <2>1. j \in [op : {"add", "remove", "coordinator"}, who : Staff, course : Courses,
               seen : Course, about : SUBSET Things, alone : BOOLEAN]
    BY <1>3 DEF ManageJob, Job
  <2> QED
    BY <1>3, <2>1 DEF StatusJob, HeadJob, ManageJob, CopyJob, Job
<1>4. CASE CopyJob(j)
  <2>1. j \in [op : {"copy", "confirm"}, course : Courses, first : Staff, rest : SUBSET Staff,
               about : SUBSET Things, alone : BOOLEAN]
    BY <1>4 DEF CopyJob, Job
  <2> QED
    BY <1>4, <2>1 DEF StatusJob, HeadJob, ManageJob, CopyJob, Job
<1> QED
  BY <1>1, <1>2, <1>3, <1>4, JobKinds

-----------------------------------------------------------------------------
(* Types *)

TablesTyped ==
  /\ lecturers \in [Staff -> Statuses \cup {NoRow}]
  /\ heads \in [Staff -> Departments \cup {NoDepartment}]
  /\ login \in [Staff -> Login \cup {NoLogin, GoneLogin}]
  /\ courses \in [Courses -> Course \cup {NoCourse}]
  /\ recorded \subseteq Staff
  /\ begun \in 0..MaxBegun
  /\ raced \subseteq Things /\ allowed \subseteq Courses

JobsTyped == request \in [Requests -> Job \cup {Idle}]

LEMMA TypedParts == TypeOK <=> TablesTyped /\ JobsTyped
  BY DEF TypeOK, TablesTyped, JobsTyped

LEMMA TypedPartsNext == TypeOK' <=> TablesTyped' /\ JobsTyped'
  BY DEF TypeOK, TablesTyped, JobsTyped

\* Everybody with a row in lecturers or in hods has a login.
LoginsKept == \A p \in Staff : IsLecturer(p) \/ IsHead(p) => login[p] \in Login

LEMMA BegunTyped ==
  ASSUME TablesTyped, begun < MaxBegun, begun' = begun + 1
  PROVE  begun' \in 0..MaxBegun
  BY StaffAssumption DEF TablesTyped

LEMMA OvertakenTyped ==
  ASSUME JobsTyped, NEW things
  PROVE  /\ Overtaken(things) \in [Requests -> Job \cup {Idle}]
         /\ \A q \in Requests :
              \/ /\ Overtaken(things)[q] = request[q]
                 /\ request[q] = Idle \/ request[q].about \cap things = {}
              \/ /\ request[q] \in Job
                 /\ Overtaken(things)[q] = [request[q] EXCEPT !.alone = FALSE]
<1>1. ASSUME NEW q \in Requests
      PROVE  /\ Overtaken(things)[q] \in Job \cup {Idle}
             /\ \/ /\ Overtaken(things)[q] = request[q]
                   /\ request[q] = Idle \/ request[q].about \cap things = {}
                \/ /\ request[q] \in Job
                   /\ Overtaken(things)[q] = [request[q] EXCEPT !.alone = FALSE]
  <2>1. request[q] \in Job \cup {Idle}
    BY DEF JobsTyped
  <2>2. request[q] \in Job => [request[q] EXCEPT !.alone = FALSE] \in Job
    BY OvertakenJob
  <2>3. Overtaken(things)[q] =
          IF request[q] # Idle /\ request[q].about \cap things # {}
            THEN [request[q] EXCEPT !.alone = FALSE] ELSE request[q]
    BY DEF Overtaken
  <2> QED
    BY <2>1, <2>2, <2>3
<1>2. Overtaken(things) = [q \in Requests |-> Overtaken(things)[q]]
  BY DEF Overtaken
<1> QED
  BY <1>1, <1>2

LEMMA CommittedTyped ==
  ASSUME TypeOK, NEW r \in Requests, request[r] \in Job, Committed(r)
  PROVE  JobsTyped' /\ begun' \in 0..MaxBegun /\ raced' \subseteq Things
<1>1. Overtaken(request[r].about) \in [Requests -> Job \cup {Idle}]
  BY OvertakenTyped, TypedParts
<1>2. JobsTyped'
  BY <1>1 DEF Committed, JobsTyped
<1>3. request[r].about \in SUBSET Things
  BY JobKinds
<1> QED
  BY <1>2, <1>3 DEF Committed, TypeOK

LEMMA AskTyped ==
  ASSUME TypeOK, NEW r \in Requests, NEW j \in Job, Ask(r, j)
  PROVE  TypeOK'
<1>1. begun' \in 0..MaxBegun
  BY BegunTyped, TypedParts DEF Ask
<1>2. JobsTyped'
  BY TypedParts DEF JobsTyped, Ask
<1>3. TablesTyped'
  BY <1>1, TypedParts DEF TablesTyped, Ask, tables
<1> QED
  BY <1>2, <1>3, TypedPartsNext

LEMMA RolledBackTyped ==
  ASSUME TypeOK, NEW r \in Requests, RolledBack(r)
  PROVE  TypeOK'
<1>1. JobsTyped' /\ TablesTyped'
  BY TypedParts DEF JobsTyped, TablesTyped, RolledBack, tables
<1> QED
  BY <1>1, TypedPartsNext

LEMMA InitTyped == Init => TypeOK /\ LoginsKept
<1> SUFFICES ASSUME Init PROVE TypeOK /\ LoginsKept
  OBVIOUS
<1>1. PICK L \in SUBSET Staff :
        /\ lecturers = [p \in Staff |-> IF p \in L THEN "active" ELSE NoRow]
        /\ login = [p \in Staff |-> IF p \in L THEN [role |-> "lecturer", active |-> TRUE]
                                             ELSE NoLogin]
        /\ \E c \in Courses, p \in L :
             courses = [x \in Courses |->
               IF x = c THEN [coordinator |-> p, co |-> {}, running |-> TRUE] ELSE NoCourse]
  BY DEF Init
<1>2. \A p \in L : [coordinator |-> p, co |-> {}, running |-> TRUE] \in Course
  BY <1>1 DEF Course
<1>3. courses \in [Courses -> Course \cup {NoCourse}]
  BY <1>1, <1>2
<1>4. login \in [Staff -> Login \cup {NoLogin, GoneLogin}]
  BY <1>1, NewLogin
<1>5. TablesTyped
  <2>1. lecturers \in [Staff -> Statuses \cup {NoRow}]
    BY <1>1 DEF Statuses
  <2>2. begun \in 0..MaxBegun
    BY StaffAssumption DEF Init
  <2> QED
    BY <1>3, <1>4, <2>1, <2>2 DEF Init, TablesTyped
<1>6. JobsTyped
  BY DEF Init, JobsTyped
<1>7. LoginsKept
  BY <1>1, NewLogin DEF LoginsKept, IsLecturer, IsHead, Init
<1> QED
  BY <1>5, <1>6, <1>7, TypedParts

LEMMA HiredTyped ==
  ASSUME TypeOK, LoginsKept, NEW P \in SUBSET Staff, Hired(P)
  PROVE  TypeOK' /\ LoginsKept'
<1>1. begun' \in 0..MaxBegun
  BY BegunTyped, TypedParts DEF Hired
<1>2. TablesTyped'
  BY <1>1, TypedParts, NewLogin DEF TablesTyped, Hired, Statuses
<1>3. JobsTyped'
  BY TypedParts DEF JobsTyped, Hired
<1>4. ASSUME NEW p \in Staff, IsLecturer(p)' \/ IsHead(p)'
      PROVE  login'[p] \in Login
  <2>1. CASE p \in P
    <3>1. login'[p] = [role |-> "lecturer", active |-> TRUE]
      BY <2>1 DEF Hired
    <3> QED
      BY <3>1, NewLogin
  <2>2. CASE p \notin P
    <3>1. lecturers'[p] = lecturers[p] /\ heads'[p] = heads[p] /\ login'[p] = login[p]
      BY <2>2 DEF Hired
    <3> QED
      BY <1>4, <3>1 DEF LoginsKept, IsLecturer, IsHead
  <2> QED
    BY <2>1, <2>2
<1> QED
  BY <1>2, <1>3, <1>4, TypedPartsNext DEF LoginsKept

LEMMA StatusTyped ==
  ASSUME TypeOK, LoginsKept, NEW r \in Requests, CommitStatus(r)
  PROVE  TypeOK' /\ LoginsKept'
<1> DEFINE j == request[r]
           p == j.who
<1>1. j \in Job /\ StatusJob(j)
  <2>1. j \in Job
    BY DEF CommitStatus, TypeOK, Idle
  <2> QED
    BY <2>1, JobKinds DEF CommitStatus, HeadJob, ManageJob, CopyJob
<1>2. p \in Staff /\ j.to \in Statuses /\ j.was \in Login /\ j.off \in SUBSET Courses
  BY <1>1 DEF StatusJob
<1>3. CASE RolledBack(r)
  BY <1>3, RolledBackTyped DEF LoginsKept, IsLecturer, IsHead, RolledBack, tables
<1>4. CASE /\ IsLecturer(p)
           /\ \A c \in j.off : IsCourse(c) /\ p \in courses[c].co
           /\ lecturers' = [lecturers EXCEPT ![p] = j.to]
           /\ login' = [login EXCEPT ![p] = Switched(p, j.was, j.to = "active")]
           /\ courses' = [c \in Courses |->
                IF c \in j.off THEN [courses[c] EXCEPT !.co = @ \ {p}] ELSE courses[c]]
           /\ Committed(r)
           /\ UNCHANGED <<heads, recorded, allowed>>
  <2>1. JobsTyped' /\ begun' \in 0..MaxBegun /\ raced' \subseteq Things
    BY <1>1, <1>4, CommittedTyped
  <2>2. login[p] \in Login
    BY <1>2, <1>4 DEF LoginsKept
  <2>3. Switched(p, j.was, j.to = "active") \in Login
    <3>1. (j.to = "active") \in BOOLEAN
      OBVIOUS
    <3> QED
      BY <2>2, <3>1, LoginFields DEF Switched
  <2>4. ASSUME NEW c \in Courses
        PROVE  courses'[c] \in Course \cup {NoCourse}
    <3>1. courses[c] \in Course \cup {NoCourse}
      BY DEF TypeOK
    <3>2. CASE c \in j.off
      <4>1. courses[c] \in Course
        BY <1>4, <3>1, <3>2 DEF IsCourse
      <4>2. courses[c].co \ {p} \in SUBSET Staff
        BY <4>1, <1>2, CourseFields
      <4> QED
        BY <1>2, <1>4, <3>2, <4>1, <4>2, CourseFields
    <3> QED
      BY <1>4, <3>1, <3>2
  <2>5. courses' \in [Courses -> Course \cup {NoCourse}]
    BY <1>4, <2>4
  <2>6. login' \in [Staff -> Login \cup {NoLogin, GoneLogin}]
    BY <1>2, <1>4, <2>3 DEF TypeOK
  <2>7. lecturers' \in [Staff -> Statuses \cup {NoRow}]
    BY <1>2, <1>4 DEF TypeOK
  <2>8. TablesTyped'
    BY <1>4, <2>1, <2>5, <2>6, <2>7 DEF TablesTyped, TypeOK
  <2>9. LoginsKept'
    BY <1>2, <1>4, <2>3 DEF LoginsKept, IsLecturer, IsHead, TypeOK
  <2> QED
    BY <2>1, <2>8, <2>9, TypedPartsNext
<1> QED
  BY <1>3, <1>4 DEF CommitStatus

\* The jobs the handlers ask for, and what their checks said.
LEMMA StatusAsked ==
  ASSUME TypeOK, LoginsKept, NEW r \in Requests, NEW p \in Staff, NEW status \in Statuses,
         BeginStatus(r, p, status)
  PROVE  \E j \in Job :
           /\ Ask(r, j) /\ j.op = "status" /\ j.who = p /\ j.to = status /\ j.was = login[p]
           /\ IsLecturer(p)
           /\ status = "left" => j.off = CoTeaches(p) /\ Coordinates(p) = {}
           /\ p \in j.about /\ j.alone
<1> DEFINE off == IF status = "left" THEN CoTeaches(p) ELSE {}
           j == [op |-> "status", who |-> p, to |-> status, was |-> login[p], off |-> off,
                 about |-> {p} \cup off, alone |-> TRUE]
<1>1. IsLecturer(p) /\ (status = "left" => Coordinates(p) = {}) /\ Ask(r, j)
  BY DEF BeginStatus, MayTake, IsLecturer, Statuses, NoRow
<1>2. login[p] \in Login /\ off \in SUBSET Courses /\ {p} \cup off \in SUBSET Things
  BY <1>1 DEF LoginsKept, CoTeaches, Things
<1>3. j \in Job
  BY <1>2 DEF Job
<1>4. /\ j.op = "status" /\ j.who = p /\ j.to = status /\ j.was = login[p] /\ j.off = off
      /\ j.about = {p} \cup off /\ j.alone
  OBVIOUS
<1> HIDE DEF j
<1> QED
  BY <1>1, <1>3, <1>4

LEMMA HeadAsked ==
  ASSUME NEW r \in Requests, NEW kind \in {"promote", "create", "move"}, NEW p \in Staff,
         NEW d \in Departments, BeginHead(r, kind, p, d)
  PROVE  \E j \in Job :
           /\ Ask(r, j) /\ HeadJob(j) /\ j.who = p /\ j.dept = d
           /\ HeadsOf(d) \subseteq {p}
           /\ p \in j.about /\ d \in j.about /\ j.alone
<1> DEFINE j == [op |-> kind, who |-> p, dept |-> d, about |-> {p, d}, alone |-> TRUE]
<1>1. MayHead(d, p) /\ Ask(r, j)
  BY DEF BeginHead
<1>2. {p, d} \in SUBSET Things
  BY DEF Things
<1>3. j \in Job
  BY <1>2 DEF Job
<1>4. j.op = kind /\ j.who = p /\ j.dept = d /\ j.about = {p, d} /\ j.alone
  OBVIOUS
<1> HIDE DEF j
<1> QED
  BY <1>1, <1>3, <1>4 DEF MayHead, HeadJob

LEMMA ManageAsked ==
  ASSUME TypeOK, NEW r \in Requests, NEW c \in Courses, NEW p \in Staff,
         NEW change \in {"add", "remove", "coordinator"}, BeginManage(r, c, p, change)
  PROVE  \E j \in Job :
           /\ Ask(r, j) /\ ManageJob(j) /\ j.who = p /\ j.course = c /\ j.seen = courses[c]
           /\ IsCourse(c)
           /\ p # j.seen.coordinator
           /\ j.op = "add" => p \notin j.seen.co
           /\ p \in j.about /\ c \in j.about /\ j.alone
<1> DEFINE j == [op |-> change, who |-> p, course |-> c, seen |-> courses[c],
                 about |-> {c, p}, alone |-> TRUE]
<1>1. /\ IsCourse(c) /\ Ask(r, j)
      /\ p # courses[c].coordinator
      /\ change = "add" => p \notin courses[c].co
  BY DEF BeginManage, Teachers
<1>2. {c, p} \in SUBSET Things /\ courses[c] \in Course
  BY <1>1 DEF Things, IsCourse, TypeOK
<1>3. j \in Job
  BY <1>2 DEF Job
<1>4. /\ j.op = change /\ j.who = p /\ j.course = c /\ j.seen = courses[c]
      /\ j.about = {c, p} /\ j.alone
  OBVIOUS
<1> HIDE DEF j
<1> QED
  BY <1>1, <1>2, <1>3, <1>4 DEF ManageJob

LEMMA CopyAsked ==
  ASSUME TypeOK, NEW r \in Requests, NEW source \in Courses, NEW target \in Courses,
         NEW first \in Staff, BeginCopy(r, source, target, first)
  PROVE  \E j \in Job :
           /\ Ask(r, j) /\ CopyJob(j) /\ j.op = "copy" /\ j.first \notin j.rest
           /\ j.course \in j.about /\ j.alone
<1> DEFINE rest == {p \in Teachers(source) \ {first} : Active(p)}
           j == [op |-> "copy", course |-> target, first |-> first, rest |-> rest,
                 about |-> {target}, alone |-> TRUE]
<1>1. Ask(r, j) /\ IsCourse(source)
  BY DEF BeginCopy
<1>2. rest \in SUBSET Staff
  <2>1. courses[source] \in Course
    BY <1>1 DEF IsCourse, TypeOK
  <2> QED
    BY <2>1, CourseFields DEF Teachers
<1>3. j \in Job
  BY <1>2 DEF Job, Things
<1>4. /\ j.op = "copy" /\ j.course = target /\ j.first = first /\ j.rest = rest
      /\ j.about = {target} /\ j.alone
  OBVIOUS
<1>5. first \notin rest
  OBVIOUS
<1> HIDE DEF j, rest
<1> QED
  BY <1>1, <1>2, <1>3, <1>4, <1>5 DEF CopyJob

LEMMA BeginTyped ==
  ASSUME TypeOK, LoginsKept, NEW r \in Requests, NEW j \in Job, Ask(r, j)
  PROVE  TypeOK' /\ LoginsKept'
  BY AskTyped DEF LoginsKept, IsLecturer, IsHead, Ask, tables

LEMMA DeleteLecturerTyped ==
  ASSUME TypeOK, LoginsKept, NEW p \in Staff, DeleteLecturer(p)
  PROVE  TypeOK' /\ LoginsKept'
<1>1. begun' \in 0..MaxBegun
  BY BegunTyped, TypedParts DEF DeleteLecturer
<1>2. ASSUME NEW c \in Courses
      PROVE  courses'[c] \in Course \cup {NoCourse}
  <2>1. CASE IsCourse(c)
    <3>1. courses[c] \in Course
      BY <2>1 DEF IsCourse, TypeOK
    <3>2. courses[c].co \ {p} \in SUBSET Staff
      BY <3>1, CourseFields
    <3>3. [courses[c] EXCEPT !.co = courses[c].co \ {p}] \in Course
      BY <3>1, <3>2, CourseFields
    <3> QED
      BY <2>1, <3>3 DEF DeleteLecturer
  <2>2. CASE ~IsCourse(c)
    BY <2>2 DEF DeleteLecturer
  <2> QED
    BY <2>1, <2>2
<1>3. courses' \in [Courses -> Course \cup {NoCourse}]
  BY <1>2 DEF DeleteLecturer
<1>4. TablesTyped'
  BY <1>1, <1>3 DEF TablesTyped, TypeOK, DeleteLecturer
<1>5. JobsTyped'
  BY TypedParts DEF JobsTyped, DeleteLecturer
<1>6. LoginsKept'
  BY DEF LoginsKept, IsLecturer, IsHead, DeleteLecturer, TypeOK
<1> QED
  BY <1>4, <1>5, <1>6, TypedPartsNext

LEMMA ActTyped ==
  ASSUME TypeOK, LoginsKept, NEW p \in Staff, Act(p)
  PROVE  TypeOK' /\ LoginsKept'
  BY DEF TypeOK, LoginsKept, IsLecturer, IsHead, Act

LEMMA HeadJobOf ==
  ASSUME TypeOK, NEW r \in Requests, CommitHead(r)
  PROVE  request[r] \in Job /\ HeadJob(request[r])
<1>1. request[r] \in Job
  BY DEF CommitHead, TypeOK, Idle
<1> QED
  BY <1>1, JobKinds DEF CommitHead, StatusJob, ManageJob, CopyJob

\* The row of an HOD goes in, and the login takes the role.
HeadMade(r) ==
  LET job == request[r]
      p == job.who
  IN  /\ heads' = [heads EXCEPT ![p] = job.dept]
      /\ \/ /\ job.op = "promote" /\ IsLecturer(p) /\ ~IsHead(p)
            /\ login' = [login EXCEPT ![p].role = "hod"]
         \/ /\ job.op = "create" /\ login[p] = NoLogin
            /\ login' = [login EXCEPT ![p] = [role |-> "hod", active |-> TRUE]]
         \/ job.op = "move" /\ IsHead(p) /\ login' = login
      /\ Committed(r)
      /\ UNCHANGED <<lecturers, courses, recorded, allowed>>

LEMMA HeadCases ==
  ASSUME NEW r \in Requests, CommitHead(r)
  PROVE  RolledBack(r) \/ HeadMade(r)
<1>1. CASE request[r].op = "promote"
  BY <1>1 DEF CommitHead, HeadMade
<1>2. CASE request[r].op = "create"
  BY <1>2 DEF CommitHead, HeadMade
<1>3. CASE request[r].op = "move"
  BY <1>3 DEF CommitHead, HeadMade
<1> QED
  BY <1>1, <1>2, <1>3 DEF CommitHead

LEMMA HeadTyped ==
  ASSUME TypeOK, LoginsKept, NEW r \in Requests, CommitHead(r)
  PROVE  TypeOK' /\ LoginsKept'
<1> DEFINE p == request[r].who
<1>1. request[r] \in Job /\ HeadJob(request[r]) /\ p \in Staff /\ request[r].dept \in Departments
  BY HeadJobOf DEF HeadJob
<1>2. CASE RolledBack(r)
  BY <1>2, RolledBackTyped DEF LoginsKept, IsLecturer, IsHead, RolledBack, tables
<1>3. CASE HeadMade(r)
  <2>1. JobsTyped' /\ begun' \in 0..MaxBegun /\ raced' \subseteq Things
    BY <1>1, <1>3, CommittedTyped DEF HeadMade
  <2>2. login'[p] \in Login /\ login' = [login EXCEPT ![p] = login'[p]]
    <3>1. CASE IsLecturer(p) /\ login' = [login EXCEPT ![p].role = "hod"]
      <4>1. login[p] \in Login
        BY <1>1, <3>1 DEF LoginsKept
      <4>2. login'[p] = [login[p] EXCEPT !.role = "hod"]
        <5>1. p \in DOMAIN login
          BY <1>1 DEF TypeOK
        <5>2. login' = [login EXCEPT ![p] = [login[p] EXCEPT !.role = "hod"]]
          BY <3>1, Zenon
        <5> QED
          BY <5>1, <5>2
      <4>3. login'[p] \in Login
        <5>1. [login[p] EXCEPT !.role = "hod"] \in Login
          BY <4>1 DEF Login
        <5> QED
          BY <4>2, <5>1
      <4> QED
        BY <1>1, <3>1, <4>2, <4>3 DEF TypeOK
    <3>2. CASE login' = [login EXCEPT ![p] = [role |-> "hod", active |-> TRUE]]
      BY <1>1, <3>2, NewLogin DEF TypeOK
    <3>3. CASE IsHead(p) /\ login' = login
      BY <1>1, <3>3 DEF LoginsKept, TypeOK
    <3> QED
      BY <1>3, <3>1, <3>2, <3>3 DEF HeadMade
  <2>3. login' \in [Staff -> Login \cup {NoLogin, GoneLogin}]
    BY <1>1, <2>2 DEF TypeOK
  <2>4. heads' \in [Staff -> Departments \cup {NoDepartment}]
    BY <1>1, <1>3 DEF HeadMade, TypeOK
  <2>5. TablesTyped'
    BY <1>3, <2>1, <2>3, <2>4 DEF TablesTyped, TypeOK, HeadMade
  <2>6. ASSUME NEW q \in Staff, IsLecturer(q)' \/ IsHead(q)'
        PROVE  login'[q] \in Login
    <3>1. CASE q = p
      BY <2>2, <3>1
    <3>2. CASE q # p
      <4>1. login'[q] = login[q] /\ heads'[q] = heads[q] /\ lecturers'[q] = lecturers[q]
        BY <1>1, <1>3, <2>2, <3>2 DEF HeadMade, TypeOK
      <4> QED
        BY <2>6, <4>1 DEF LoginsKept, IsLecturer, IsHead
    <3> QED
      BY <3>1, <3>2
  <2> QED
    BY <2>1, <2>5, <2>6, TypedPartsNext DEF LoginsKept
<1> QED
  BY <1>2, <1>3, HeadCases

LEMMA RemoveHodTyped ==
  ASSUME TypeOK, LoginsKept, NEW p \in Staff, RemoveHod(p)
  PROVE  TypeOK' /\ LoginsKept'
<1>1. begun' \in 0..MaxBegun
  BY BegunTyped, TypedParts DEF RemoveHod
<1>2. login[p] \in Login
  BY DEF RemoveHod, LoginsKept
<1>3. /\ RoleAfterHod(p) \in Login \cup {GoneLogin}
      /\ IsLecturer(p) => RoleAfterHod(p) \in Login
  BY <1>2, LoginFields DEF RoleAfterHod
<1>4. TablesTyped'
  BY <1>1, <1>3 DEF TablesTyped, TypeOK, RemoveHod
<1>5. JobsTyped'
  BY TypedParts DEF JobsTyped, RemoveHod
<1>6. ASSUME NEW q \in Staff, IsLecturer(q)' \/ IsHead(q)'
      PROVE  login'[q] \in Login
  <2>1. CASE q = p
    BY <1>3, <1>6, <2>1 DEF RemoveHod, IsLecturer, IsHead, TypeOK
  <2>2. CASE q # p
    BY <1>6, <2>2 DEF RemoveHod, IsLecturer, IsHead, TypeOK, LoginsKept
  <2> QED
    BY <2>1, <2>2
<1> QED
  BY <1>4, <1>5, <1>6, TypedPartsNext DEF LoginsKept

LEMMA CreateCourseTyped ==
  ASSUME TypeOK, LoginsKept, NEW c \in Courses, NEW p \in Staff, CreateCourse(c, p)
  PROVE  TypeOK' /\ LoginsKept'
<1>1. begun' \in 0..MaxBegun
  BY BegunTyped, TypedParts DEF CreateCourse
<1>2. courses' \in [Courses -> Course \cup {NoCourse}]
  <2>1. [coordinator |-> p, co |-> {}, running |-> TRUE] \in Course
    BY DEF Course
  <2> QED
    BY <2>1 DEF CreateCourse, TypeOK
<1>3. allowed' \subseteq Courses
  BY DEF CreateCourse, Given, TypeOK
<1>4. TablesTyped'
  BY <1>1, <1>2, <1>3 DEF TablesTyped, TypeOK, CreateCourse
<1>5. JobsTyped'
  BY OvertakenTyped, TypedParts DEF JobsTyped, CreateCourse
<1>6. LoginsKept'
  BY DEF LoginsKept, IsLecturer, IsHead, CreateCourse
<1> QED
  BY <1>4, <1>5, <1>6, TypedPartsNext

LEMMA EndOrExtendTyped ==
  ASSUME TypeOK, LoginsKept, NEW c \in Courses, EndOrExtend(c)
  PROVE  TypeOK' /\ LoginsKept'
<1>1. begun' \in 0..MaxBegun
  BY BegunTyped, TypedParts DEF EndOrExtend
<1>2. courses[c] \in Course
  BY DEF EndOrExtend, IsCourse, TypeOK
<1>3. [courses[c] EXCEPT !.running = ~@] \in Course
  BY <1>2 DEF Course
<1>4. courses' \in [Courses -> Course \cup {NoCourse}]
  BY <1>3 DEF EndOrExtend, TypeOK
<1>5. TablesTyped'
  BY <1>1, <1>4 DEF TablesTyped, TypeOK, EndOrExtend
<1>6. JobsTyped'
  BY TypedParts DEF JobsTyped, EndOrExtend
<1>7. LoginsKept'
  BY DEF LoginsKept, IsLecturer, IsHead, EndOrExtend
<1> QED
  BY <1>5, <1>6, <1>7, TypedPartsNext

LEMMA ManageJobOf ==
  ASSUME TypeOK, NEW r \in Requests, CommitManage(r)
  PROVE  request[r] \in Job /\ ManageJob(request[r])
<1>1. request[r] \in Job
  BY DEF CommitManage, TypeOK, Idle
<1> QED
  BY <1>1, JobKinds DEF CommitManage, StatusJob, HeadJob, CopyJob

\* What a change of lecturers makes of the course: coordinator and
\* co-lecturers, the semester untouched.
LEMMA ManagedIs ==
  ASSUME NEW x \in Course, NEW j \in Job, ManageJob(j)
  PROVE  /\ Managed(x, j) \in Course
         /\ Managed(x, j).running = x.running
         /\ j.op = "add" => /\ Managed(x, j).coordinator = x.coordinator
                            /\ Managed(x, j).co = x.co \cup {j.who}
         /\ j.op = "remove" => /\ Managed(x, j).coordinator = x.coordinator
                               /\ Managed(x, j).co = x.co \ {j.who}
         /\ j.op = "coordinator" =>
              /\ Managed(x, j).coordinator = j.who
              /\ Managed(x, j).co = (IF j.who \in j.seen.co THEN x.co \ {j.who} ELSE x.co)
                                      \cup {j.seen.coordinator}
<1>1. /\ j.who \in Staff /\ j.seen \in Course /\ j.op \in {"add", "remove", "coordinator"}
      /\ j.seen.coordinator \in Staff /\ x.co \in SUBSET Staff
  BY CourseFields DEF ManageJob
<1>2. CASE j.op = "add"
  <2> DEFINE S == x.co \cup {j.who}
             y == [x EXCEPT !.co = S]
  <2>1. Managed(x, j) = y /\ S \in SUBSET Staff
    BY <1>1, <1>2 DEF Managed
  <2>2. y \in Course /\ y.coordinator = x.coordinator /\ y.co = S /\ y.running = x.running
    <3> HIDE DEF S
    <3> QED
      BY <1>1, <2>1 DEF Course
  <2> HIDE DEF y
  <2> QED
    BY <1>2, <2>1, <2>2
<1>3. CASE j.op = "remove"
  <2> DEFINE S == x.co \ {j.who}
             y == [x EXCEPT !.co = S]
  <2>1. Managed(x, j) = y /\ S \in SUBSET Staff
    BY <1>1, <1>3 DEF Managed
  <2>2. y \in Course /\ y.coordinator = x.coordinator /\ y.co = S /\ y.running = x.running
    <3> HIDE DEF S
    <3> QED
      BY <1>1, <2>1 DEF Course
  <2> HIDE DEF y
  <2> QED
    BY <1>3, <2>1, <2>2
<1>4. CASE j.op = "coordinator"
  <2> DEFINE S == (IF j.who \in j.seen.co THEN x.co \ {j.who} ELSE x.co) \cup {j.seen.coordinator}
             y == [x EXCEPT !.coordinator = j.who, !.co = S]
  <2>1. Managed(x, j) = y /\ S \in SUBSET Staff
    BY <1>1, <1>4 DEF Managed
  <2>2. y \in Course /\ y.coordinator = j.who /\ y.co = S /\ y.running = x.running
    <3> HIDE DEF S
    <3> QED
      BY <1>1, <2>1 DEF Course
  <2> HIDE DEF y
  <2> QED
    BY <1>4, <2>1, <2>2
<1> QED
  BY <1>1, <1>2, <1>3, <1>4

LEMMA ManageTyped ==
  ASSUME TypeOK, LoginsKept, NEW r \in Requests, CommitManage(r)
  PROVE  TypeOK' /\ LoginsKept'
<1> DEFINE j == request[r]
           c == j.course
           fits == IsCourse(c) /\ IsLecturer(j.who) /\ LinksFit(courses[c], j)
<1>1. j \in Job /\ ManageJob(j) /\ c \in Courses
  BY ManageJobOf DEF ManageJob
<1>2. CASE RolledBack(r)
  BY <1>2, RolledBackTyped DEF LoginsKept, IsLecturer, IsHead, RolledBack, tables
<1>3. CASE /\ fits
           /\ courses' = [courses EXCEPT ![c] = Managed(courses[c], j)]
           /\ allowed' = IF j.op = "remove" THEN allowed ELSE Given(c, j.who)
           /\ Committed(r)
           /\ UNCHANGED <<lecturers, heads, login, recorded>>
  <2>1. JobsTyped' /\ begun' \in 0..MaxBegun /\ raced' \subseteq Things
    BY <1>1, <1>3, CommittedTyped
  <2>2. courses[c] \in Course
    BY <1>1, <1>3 DEF IsCourse, TypeOK
  <2>3. Managed(courses[c], j) \in Course
    BY <1>1, <2>2, ManagedIs
  <2>4. courses' \in [Courses -> Course \cup {NoCourse}]
    BY <1>3, <2>3 DEF TypeOK
  <2>5. allowed' \subseteq Courses
    BY <1>1, <1>3 DEF Given, TypeOK
  <2>6. TablesTyped'
    BY <1>3, <2>1, <2>4, <2>5 DEF TablesTyped, TypeOK
  <2>7. LoginsKept'
    BY <1>3 DEF LoginsKept, IsLecturer, IsHead
  <2> QED
    BY <2>1, <2>6, <2>7, TypedPartsNext
<1> QED
  BY <1>2, <1>3 DEF CommitManage

LEMMA CopyJobOf ==
  ASSUME TypeOK, NEW r \in Requests, CommitCopy(r)
  PROVE  request[r] \in Job /\ CopyJob(request[r])
<1>1. request[r] \in Job
  BY DEF CommitCopy, TypeOK, Idle
<1> QED
  BY <1>1, JobKinds DEF CommitCopy, StatusJob, HeadJob, ManageJob

LEMMA CopyTyped ==
  ASSUME TypeOK, LoginsKept, NEW r \in Requests, CommitCopy(r)
  PROVE  TypeOK' /\ LoginsKept'
<1> DEFINE j == request[r]
<1>1. j \in Job /\ CopyJob(j)
  BY CopyJobOf
<1>2. CASE RolledBack(r)
  BY <1>2, RolledBackTyped DEF LoginsKept, IsLecturer, IsHead, RolledBack, tables
<1>3. CASE /\ courses' = [courses EXCEPT ![j.course] =
                [coordinator |-> j.first, co |-> j.rest, running |-> TRUE]]
           /\ Committed(r)
           /\ UNCHANGED <<lecturers, heads, login, recorded, allowed>>
  <2>1. JobsTyped' /\ begun' \in 0..MaxBegun /\ raced' \subseteq Things
    BY <1>1, <1>3, CommittedTyped
  <2>2. [coordinator |-> j.first, co |-> j.rest, running |-> TRUE] \in Course
    BY <1>1 DEF CopyJob, Course
  <2>3. TablesTyped'
    BY <1>3, <2>1, <2>2 DEF TablesTyped, TypeOK
  <2>4. LoginsKept'
    BY <1>3 DEF LoginsKept, IsLecturer, IsHead
  <2> QED
    BY <2>1, <2>3, <2>4, TypedPartsNext
<1> QED
  BY <1>2, <1>3 DEF CommitCopy

\* A confirmation saves nothing yet: it turns the preview into a plan whose
\* lecturers were active when it looked, or drops it.
LEMMA ConfirmMeans ==
  ASSUME TypeOK, NEW r \in Requests, ConfirmCopy(r)
  PROVE  \/ RolledBack(r)
         \/ \E j \in Job :
              /\ request' = [request EXCEPT ![r] = j]
              /\ UNCHANGED <<tables, begun, raced, allowed>>
              /\ CopyJob(j) /\ j.op = "confirm"
              /\ CopyJob(request[r]) /\ j.first = request[r].first /\ j.rest = request[r].rest
              /\ j.about = {j.course, j.first} \cup j.rest
              /\ \A p \in {j.first} \cup j.rest : Active(p)
<1> SUFFICES ASSUME ~RolledBack(r)
             PROVE  \E j \in Job :
                      /\ request' = [request EXCEPT ![r] = j]
                      /\ UNCHANGED <<tables, begun, raced, allowed>>
                      /\ CopyJob(j) /\ j.op = "confirm"
                      /\ CopyJob(request[r])
                      /\ j.first = request[r].first /\ j.rest = request[r].rest
                      /\ j.about = {j.course, j.first} \cup j.rest
                      /\ \A p \in {j.first} \cup j.rest : Active(p)
  OBVIOUS
<1>1. PICK i : i = request[r]
  OBVIOUS
<1>2. i \in Job /\ i.op = "copy"
  BY <1>1 DEF ConfirmCopy, TypeOK, Idle
<1>3. CopyJob(i)
  BY <1>2, JobKinds DEF StatusJob, HeadJob, ManageJob
<1>4. i \in [op : {"copy", "confirm"}, course : Courses, first : Staff, rest : SUBSET Staff,
             about : SUBSET Things, alone : BOOLEAN]
  BY <1>2 DEF Job
<1>5. PICK who : who = {i.course} \cup ({i.first} \cup i.rest)
  OBVIOUS
<1> DEFINE j == [i EXCEPT !.op = "confirm", !.about = who, !.alone = TRUE]
<1>6. who \in SUBSET Things
  BY <1>3, <1>5 DEF CopyJob, Things
<1>7. /\ j \in Job
      /\ j.op = "confirm" /\ j.course = i.course /\ j.first = i.first /\ j.rest = i.rest
      /\ j.about = who
  <2>1. /\ j.op = "confirm" /\ j.course = i.course /\ j.first = i.first /\ j.rest = i.rest
        /\ j.about = who
    BY <1>4
  <2>2. j \in [op : {"copy", "confirm"}, course : Courses, first : Staff, rest : SUBSET Staff,
               about : SUBSET Things, alone : BOOLEAN]
    BY <1>4, <1>6
  <2> HIDE DEF j
  <2> QED
    BY <2>1, <2>2 DEF Job
<1>8. /\ request' = [request EXCEPT ![r] = j]
      /\ UNCHANGED <<tables, begun, raced, allowed>>
      /\ \A p \in {i.first} \cup i.rest : Active(p)
  BY <1>1, <1>5 DEF ConfirmCopy, PlanOk
<1> HIDE DEF j
<1>9. CopyJob(j)
  BY <1>3, <1>7 DEF CopyJob
<1>10. j.about = {j.course, j.first} \cup j.rest
  BY <1>5, <1>7
<1>11. \A p \in {j.first} \cup j.rest : Active(p)
  BY <1>7, <1>8
<1>12. j \in Job
  BY <1>7
<1> WITNESS j \in Job
<1> QED
  BY <1>1, <1>3, <1>7, <1>8, <1>9, <1>10, <1>11

-----------------------------------------------------------------------------
(* What a job may rely on *)

\* A job is about what it changes, and its checks held when it was asked.
JobSound(j) ==
  /\ StatusJob(j) => j.who \in j.about
  /\ HeadJob(j) => j.who \in j.about /\ j.dept \in j.about
  /\ ManageJob(j) => /\ j.who \in j.about /\ j.course \in j.about
                     /\ j.who # j.seen.coordinator
                     /\ j.op = "add" => j.who \notin j.seen.co
  /\ CopyJob(j) => j.course \in j.about /\ j.first \notin j.rest
  /\ CopyJob(j) /\ j.op = "confirm" => {j.first} \cup j.rest \subseteq j.about

\* Whatever came in between, a login and a course once there stay known.
JobStands(j) ==
  /\ StatusJob(j) => login[j.who] # NoLogin
  /\ ManageJob(j) => IsCourse(j.course)

\* The running courses of somebody about to leave are those co-taught when
\* the page was loaded, but for courses given or disputed since.
NotTeaching(p, off) ==
  \A c \in Courses \ (raced \cup allowed) :
    IsCourse(c) /\ courses[c].running =>
      courses[c].coordinator # p /\ (p \in courses[c].co => c \in off)

\* A confirmed plan names active lecturers, but for those deleted since.
StillActive(j) ==
  CopyJob(j) /\ j.op = "confirm" =>
    \A p \in {j.first} \cup j.rest : lecturers[p] \in {"active", NoRow}

\* What was read still holds if nobody changed it since.
JobFresh(j) ==
  /\ StatusJob(j) /\ IsLecturer(j.who) =>
       /\ login[j.who].active = j.was.active
       /\ j.to = "left" => NotTeaching(j.who, j.off)
  /\ HeadJob(j) => HeadsOf(j.dept) \subseteq {j.who}
  /\ ManageJob(j) => /\ courses[j.course].coordinator = j.seen.coordinator
                     /\ courses[j.course].co \subseteq j.seen.co
  /\ StillActive(j)

JobSafe(j) == JobSound(j) /\ JobStands(j) /\ (j.alone => JobFresh(j))

JobsSafe == \A r \in Requests : \A j \in Job : request[r] = j => JobSafe(j)

\* One HOD per department, without counting.
OneHead ==
  \A d \in Departments \ raced : \A p, q \in HeadsOf(d) : p = q

Logins == LoginsKept /\ RoleFollowsHod /\ LoginFollowsStatus /\ OneHead
Teaching == TeachersListedOnce /\ LeftTeachNothing

Inv == TypeOK /\ Logins /\ Teaching /\ JobsSafe

\* A step that disturbs only jobs about some things keeps the jobs safe.
LEMMA JobsCarry ==
  ASSUME TypeOK, JobsSafe, NEW things,
         \A q \in Requests : request'[q] = Idle \/ request'[q] = Overtaken(things)[q],
         \A j \in Job : JobSafe(j) /\ (j.alone => j.about \cap things = {}) =>
                          JobStands(j)' /\ (j.alone => JobFresh(j)')
  PROVE  JobsSafe'
<1> SUFFICES ASSUME NEW q \in Requests, NEW k \in Job, request'[q] = k
             PROVE  JobSafe(k)'
  BY DEF JobsSafe
<1>1. k = Overtaken(things)[q]
  BY IdleIsNoJob
<1>2. CASE /\ Overtaken(things)[q] = request[q]
           /\ request[q] = Idle \/ request[q].about \cap things = {}
  <2>1. JobSafe(k) /\ k.about \cap things = {}
    BY <1>1, <1>2, IdleIsNoJob DEF JobsSafe
  <2>2. JobStands(k)' /\ (k.alone => JobFresh(k)')
    BY <2>1
  <2> QED
    BY <2>1, <2>2 DEF JobSafe, JobSound
<1>3. ASSUME request[q] \in Job, Overtaken(things)[q] = [request[q] EXCEPT !.alone = FALSE]
      PROVE  JobSafe(k)'
  <2>1. PICK j \in Job : j = request[q]
    BY <1>3
  <2>2. k = [j EXCEPT !.alone = FALSE]
    BY <1>1, <1>3, <2>1
  <2>3. /\ ~k.alone /\ k.op = j.op /\ k.about = j.about
        /\ StatusJob(j) => k.who = j.who /\ k.to = j.to /\ k.was = j.was /\ k.off = j.off
        /\ HeadJob(j) => k.who = j.who /\ k.dept = j.dept
        /\ ManageJob(j) => k.who = j.who /\ k.course = j.course /\ k.seen = j.seen
        /\ CopyJob(j) => k.course = j.course /\ k.first = j.first /\ k.rest = j.rest
    BY <2>2, OvertakenJob
  <2>4. JobSound(j) /\ JobStands(j)
    BY <2>1 DEF JobsSafe, JobSafe
  <2>5. StatusJob(j) \/ HeadJob(j) \/ ManageJob(j) \/ CopyJob(j)
    BY JobKinds
  <2>6. /\ StatusJob(k) => StatusJob(j)
        /\ HeadJob(k) => HeadJob(j)
        /\ ManageJob(k) => ManageJob(j)
        /\ CopyJob(k) => CopyJob(j)
    BY <2>3, <2>5 DEF StatusJob, HeadJob, ManageJob, CopyJob
  <2>7. JobSound(k) /\ JobStands(k)
    BY <2>3, <2>4, <2>6 DEF JobSound, JobStands
  <2>8. JobSafe(k)
    BY <2>3, <2>7 DEF JobSafe
  <2>9. JobStands(k)'
    BY <2>3, <2>8
  <2> QED
    BY <2>3, <2>7, <2>9 DEF JobSafe, JobSound
<1>4. JobsTyped
  BY TypedParts
<1> QED
  BY <1>2, <1>3, <1>4, OvertakenTyped

\* Asking changes no table.
LEMMA AskKeeps ==
  ASSUME Inv, NEW r \in Requests, NEW j \in Job, Ask(r, j), JobSafe(j)
  PROVE  Inv'
<1>1. TypeOK' /\ LoginsKept'
  BY BeginTyped DEF Inv, Logins
<1>2. UNCHANGED <<lecturers, heads, login, courses, recorded, raced, allowed>>
  BY DEF Ask, tables
<1>3. RoleFollowsHod' /\ LoginFollowsStatus' /\ OneHead' /\ Teaching'
  BY <1>2 DEF Inv, Logins, Teaching, RoleFollowsHod, LoginFollowsStatus, OneHead, HeadsOf, IsHead,
              IsLecturer, TeachersListedOnce, LeftTeachNothing, Teachers, IsCourse
<1>4. ASSUME NEW k \in Job, JobSafe(k)
      PROVE  JobSafe(k)'
  BY <1>2, <1>4 DEF JobSafe, JobSound, JobStands, JobFresh, StillActive, NotTeaching, HeadsOf, IsLecturer, IsCourse
<1>5. JobsSafe'
  <2> SUFFICES ASSUME NEW q \in Requests, NEW k \in Job, request'[q] = k
               PROVE  JobSafe(k)'
    BY DEF JobsSafe
  <2>1. JobSafe(k)
    BY DEF Ask, Inv, TypeOK, JobsSafe
  <2> QED
    BY <1>4, <2>1
<1> QED
  BY <1>1, <1>3, <1>5 DEF Inv, Logins

LEMMA RolledBackKeeps ==
  ASSUME Inv, NEW r \in Requests, RolledBack(r)
  PROVE  Inv'
<1>1. UNCHANGED <<lecturers, heads, login, courses, recorded, raced, allowed>>
  BY DEF RolledBack, tables
<1>2. TypeOK'
  BY RolledBackTyped DEF Inv
<1>3. Logins' /\ Teaching'
  BY <1>1 DEF Inv, Logins, LoginsKept, Teaching, RoleFollowsHod, LoginFollowsStatus, OneHead, HeadsOf,
              IsHead, IsLecturer, TeachersListedOnce, LeftTeachNothing, Teachers, IsCourse
<1>4. JobsSafe'
  <2> SUFFICES ASSUME NEW q \in Requests, NEW k \in Job, request'[q] = k
               PROVE  JobSafe(k)'
    BY DEF JobsSafe
  <2>1. JobSafe(k)
    BY IdleIsNoJob DEF RolledBack, Inv, TypeOK, JobsSafe
  <2> QED
    BY <1>1, <2>1 DEF JobSafe, JobSound, JobStands, JobFresh, StillActive, NotTeaching, HeadsOf, IsLecturer, IsCourse
<1> QED
  BY <1>2, <1>3, <1>4 DEF Inv

-----------------------------------------------------------------------------
(* Lecturers *)

LEMMA TeachersAreStaff ==
  ASSUME TypeOK, NEW c \in Courses, IsCourse(c)
  PROVE  courses[c] \in Course /\ Teachers(c) \subseteq Staff
<1>1. courses[c] \in Course
  BY DEF IsCourse, TypeOK
<1>2. courses[c].coordinator \in Staff /\ courses[c].co \in SUBSET Staff
  BY <1>1 DEF Course
<1> QED
  BY <1>1, <1>2 DEF Teachers

LEMMA HiredKeeps ==
  ASSUME Inv, NEW P \in SUBSET Staff, \A p \in P : login[p] = NoLogin, Hired(P)
  PROVE  Inv'
<1>1. TypeOK' /\ LoginsKept'
  BY HiredTyped DEF Inv, Logins
<1>2. /\ UNCHANGED <<heads, courses, raced, allowed, request>>
      /\ \A p \in Staff \ P : lecturers'[p] = lecturers[p] /\ login'[p] = login[p]
      /\ \A p \in P : /\ lecturers'[p] = "active" /\ ~IsHead(p)
                      /\ login'[p] = [role |-> "lecturer", active |-> TRUE]
  BY NoLoginIsNone DEF Hired, Inv, Logins, LoginsKept
<1>3. RoleFollowsHod'
  <2> SUFFICES ASSUME NEW p \in Staff
               PROVE  /\ IsHead(p)' => login'[p].role = "hod"
                      /\ login'[p].role = "hod" /\ (login'[p].active \/ IsLecturer(p)') => IsHead(p)'
    BY DEF RoleFollowsHod
  <2>1. CASE p \in P
    BY <1>2, <2>1 DEF IsHead
  <2>2. CASE p \notin P
    BY <1>2, <2>2 DEF IsHead, IsLecturer, Inv, Logins, RoleFollowsHod
  <2> QED
    BY <2>1, <2>2
<1>4. LoginFollowsStatus'
  <2> SUFFICES ASSUME NEW p \in Staff \ raced, IsLecturer(p)'
               PROVE  login'[p].active <=> lecturers'[p] = "active"
    BY <1>2 DEF LoginFollowsStatus
  <2>1. CASE p \in P
    BY <1>2, <2>1
  <2>2. CASE p \notin P
    BY <1>2, <2>2 DEF IsLecturer, Inv, Logins, LoginFollowsStatus
  <2> QED
    BY <2>1, <2>2
<1>5. OneHead' /\ TeachersListedOnce'
  BY <1>2 DEF Inv, Logins, Teaching, OneHead, HeadsOf, TeachersListedOnce, IsCourse
<1>6. LeftTeachNothing'
  <2>1. \A p \in Staff : lecturers'[p] = "left" => lecturers[p] = "left"
    BY <1>2
  <2>2. \A c \in Courses : IsCourse(c) => Teachers(c) \subseteq Staff
    BY TeachersAreStaff DEF Inv
  <2> QED
    BY <1>2, <2>1, <2>2 DEF Inv, Teaching, LeftTeachNothing, Teachers, IsCourse
<1>7. JobsSafe'
  <2>1. \A q \in Requests : request'[q] = Overtaken({})[q]
    BY <1>2 DEF Overtaken
  <2>2. ASSUME NEW j \in Job, JobSafe(j)
        PROVE  JobStands(j)' /\ (j.alone => JobFresh(j)')
    <3>1. StatusJob(j) => j.who \in Staff \ P
      BY <2>2 DEF StatusJob, JobSafe, JobStands
    <3>2. j.alone => StillActive(j)'
      BY <1>2, <2>2 DEF JobSafe, JobFresh, StillActive, CopyJob
    <3> QED
      BY <1>2, <2>2, <3>1, <3>2
      DEF JobSafe, JobStands, JobFresh, NotTeaching, HeadsOf, IsLecturer, IsCourse
  <2> QED
    BY <2>1, <2>2, JobsCarry DEF Inv
<1> QED
  BY <1>1, <1>3, <1>4, <1>5, <1>6, <1>7 DEF Inv, Logins, Teaching

LEMMA ActKeeps ==
  ASSUME Inv, NEW p \in Staff, Act(p)
  PROVE  Inv'
<1>1. TypeOK' /\ LoginsKept'
  BY ActTyped DEF Inv, Logins
<1>2. UNCHANGED <<lecturers, heads, login, courses, raced, allowed, request>>
  BY DEF Act
<1>3. RoleFollowsHod' /\ LoginFollowsStatus' /\ OneHead' /\ Teaching'
  BY <1>2 DEF Inv, Logins, Teaching, RoleFollowsHod, LoginFollowsStatus, OneHead, HeadsOf, IsHead,
              IsLecturer, TeachersListedOnce, LeftTeachNothing, Teachers, IsCourse
<1>4. JobsSafe'
  BY <1>2 DEF Inv, JobsSafe, JobSafe, JobSound, JobStands, JobFresh, StillActive, NotTeaching, HeadsOf,
              IsLecturer, IsCourse
<1> QED
  BY <1>1, <1>3, <1>4 DEF Inv, Logins

\* Courses lose co-lecturers at most.
CoursesShrink ==
  \A c \in Courses :
    /\ IsCourse(c)' <=> IsCourse(c)
    /\ IsCourse(c) => /\ courses'[c].coordinator = courses[c].coordinator
                      /\ courses'[c].co \subseteq courses[c].co
                      /\ courses'[c].running = courses[c].running

LEMMA ShrinkKeepsTeaching ==
  ASSUME Inv, CoursesShrink, raced \subseteq raced', UNCHANGED allowed,
         \A p \in Staff \ raced' : lecturers'[p] = "left" =>
           \/ lecturers[p] = "left"
           \/ \A c \in Courses \ (raced' \cup allowed) : IsCourse(c) /\ courses[c].running =>
                p # courses'[c].coordinator /\ p \notin courses'[c].co
  PROVE  Teaching'
<1>1. TeachersListedOnce'
  BY DEF Inv, Teaching, TeachersListedOnce, CoursesShrink
<1>2. LeftTeachNothing'
  <2> SUFFICES ASSUME NEW c \in Courses, c \notin raced' \cup allowed,
                      IsCourse(c)', courses'[c].running,
                      NEW p \in Teachers(c)', p \notin raced', lecturers'[p] = "left"
               PROVE  FALSE
    <3>1. allowed' = allowed
      OBVIOUS
    <3> QED
      BY <3>1 DEF LeftTeachNothing
  <2>1. IsCourse(c) /\ courses[c].running /\ p \in Teachers(c)
    BY DEF CoursesShrink, Teachers
  <2>2. Teachers(c) \subseteq Staff
    BY <2>1, TeachersAreStaff DEF Inv
  <2>3. p = courses'[c].coordinator \/ p \in courses'[c].co
    BY DEF Teachers
  <2>4. p \in Staff \ raced' /\ c \in Courses \ (raced' \cup allowed)
    BY <2>1, <2>2
  <2>5. lecturers[p] = "left"
    BY <2>1, <2>3, <2>4
  <2> QED
    BY <2>1, <2>4, <2>5 DEF Inv, Teaching, LeftTeachNothing
<1> QED
  BY <1>1, <1>2 DEF Teaching

LEMMA DeleteLecturerKeeps ==
  ASSUME Inv, NEW p \in Staff, DeleteLecturer(p)
  PROVE  Inv'
<1>1. TypeOK' /\ LoginsKept'
  BY DeleteLecturerTyped DEF Inv, Logins
<1>2. /\ UNCHANGED <<heads, raced, allowed, request>>
      /\ ~IsHead(p) /\ lecturers'[p] = NoRow /\ login'[p] = GoneLogin
      /\ \A q \in Staff \ {p} : lecturers'[q] = lecturers[q] /\ login'[q] = login[q]
  BY DEF DeleteLecturer, Inv, TypeOK
<1>3. CoursesShrink
  <2> SUFFICES ASSUME NEW c \in Courses
               PROVE  /\ IsCourse(c)' <=> IsCourse(c)
                      /\ IsCourse(c) => /\ courses'[c].coordinator = courses[c].coordinator
                                        /\ courses'[c].co \subseteq courses[c].co
                                        /\ courses'[c].running = courses[c].running
    BY DEF CoursesShrink
  <2>1. CASE IsCourse(c)
    <3>1. courses[c] \in Course
      BY <2>1 DEF IsCourse, Inv, TypeOK
    <3>2. courses'[c] = [courses[c] EXCEPT !.co = courses[c].co \ {p}]
      BY <2>1 DEF DeleteLecturer
    <3>3. /\ courses'[c] \in Course
          /\ courses'[c].coordinator = courses[c].coordinator
          /\ courses'[c].co = courses[c].co \ {p}
          /\ courses'[c].running = courses[c].running
      BY <3>1, <3>2 DEF Course
    <3> QED
      BY <2>1, <3>3, NoCourseIsNone DEF IsCourse
  <2>2. CASE ~IsCourse(c)
    BY <2>2 DEF DeleteLecturer, IsCourse
  <2> QED
    BY <2>1, <2>2
<1>4. RoleFollowsHod'
  <2> SUFFICES ASSUME NEW q \in Staff
               PROVE  /\ IsHead(q)' => login'[q].role = "hod"
                      /\ login'[q].role = "hod" /\ (login'[q].active \/ IsLecturer(q)') => IsHead(q)'
    BY DEF RoleFollowsHod
  <2>1. CASE q = p
    BY <1>2, <2>1 DEF IsHead, GoneLogin
  <2>2. CASE q # p
    BY <1>2, <2>2 DEF IsHead, IsLecturer, Inv, Logins, RoleFollowsHod
  <2> QED
    BY <2>1, <2>2
<1>5. LoginFollowsStatus'
  BY <1>2 DEF IsLecturer, Inv, Logins, LoginFollowsStatus
<1>6. OneHead'
  BY <1>2 DEF Inv, Logins, OneHead, HeadsOf
<1>7. Teaching'
  BY <1>2, <1>3, ShrinkKeepsTeaching DEF NoRow
<1>8. JobsSafe'
  <2>1. \A q \in Requests : request'[q] = Overtaken({})[q]
    BY <1>2 DEF Overtaken
  <2>2. ASSUME NEW j \in Job, JobSafe(j)
        PROVE  JobStands(j)' /\ (j.alone => JobFresh(j)')
    <3>1. JobStands(j)'
      BY <1>2, <1>3, <2>2, NoLoginIsNone DEF JobSafe, JobStands, CoursesShrink, StatusJob, ManageJob
    <3>2. ASSUME j.alone PROVE JobFresh(j)'
      <4>1. HeadJob(j) => HeadsOf(j.dept)' \subseteq {j.who}
        BY <1>2, <2>2, <3>2 DEF JobSafe, JobFresh, HeadsOf
      <4>2. ManageJob(j) => /\ courses'[j.course].coordinator = j.seen.coordinator
                            /\ courses'[j.course].co \subseteq j.seen.co
        BY <1>3, <2>2, <3>2 DEF JobSafe, JobFresh, JobStands, CoursesShrink, ManageJob
      <4>3. ASSUME StatusJob(j), IsLecturer(j.who)'
            PROVE  /\ login'[j.who].active = j.was.active
                   /\ j.to = "left" => NotTeaching(j.who, j.off)'
        <5>1. j.who \in Staff /\ j.who # p
          BY <1>2, <4>3 DEF StatusJob, IsLecturer
        <5>2. /\ login'[j.who] = login[j.who] /\ login[j.who].active = j.was.active
              /\ j.to = "left" => NotTeaching(j.who, j.off)
          BY <1>2, <2>2, <3>2, <4>3, <5>1 DEF JobSafe, JobFresh, IsLecturer
        <5> QED
          BY <1>2, <1>3, <5>2 DEF NotTeaching, CoursesShrink
      <4>4. StillActive(j)'
        BY <1>2, <2>2, <3>2 DEF JobSafe, JobFresh, StillActive, CopyJob
      <4> QED
        BY <4>1, <4>2, <4>3, <4>4 DEF JobFresh
    <3> QED
      BY <3>1, <3>2
  <2> QED
    BY <2>1, <2>2, JobsCarry DEF Inv
<1> QED
  BY <1>1, <1>4, <1>5, <1>6, <1>7, <1>8 DEF Inv, Logins

\* Overtaking all who are about the same, and counting what was not alone.
LEMMA CommittedMeans ==
  ASSUME TypeOK, NEW r \in Requests, request[r] \in Job, Committed(r)
  PROVE  /\ \A q \in Requests :
              request'[q] = Idle \/ request'[q] = Overtaken(request[r].about)[q]
         /\ raced \subseteq raced'
         /\ request[r].alone => raced' = raced
         /\ ~request[r].alone => request[r].about \subseteq raced'
<1>1. Overtaken(request[r].about) \in [Requests -> Job \cup {Idle}]
  BY OvertakenTyped, TypedParts
<1> QED
  BY <1>1 DEF Committed

LEMMA StatusKeeps ==
  ASSUME Inv, NEW r \in Requests, CommitStatus(r)
  PROVE  Inv'
<1>1. PICK j \in Job : j = request[r] /\ StatusJob(j)
  <2>1. request[r] \in Job
    BY DEF CommitStatus, Inv, TypeOK, Idle
  <2> QED
    BY <2>1, JobKinds DEF CommitStatus, HeadJob, ManageJob, CopyJob
<1> DEFINE p == j.who
           on == j.to = "active"
<1>2. /\ p \in Staff /\ j.to \in Statuses /\ j.was \in Login /\ j.off \in SUBSET Courses
      /\ p \in j.about
      /\ j.alone => JobFresh(j)
  BY <1>1 DEF StatusJob, Inv, JobsSafe, JobSafe, JobSound
<1>3. TypeOK' /\ LoginsKept'
  BY StatusTyped DEF Inv, Logins
<1>4. CASE RolledBack(r)
  BY <1>4, RolledBackKeeps
<1>5. CASE /\ IsLecturer(p)
           /\ \A c \in j.off : IsCourse(c) /\ p \in courses[c].co
           /\ lecturers' = [lecturers EXCEPT ![p] = j.to]
           /\ login' = [login EXCEPT ![p] = Switched(p, j.was, on)]
           /\ courses' = [c \in Courses |->
                IF c \in j.off THEN [courses[c] EXCEPT !.co = @ \ {p}] ELSE courses[c]]
           /\ Committed(r)
           /\ UNCHANGED <<heads, recorded, allowed>>
  <2>1. /\ \A q \in Requests : request'[q] = Idle \/ request'[q] = Overtaken(j.about)[q]
        /\ raced \subseteq raced'
        /\ j.alone => raced' = raced
        /\ ~j.alone => j.about \subseteq raced'
    BY <1>1, <1>5, CommittedMeans DEF Inv
  <2>2. /\ \A q \in Staff \ {p} : lecturers'[q] = lecturers[q] /\ login'[q] = login[q]
        /\ lecturers'[p] = j.to /\ IsLecturer(p)'
        /\ heads' = heads /\ allowed' = allowed
    <3>1. lecturers'[p] = j.to /\ \A q \in Staff \ {p} : lecturers'[q] = lecturers[q]
      BY <1>2, <1>5 DEF Inv, TypeOK
    <3>2. \A q \in Staff \ {p} : login'[q] = login[q]
      BY <1>2, <1>5 DEF Inv, TypeOK
    <3> QED
      BY <1>2, <1>5, <3>1, <3>2 DEF IsLecturer, Statuses, NoRow
  <2>3. login[p] \in Login
    BY <1>2, <1>5 DEF Inv, Logins, LoginsKept
  <2>4. /\ login'[p] \in Login /\ login'[p].role = login[p].role
        /\ login'[p].active = IF j.was.active = on THEN login[p].active ELSE on
    <3>1. login'[p] = Switched(p, j.was, on)
      BY <1>2, <1>5 DEF Inv, TypeOK
    <3>2. on \in BOOLEAN
      OBVIOUS
    <3> HIDE DEF on
    <3>3. /\ [login[p] EXCEPT !.active = on] \in Login
          /\ [login[p] EXCEPT !.active = on].role = login[p].role
          /\ [login[p] EXCEPT !.active = on].active = on
      BY <2>3, <3>2 DEF Login
    <3> QED
      BY <2>3, <3>1, <3>3 DEF Switched
  <2>5. CoursesShrink /\ \A c \in j.off : p \notin courses'[c].co
    <3>1. ASSUME NEW c \in Courses
          PROVE  /\ IsCourse(c)' <=> IsCourse(c)
                 /\ IsCourse(c) => /\ courses'[c].coordinator = courses[c].coordinator
                                   /\ courses'[c].co \subseteq courses[c].co
                                   /\ courses'[c].running = courses[c].running
                 /\ c \in j.off => p \notin courses'[c].co
      <4>1. CASE c \in j.off
        <5>1. courses[c] \in Course /\ IsCourse(c)
          BY <1>5, <4>1 DEF IsCourse, Inv, TypeOK
        <5>2. courses'[c] = [courses[c] EXCEPT !.co = courses[c].co \ {p}]
          BY <1>5, <4>1
        <5>3. /\ courses'[c] \in Course
              /\ courses'[c].coordinator = courses[c].coordinator
              /\ courses'[c].co = courses[c].co \ {p}
              /\ courses'[c].running = courses[c].running
          BY <5>1, <5>2 DEF Course
        <5> QED
          BY <5>1, <5>3, NoCourseIsNone DEF IsCourse
      <4>2. CASE c \notin j.off
        BY <1>5, <4>2 DEF IsCourse
      <4> QED
        BY <4>1, <4>2
    <3> QED
      BY <1>2, <3>1 DEF CoursesShrink
  <2>6. RoleFollowsHod'
    <3> SUFFICES ASSUME NEW q \in Staff
                 PROVE  /\ IsHead(q)' => login'[q].role = "hod"
                        /\ login'[q].role = "hod" /\ (login'[q].active \/ IsLecturer(q)') => IsHead(q)'
      BY DEF RoleFollowsHod
    <3>1. CASE q = p
      BY <1>2, <1>5, <2>2, <2>4, <3>1 DEF IsHead, Inv, Logins, RoleFollowsHod
    <3>2. CASE q # p
      BY <2>2, <3>2 DEF IsHead, IsLecturer, Inv, Logins, RoleFollowsHod
    <3> QED
      BY <3>1, <3>2
  <2>7. LoginFollowsStatus'
    <3> SUFFICES ASSUME NEW q \in Staff, q \notin raced', IsLecturer(q)'
                 PROVE  login'[q].active <=> lecturers'[q] = "active"
      BY DEF LoginFollowsStatus
    <3>1. CASE q = p
      <4>1. j.alone
        BY <1>2, <2>1, <3>1
      <4>2. login[p].active = j.was.active
        BY <1>1, <1>2, <1>5, <4>1 DEF JobFresh
      <4>3. login'[p].active = on
        BY <2>4, <4>2
      <4> QED
        BY <2>2, <3>1, <4>3
    <3>2. CASE q # p
      BY <2>1, <2>2, <3>2 DEF IsLecturer, Inv, Logins, LoginFollowsStatus
    <3> QED
      BY <3>1, <3>2
  <2>8. OneHead'
    BY <2>1, <2>2 DEF Inv, Logins, OneHead, HeadsOf
  <2>9. Teaching'
    <3>1. ASSUME NEW q \in Staff \ raced', lecturers'[q] = "left", lecturers[q] # "left",
                 NEW c \in Courses \ (raced' \cup allowed), IsCourse(c), courses[c].running
          PROVE  q # courses'[c].coordinator /\ q \notin courses'[c].co
      <4>1. q = p /\ j.to = "left" /\ j.alone
        BY <1>2, <2>1, <2>2, <3>1
      <4>2. NotTeaching(p, j.off) /\ raced' = raced
        BY <1>1, <1>2, <1>5, <2>1, <4>1 DEF JobFresh
      <4>3. courses[c].coordinator # p /\ (p \in courses[c].co => c \in j.off)
        BY <3>1, <4>2 DEF NotTeaching
      <4> QED
        BY <2>5, <3>1, <4>1, <4>3 DEF CoursesShrink
    <3> QED
      BY <2>1, <2>2, <2>5, <3>1, ShrinkKeepsTeaching
  <2>10. JobsSafe'
    <3>1. ASSUME NEW k \in Job, JobSafe(k), k.alone => k.about \cap j.about = {}
          PROVE  JobStands(k)' /\ (k.alone => JobFresh(k)')
      <4>1. JobStands(k)'
        BY <2>2, <2>4, <2>5, <3>1, NoLoginIsNone
        DEF JobSafe, JobStands, CoursesShrink, StatusJob, ManageJob
      <4>2. ASSUME k.alone PROVE JobFresh(k)'
        <5>1. HeadJob(k) => HeadsOf(k.dept)' \subseteq {k.who}
          BY <2>2, <3>1, <4>2 DEF JobSafe, JobFresh, HeadsOf
        <5>2. ManageJob(k) => /\ courses'[k.course].coordinator = k.seen.coordinator
                              /\ courses'[k.course].co \subseteq k.seen.co
          BY <2>5, <3>1, <4>2 DEF JobSafe, JobFresh, JobStands, CoursesShrink, ManageJob
        <5>3. ASSUME StatusJob(k), IsLecturer(k.who)'
              PROVE  /\ login'[k.who].active = k.was.active
                     /\ k.to = "left" => NotTeaching(k.who, k.off)'
          <6>1. k.who \in Staff /\ k.who # p
            BY <1>2, <3>1, <4>2, <5>3 DEF StatusJob, JobSafe, JobSound
          <6>2. /\ login'[k.who] = login[k.who] /\ login[k.who].active = k.was.active
                /\ k.to = "left" => NotTeaching(k.who, k.off)
            BY <2>2, <3>1, <4>2, <5>3, <6>1 DEF JobSafe, JobFresh, IsLecturer
          <6> QED
            BY <2>1, <2>2, <2>5, <6>2 DEF NotTeaching, CoursesShrink
        <5>4. ASSUME CopyJob(k), k.op = "confirm", NEW q \in {k.first} \cup k.rest
              PROVE  lecturers'[q] \in {"active", NoRow}
          <6>1. q \in Staff /\ q # p
            BY <1>2, <3>1, <4>2, <5>4 DEF CopyJob, JobSafe, JobSound
          <6>2. lecturers[q] \in {"active", NoRow}
            BY <3>1, <4>2, <5>4 DEF JobSafe, JobFresh, StillActive
          <6> QED
            BY <2>2, <6>1, <6>2
        <5> QED
          BY <5>1, <5>2, <5>3, <5>4 DEF JobFresh, StillActive
      <4> QED
        BY <4>1, <4>2
    <3> QED
      BY <2>1, <3>1, JobsCarry DEF Inv
  <2> QED
    BY <1>3, <2>6, <2>7, <2>8, <2>9, <2>10 DEF Inv, Logins
<1> QED
  BY <1>1, <1>4, <1>5 DEF CommitStatus

-----------------------------------------------------------------------------
(* Heads of department *)

\* Teaching is about lecturers and courses only.
LEMMA TeachingUnchanged ==
  ASSUME Teaching, UNCHANGED <<lecturers, courses, allowed>>, raced \subseteq raced'
  PROVE  Teaching'
  BY DEF Teaching, TeachersListedOnce, LeftTeachNothing, Teachers, IsCourse

LEMMA HeadKeeps ==
  ASSUME Inv, NEW r \in Requests, CommitHead(r)
  PROVE  Inv'
<1>1. PICK j \in Job : j = request[r] /\ HeadJob(j)
  BY HeadJobOf DEF Inv
<1> DEFINE p == j.who
<1>2. /\ p \in Staff /\ j.dept \in Departments /\ j.op \in {"promote", "create", "move"}
      /\ p \in j.about /\ j.dept \in j.about
      /\ j.alone => JobFresh(j)
  BY <1>1 DEF HeadJob, Inv, JobsSafe, JobSafe, JobSound
<1>3. TypeOK' /\ LoginsKept'
  BY HeadTyped DEF Inv, Logins
<1>4. CASE RolledBack(r)
  BY <1>4, RolledBackKeeps
<1>5. CASE HeadMade(r)
  <2>1. /\ \A q \in Requests : request'[q] = Idle \/ request'[q] = Overtaken(j.about)[q]
        /\ raced \subseteq raced'
        /\ j.alone => raced' = raced
        /\ ~j.alone => j.about \subseteq raced'
    BY <1>1, <1>5, CommittedMeans DEF Inv, HeadMade
  <2>2. /\ UNCHANGED <<lecturers, courses, allowed>>
        /\ heads'[p] = j.dept /\ IsHead(p)'
        /\ \A q \in Staff \ {p} : heads'[q] = heads[q] /\ login'[q] = login[q]
    <3>1. UNCHANGED <<lecturers, courses, allowed>> /\ heads' = [heads EXCEPT ![p] = j.dept]
      BY <1>1, <1>5 DEF HeadMade
    <3>2. heads'[p] = j.dept /\ \A q \in Staff \ {p} : heads'[q] = heads[q]
      BY <1>2, <3>1 DEF Inv, TypeOK
    <3>3. \A q \in Staff \ {p} : login'[q] = login[q]
      BY <1>1, <1>2, <1>5 DEF HeadMade, Inv, TypeOK
    <3> QED
      BY <1>2, <3>1, <3>2, <3>3, StaffAssumption DEF IsHead
  <2>3. login'[p] \in Login /\ login'[p].role = "hod"
        /\ (IsLecturer(p) => login'[p].active = login[p].active)
    <3>1. CASE IsLecturer(p) /\ login' = [login EXCEPT ![p].role = "hod"]
      <4>1. login[p] \in Login
        BY <1>2, <3>1 DEF Inv, Logins, LoginsKept
      <4>2. login'[p] = [login[p] EXCEPT !.role = "hod"]
        <5>1. p \in DOMAIN login
          BY <1>2 DEF Inv, TypeOK
        <5>2. login' = [login EXCEPT ![p] = [login[p] EXCEPT !.role = "hod"]]
          BY <3>1, Zenon
        <5> QED
          BY <5>1, <5>2
      <4> QED
        BY <4>1, <4>2 DEF Login
    <3>2. CASE login[p] = NoLogin /\ login' = [login EXCEPT ![p] = [role |-> "hod", active |-> TRUE]]
      <4>1. login'[p] = [role |-> "hod", active |-> TRUE]
        BY <1>2, <3>2 DEF Inv, TypeOK
      <4>2. ~IsLecturer(p)
        BY <1>2, <3>2, NoLoginIsNone DEF Inv, Logins, LoginsKept
      <4> QED
        BY <4>1, <4>2, NewLogin
    <3>3. CASE IsHead(p) /\ login' = login
      BY <1>2, <3>3 DEF Inv, Logins, LoginsKept, RoleFollowsHod
    <3> QED
      BY <1>1, <1>5, <3>1, <3>2, <3>3 DEF HeadMade
  <2>4. RoleFollowsHod'
    <3> SUFFICES ASSUME NEW q \in Staff
                 PROVE  /\ IsHead(q)' => login'[q].role = "hod"
                        /\ login'[q].role = "hod" /\ (login'[q].active \/ IsLecturer(q)') => IsHead(q)'
      BY DEF RoleFollowsHod
    <3>1. CASE q = p
      BY <2>2, <2>3, <3>1
    <3>2. CASE q # p
      BY <2>2, <3>2 DEF IsHead, IsLecturer, Inv, Logins, RoleFollowsHod
    <3> QED
      BY <3>1, <3>2
  <2>5. LoginFollowsStatus'
    <3> SUFFICES ASSUME NEW q \in Staff, q \notin raced', IsLecturer(q)'
                 PROVE  login'[q].active <=> lecturers'[q] = "active"
      BY DEF LoginFollowsStatus
    <3>1. login'[q].active <=> login[q].active
      BY <2>2, <2>3 DEF IsLecturer
    <3> QED
      BY <2>1, <2>2, <3>1 DEF IsLecturer, Inv, Logins, LoginFollowsStatus
  <2>6. OneHead'
    <3> SUFFICES ASSUME NEW d \in Departments, d \notin raced',
                        NEW x \in Staff, NEW y \in Staff, heads'[x] = d, heads'[y] = d
                 PROVE  x = y
      BY DEF OneHead, HeadsOf
    <3>1. CASE d = j.dept
      <4>1. HeadsOf(d) \subseteq {p}
        BY <1>1, <1>2, <2>1, <3>1 DEF JobFresh
      <4>2. x = p /\ y = p
        BY <2>2, <4>1 DEF HeadsOf
      <4> QED
        BY <4>2
    <3>2. CASE d # j.dept
      <4>1. x \in HeadsOf(d) /\ y \in HeadsOf(d)
        BY <2>2, <3>2 DEF HeadsOf
      <4> QED
        BY <2>1, <4>1 DEF Inv, Logins, OneHead
    <3> QED
      BY <3>1, <3>2
  <2>7. Teaching'
    BY <2>1, <2>2, TeachingUnchanged DEF Inv
  <2>8. JobsSafe'
    <3>1. ASSUME NEW k \in Job, JobSafe(k), k.alone => k.about \cap j.about = {}
          PROVE  JobStands(k)' /\ (k.alone => JobFresh(k)')
      <4>1. JobStands(k)'
        BY <2>2, <2>3, <3>1, NoLoginIsNone DEF JobSafe, JobStands, StatusJob, IsCourse
      <4>2. ASSUME k.alone PROVE JobFresh(k)'
        <5>1. ASSUME HeadJob(k) PROVE HeadsOf(k.dept)' \subseteq {k.who}
          <6>1. k.dept # j.dept
            BY <1>2, <3>1, <4>2, <5>1 DEF JobSafe, JobSound
          <6>2. HeadsOf(k.dept)' \subseteq HeadsOf(k.dept)
            BY <2>2, <6>1 DEF HeadsOf
          <6> QED
            BY <3>1, <4>2, <5>1, <6>2 DEF JobSafe, JobFresh
        <5>2. ManageJob(k) => /\ courses'[k.course].coordinator = k.seen.coordinator
                              /\ courses'[k.course].co \subseteq k.seen.co
          BY <2>2, <3>1, <4>2 DEF JobSafe, JobFresh
        <5>3. ASSUME StatusJob(k), IsLecturer(k.who)'
              PROVE  /\ login'[k.who].active = k.was.active
                     /\ k.to = "left" => NotTeaching(k.who, k.off)'
          <6>1. k.who \in Staff /\ k.who # p
            BY <1>2, <3>1, <4>2, <5>3 DEF StatusJob, JobSafe, JobSound
          <6>2. /\ login'[k.who] = login[k.who] /\ login[k.who].active = k.was.active
                /\ k.to = "left" => NotTeaching(k.who, k.off)
            BY <2>2, <3>1, <4>2, <5>3, <6>1 DEF JobSafe, JobFresh, IsLecturer
          <6> QED
            BY <2>1, <2>2, <6>2 DEF NotTeaching, IsCourse
        <5>4. StillActive(k)'
          BY <2>2, <3>1, <4>2 DEF JobSafe, JobFresh, StillActive
        <5> QED
          BY <5>1, <5>2, <5>3, <5>4 DEF JobFresh
      <4> QED
        BY <4>1, <4>2
    <3> QED
      BY <2>1, <3>1, JobsCarry DEF Inv
  <2> QED
    BY <1>3, <2>4, <2>5, <2>6, <2>7, <2>8 DEF Inv, Logins
<1> QED
  BY <1>4, <1>5, HeadCases

LEMMA RemoveHodKeeps ==
  ASSUME Inv, NEW p \in Staff, RemoveHod(p)
  PROVE  Inv'
<1>1. TypeOK' /\ LoginsKept'
  BY RemoveHodTyped DEF Inv, Logins
<1>2. /\ UNCHANGED <<lecturers, courses, raced, allowed, request>>
      /\ heads'[p] = NoDepartment /\ ~IsHead(p)'
      /\ \A q \in Staff \ {p} : heads'[q] = heads[q] /\ login'[q] = login[q]
  BY DEF RemoveHod, Inv, TypeOK, IsHead
<1>3. /\ login'[p] # NoLogin
      /\ login'[p].role = "hod" => ~login'[p].active /\ ~IsLecturer(p)
      /\ IsLecturer(p) => login'[p].active = login[p].active
  <2>1. login[p] \in Login /\ login'[p] = RoleAfterHod(p)
    BY DEF RemoveHod, Inv, Logins, LoginsKept, TypeOK
  <2>2. CASE IsLecturer(p)
    <3>1. login'[p] = [login[p] EXCEPT !.role = "lecturer"]
      BY <2>1, <2>2 DEF RoleAfterHod
    <3>2. /\ login'[p] \in Login /\ login'[p].role = "lecturer"
          /\ login'[p].active = login[p].active
      BY <2>1, <3>1 DEF Login
    <3> QED
      BY <2>2, <3>2, NoLoginIsNone
  <2>3. CASE ~IsLecturer(p) /\ p \notin recorded
    <3>1. login'[p] = GoneLogin
      BY <2>1, <2>3 DEF RoleAfterHod
    <3>2. GoneLogin.role = "deleted"
      BY DEF GoneLogin
    <3> QED
      BY <2>3, <3>1, <3>2, NoLoginIsNone
  <2>4. CASE ~IsLecturer(p) /\ p \in recorded
    <3>1. login'[p] = [login[p] EXCEPT !.active = FALSE]
      BY <2>1, <2>4 DEF RoleAfterHod
    <3>2. login'[p] \in Login /\ ~login'[p].active
      BY <2>1, <3>1 DEF Login
    <3> QED
      BY <2>4, <3>2, NoLoginIsNone
  <2> QED
    BY <2>2, <2>3, <2>4
<1>4. RoleFollowsHod'
  <2> SUFFICES ASSUME NEW q \in Staff
               PROVE  /\ IsHead(q)' => login'[q].role = "hod"
                      /\ login'[q].role = "hod" /\ (login'[q].active \/ IsLecturer(q)') => IsHead(q)'
    BY DEF RoleFollowsHod
  <2>1. CASE q = p
    BY <1>2, <1>3, <2>1 DEF IsLecturer
  <2>2. CASE q # p
    BY <1>2, <2>2 DEF IsHead, IsLecturer, Inv, Logins, RoleFollowsHod
  <2> QED
    BY <2>1, <2>2
<1>5. LoginFollowsStatus'
  <2> SUFFICES ASSUME NEW q \in Staff, q \notin raced', IsLecturer(q)'
               PROVE  login'[q].active <=> lecturers'[q] = "active"
    BY DEF LoginFollowsStatus
  <2>1. login'[q].active = login[q].active
    BY <1>2, <1>3 DEF IsLecturer
  <2> QED
    BY <1>2, <2>1 DEF IsLecturer, Inv, Logins, LoginFollowsStatus
<1>6. \A d \in Departments : HeadsOf(d)' \subseteq HeadsOf(d)
  BY <1>2, StaffAssumption DEF HeadsOf
<1>7. OneHead'
  BY <1>2, <1>6 DEF Inv, Logins, OneHead
<1>8. Teaching'
  BY <1>2, TeachingUnchanged DEF Inv
<1>9. JobsSafe'
  <2>1. \A q \in Requests : request'[q] = Overtaken({})[q]
    BY <1>2 DEF Overtaken
  <2>2. ASSUME NEW k \in Job, JobSafe(k)
        PROVE  JobStands(k)' /\ (k.alone => JobFresh(k)')
    <3>1. JobStands(k)'
      BY <1>2, <1>3, <2>2 DEF JobSafe, JobStands, StatusJob, IsCourse
    <3>2. ASSUME k.alone PROVE JobFresh(k)'
      <4>1. HeadJob(k) => HeadsOf(k.dept)' \subseteq {k.who}
        BY <1>6, <2>2, <3>2 DEF JobSafe, JobFresh, HeadJob
      <4>2. ManageJob(k) => /\ courses'[k.course].coordinator = k.seen.coordinator
                            /\ courses'[k.course].co \subseteq k.seen.co
        BY <1>2, <2>2, <3>2 DEF JobSafe, JobFresh
      <4>3. ASSUME StatusJob(k), IsLecturer(k.who)'
            PROVE  /\ login'[k.who].active = k.was.active
                   /\ k.to = "left" => NotTeaching(k.who, k.off)'
        <5>1. login'[k.who].active = login[k.who].active /\ IsLecturer(k.who)
          BY <1>2, <1>3, <4>3 DEF StatusJob, IsLecturer
        <5>2. login[k.who].active = k.was.active /\ (k.to = "left" => NotTeaching(k.who, k.off))
          BY <2>2, <3>2, <4>3, <5>1 DEF JobSafe, JobFresh
        <5> QED
          BY <1>2, <5>1, <5>2 DEF NotTeaching, IsCourse
      <4>4. StillActive(k)'
        BY <1>2, <2>2, <3>2 DEF JobSafe, JobFresh, StillActive
      <4> QED
        BY <4>1, <4>2, <4>3, <4>4 DEF JobFresh
    <3> QED
      BY <3>1, <3>2
  <2> QED
    BY <2>1, <2>2, JobsCarry DEF Inv
<1> QED
  BY <1>1, <1>4, <1>5, <1>7, <1>8, <1>9 DEF Inv, Logins

-----------------------------------------------------------------------------
(* Courses *)

LEMMA LoginsUnchanged ==
  ASSUME Logins, UNCHANGED <<lecturers, heads, login>>, raced \subseteq raced'
  PROVE  Logins'
  BY DEF Logins, LoginsKept, RoleFollowsHod, LoginFollowsStatus, OneHead, HeadsOf, IsHead, IsLecturer

\* A step on courses that leaves people alone keeps the jobs that are not
\* about them.
LEMMA CourseJobsCarry ==
  ASSUME Inv, UNCHANGED <<lecturers, heads, login>>, raced \subseteq raced', NEW things,
         \A q \in Requests : request'[q] = Idle \/ request'[q] = Overtaken(things)[q],
         \A x \in Courses : IsCourse(x) => IsCourse(x)',
         \A x \in Courses \ things : IsCourse(x) =>
           /\ courses'[x].coordinator = courses[x].coordinator
           /\ courses'[x].co = courses[x].co,
         \A p \in Staff \ things, off \in SUBSET Courses : NotTeaching(p, off) => NotTeaching(p, off)'
  PROVE  JobsSafe'
<1>1. ASSUME NEW k \in Job, JobSafe(k), k.alone => k.about \cap things = {}
      PROVE  JobStands(k)' /\ (k.alone => JobFresh(k)')
  <2>1. JobStands(k)'
    BY <1>1 DEF JobSafe, JobStands, ManageJob
  <2>2. ASSUME k.alone PROVE JobFresh(k)'
    <3>1. HeadJob(k) => HeadsOf(k.dept)' \subseteq {k.who}
      BY <1>1, <2>2 DEF JobSafe, JobFresh, HeadsOf
    <3>2. ManageJob(k) => /\ courses'[k.course].coordinator = k.seen.coordinator
                          /\ courses'[k.course].co \subseteq k.seen.co
      BY <1>1, <2>2 DEF JobSafe, JobSound, JobFresh, JobStands, ManageJob
    <3>3. ASSUME StatusJob(k), IsLecturer(k.who)'
          PROVE  /\ login'[k.who].active = k.was.active
                 /\ k.to = "left" => NotTeaching(k.who, k.off)'
      <4>1. k.who \in Staff \ things /\ k.off \in SUBSET Courses
        BY <1>1, <2>2, <3>3 DEF StatusJob, JobSafe, JobSound
      <4>2. /\ login[k.who].active = k.was.active
            /\ k.to = "left" => NotTeaching(k.who, k.off)
        BY <1>1, <2>2, <3>3 DEF JobSafe, JobFresh, IsLecturer
      <4> QED
        BY <4>1, <4>2
    <3>4. StillActive(k)'
      BY <1>1, <2>2 DEF JobSafe, JobFresh, StillActive
    <3> QED
      BY <3>1, <3>2, <3>3, <3>4 DEF JobFresh
  <2> QED
    BY <2>1, <2>2
<1> QED
  BY <1>1, JobsCarry DEF Inv

LEMMA CreateCourseKeeps ==
  ASSUME Inv, NEW c \in Courses, NEW p \in Staff, CreateCourse(c, p)
  PROVE  Inv'
<1> DEFINE new == [coordinator |-> p, co |-> {}, running |-> TRUE]
<1>1. TypeOK' /\ LoginsKept'
  BY CreateCourseTyped DEF Inv, Logins
<1>2. /\ UNCHANGED <<lecturers, heads, login, raced>>
      /\ ~IsCourse(c)
      /\ courses'[c] = new
      /\ \A x \in Courses \ {c} : courses'[x] = courses[x]
      /\ allowed' = Given(c, p)
      /\ request' = Overtaken({c, p})
  BY DEF CreateCourse, Inv, TypeOK
<1>3. /\ new \in Course /\ new.coordinator = p /\ new.co = {}
  BY DEF Course
<1> HIDE DEF new
<1>4. allowed \subseteq allowed' /\ (lecturers[p] = "left" => c \in allowed')
  BY <1>2 DEF Given
<1>5. Logins'
  BY <1>2, LoginsUnchanged DEF Inv
<1>6. TeachersListedOnce'
  BY <1>2, <1>3 DEF Inv, Teaching, TeachersListedOnce, IsCourse
<1>7. LeftTeachNothing'
  <2> SUFFICES ASSUME NEW x \in Courses, x \notin raced' \cup allowed', IsCourse(x)', courses'[x].running,
                      NEW q \in Teachers(x)', q \notin raced'
               PROVE  lecturers'[q] # "left"
    BY DEF LeftTeachNothing
  <2>1. CASE x = c
    <3>1. q = p
      BY <1>2, <1>3, <2>1 DEF Teachers
    <3> QED
      BY <1>2, <1>4, <2>1, <3>1
  <2>2. CASE x # c
    BY <1>2, <1>4, <2>2 DEF Inv, Teaching, LeftTeachNothing, Teachers, IsCourse
  <2> QED
    BY <2>1, <2>2
<1>8. JobsSafe'
  <2>1. \A x \in Courses : IsCourse(x) => IsCourse(x)'
    BY <1>2 DEF IsCourse
  <2>2. ASSUME NEW q \in Staff \ {c, p}, NEW off \in SUBSET Courses, NotTeaching(q, off)
        PROVE  NotTeaching(q, off)'
    <3> SUFFICES ASSUME NEW x \in Courses, x \notin raced' \cup allowed', IsCourse(x)', courses'[x].running
                 PROVE  courses'[x].coordinator # q /\ (q \in courses'[x].co => x \in off)
      BY DEF NotTeaching
    <3>1. CASE x = c
      BY <1>2, <1>3, <3>1
    <3>2. CASE x # c
      BY <1>2, <1>4, <2>2, <3>2 DEF NotTeaching, IsCourse
    <3> QED
      BY <3>1, <3>2
  <2> QED
    BY <1>2, <2>1, <2>2, CourseJobsCarry
<1> QED
  BY <1>1, <1>5, <1>6, <1>7, <1>8 DEF Inv, Teaching

LEMMA EndOrExtendKeeps ==
  ASSUME Inv, NEW c \in Courses, EndOrExtend(c)
  PROVE  Inv'
<1>1. TypeOK' /\ LoginsKept'
  BY EndOrExtendTyped DEF Inv, Logins
<1>2. /\ UNCHANGED <<lecturers, heads, login, raced, request>>
      /\ IsCourse(c)
      /\ courses' = [courses EXCEPT ![c].running = ~@]
      /\ allowed' = IF \E p \in Teachers(c) : Leaving(p) THEN allowed \cup {c} ELSE allowed
  BY DEF EndOrExtend
<1>3. \A x \in Courses :
        /\ IsCourse(x)' <=> IsCourse(x)
        /\ IsCourse(x) => /\ courses'[x].coordinator = courses[x].coordinator
                          /\ courses'[x].co = courses[x].co
        /\ x # c => courses'[x] = courses[x]
  <2>1. courses[c] \in Course
    BY <1>2 DEF IsCourse, Inv, TypeOK
  <2>2. courses'[c] = [courses[c] EXCEPT !.running = ~@]
    BY <1>2 DEF Inv, TypeOK
  <2>3. /\ courses'[c] \in Course
        /\ courses'[c].coordinator = courses[c].coordinator
        /\ courses'[c].co = courses[c].co
    BY <2>1, <2>2 DEF Course
  <2>4. \A x \in Courses \ {c} : courses'[x] = courses[x]
    BY <1>2 DEF Inv, TypeOK
  <2> QED
    BY <1>2, <2>3, <2>4, NoCourseIsNone DEF IsCourse
<1>4. allowed \subseteq allowed'
  BY <1>2
<1>5. Logins'
  BY <1>2, LoginsUnchanged DEF Inv
<1>6. TeachersListedOnce'
  BY <1>2, <1>3 DEF Inv, Teaching, TeachersListedOnce
<1>7. LeftTeachNothing'
  <2> SUFFICES ASSUME NEW x \in Courses, x \notin raced' \cup allowed', IsCourse(x)', courses'[x].running,
                      NEW q \in Teachers(x)', q \notin raced'
               PROVE  lecturers'[q] # "left"
    BY DEF LeftTeachNothing
  <2>1. q \in Teachers(x)
    BY <1>3 DEF Teachers
  <2>2. CASE x = c
    BY <1>2, <2>1, <2>2 DEF Leaving
  <2>3. CASE x # c
    BY <1>2, <1>3, <1>4, <2>1, <2>3 DEF Inv, Teaching, LeftTeachNothing
  <2> QED
    BY <2>2, <2>3
<1>8. JobsSafe'
  <2> SUFFICES ASSUME NEW r \in Requests, NEW j \in Job, request[r] = j
               PROVE  JobSafe(j)'
    BY <1>2 DEF JobsSafe
  <2>1. JobSafe(j)
    BY DEF Inv, JobsSafe
  <2>2. JobStands(j)'
    BY <1>2, <1>3, <2>1 DEF JobSafe, JobStands, ManageJob
  <2>3. ASSUME j.alone PROVE JobFresh(j)'
    <3>1. HeadJob(j) => HeadsOf(j.dept)' \subseteq {j.who}
      BY <1>2, <2>1, <2>3 DEF JobSafe, JobFresh, HeadsOf
    <3>2. ManageJob(j) => /\ courses'[j.course].coordinator = j.seen.coordinator
                          /\ courses'[j.course].co \subseteq j.seen.co
      BY <1>3, <2>1, <2>3 DEF JobSafe, JobFresh, JobStands, ManageJob
    <3>3. ASSUME StatusJob(j), IsLecturer(j.who)'
          PROVE  /\ login'[j.who].active = j.was.active
                 /\ j.to = "left" => NotTeaching(j.who, j.off)'
      <4>1. /\ login[j.who].active = j.was.active
            /\ j.to = "left" => NotTeaching(j.who, j.off)
        BY <1>2, <2>1, <2>3, <3>3 DEF JobSafe, JobFresh, IsLecturer
      <4>2. ASSUME NotTeaching(j.who, j.off)
            PROVE  NotTeaching(j.who, j.off)'
        <5> SUFFICES ASSUME NEW x \in Courses, x \notin raced' \cup allowed', IsCourse(x)',
                            courses'[x].running
                     PROVE  courses'[x].coordinator # j.who /\ (j.who \in courses'[x].co => x \in j.off)
          BY DEF NotTeaching
        <5>1. CASE x = c
          <6>1. Leaving(j.who)
            BY <3>3 DEF Leaving, StatusJob
          <6>2. j.who \notin Teachers(c)
            BY <1>2, <5>1, <6>1
          <6> QED
            BY <1>3, <5>1, <6>2 DEF Teachers
        <5>2. CASE x # c
          BY <1>2, <1>3, <1>4, <4>2, <5>2 DEF NotTeaching
        <5> QED
          BY <5>1, <5>2
      <4> QED
        BY <1>2, <4>1, <4>2
    <3>4. StillActive(j)'
      BY <1>2, <2>1, <2>3 DEF JobSafe, JobFresh, StillActive
    <3> QED
      BY <3>1, <3>2, <3>3, <3>4 DEF JobFresh
  <2> QED
    BY <2>1, <2>2, <2>3 DEF JobSafe, JobSound
<1> QED
  BY <1>1, <1>5, <1>6, <1>7, <1>8 DEF Inv, Teaching

\* What the commit of a change of lecturers does to its course.
LEMMA ManageMeans ==
  ASSUME Inv, NEW r \in Requests, CommitManage(r)
  PROVE  \/ RolledBack(r)
         \/ \E j \in Job :
              /\ j = request[r] /\ ManageJob(j) /\ JobSafe(j)
              /\ UNCHANGED <<lecturers, heads, login>>
              /\ courses[j.course] \in Course
              /\ courses'[j.course] = Managed(courses[j.course], j)
              /\ \A x \in Courses \ {j.course} : courses'[x] = courses[x]
              /\ allowed \subseteq allowed'
              /\ j.op # "remove" /\ lecturers[j.who] = "left" => j.course \in allowed'
              /\ \A q \in Requests : request'[q] = Idle \/ request'[q] = Overtaken(j.about)[q]
              /\ raced \subseteq raced'
              /\ j.alone => raced' = raced /\ JobFresh(j)
              /\ ~j.alone => j.about \subseteq raced'
<1>1. PICK j \in Job : j = request[r] /\ ManageJob(j)
  BY ManageJobOf DEF Inv
<1>2. JobSafe(j)
  BY <1>1 DEF Inv, JobsSafe
<1>3. CASE ~RolledBack(r)
  <2>1. /\ IsCourse(j.course)
        /\ courses' = [courses EXCEPT ![j.course] = Managed(courses[j.course], j)]
        /\ allowed' = IF j.op = "remove" THEN allowed ELSE Given(j.course, j.who)
        /\ Committed(r)
        /\ UNCHANGED <<lecturers, heads, login>>
    BY <1>1, <1>3 DEF CommitManage
  <2>2. j.course \in Courses /\ courses[j.course] \in Course
    BY <1>1, <2>1 DEF ManageJob, IsCourse, Inv, TypeOK
  <2>3. /\ courses'[j.course] = Managed(courses[j.course], j)
        /\ \A x \in Courses \ {j.course} : courses'[x] = courses[x]
    BY <2>1, <2>2 DEF Inv, TypeOK
  <2>4. /\ allowed \subseteq allowed'
        /\ j.op # "remove" /\ lecturers[j.who] = "left" => j.course \in allowed'
    BY <2>1 DEF Given
  <2>5. /\ \A q \in Requests : request'[q] = Idle \/ request'[q] = Overtaken(j.about)[q]
        /\ raced \subseteq raced'
        /\ j.alone => raced' = raced
        /\ ~j.alone => j.about \subseteq raced'
    BY <1>1, <2>1, CommittedMeans DEF Inv
  <2> QED
    BY <1>1, <1>2, <2>1, <2>2, <2>3, <2>4, <2>5 DEF JobSafe
<1> QED
  BY <1>3

LEMMA ManageKeeps ==
  ASSUME Inv, NEW r \in Requests, CommitManage(r)
  PROVE  Inv'
<1>1. TypeOK' /\ LoginsKept'
  BY ManageTyped DEF Inv, Logins
<1>2. CASE RolledBack(r)
  BY <1>2, RolledBackKeeps
<1>3. CASE ~RolledBack(r)
  <2>1. PICK j \in Job :
          /\ j = request[r] /\ ManageJob(j) /\ JobSafe(j)
          /\ UNCHANGED <<lecturers, heads, login>>
          /\ courses[j.course] \in Course
          /\ courses'[j.course] = Managed(courses[j.course], j)
          /\ \A x \in Courses \ {j.course} : courses'[x] = courses[x]
          /\ allowed \subseteq allowed'
          /\ j.op # "remove" /\ lecturers[j.who] = "left" => j.course \in allowed'
          /\ \A q \in Requests : request'[q] = Idle \/ request'[q] = Overtaken(j.about)[q]
          /\ raced \subseteq raced'
          /\ j.alone => raced' = raced /\ JobFresh(j)
          /\ ~j.alone => j.about \subseteq raced'
    BY <1>3, ManageMeans
  <2> DEFINE c == j.course
             now == courses[c]
             then == Managed(now, j)
  <2>2. /\ c \in Courses /\ j.who \in Staff /\ j.op \in {"add", "remove", "coordinator"}
        /\ c \in j.about /\ j.who \in j.about
        /\ j.who # j.seen.coordinator
        /\ j.op = "add" => j.who \notin j.seen.co
    BY <2>1 DEF ManageJob, JobSafe, JobSound
  <2>3. /\ then \in Course /\ then.running = now.running
        /\ j.op = "add" => then.coordinator = now.coordinator /\ then.co = now.co \cup {j.who}
        /\ j.op = "remove" => then.coordinator = now.coordinator /\ then.co = now.co \ {j.who}
        /\ j.op = "coordinator" =>
             /\ then.coordinator = j.who
             /\ then.co = (IF j.who \in j.seen.co THEN now.co \ {j.who} ELSE now.co)
                            \cup {j.seen.coordinator}
    BY <2>1, ManagedIs
  <2>4. courses'[c] = then /\ IsCourse(c) /\ IsCourse(c)'
    BY <2>1, <2>3, NoCourseIsNone DEF IsCourse
  <2>5. c \notin raced' =>
          /\ raced' = raced
          /\ now.coordinator = j.seen.coordinator /\ now.co \subseteq j.seen.co
    BY <2>1, <2>2 DEF JobFresh
  <2> HIDE DEF c, now, then
  <2>6. c \notin raced' =>
          /\ {then.coordinator} \cup then.co \subseteq {now.coordinator, j.who} \cup now.co
          /\ j.op = "remove" => {then.coordinator} \cup then.co \subseteq {now.coordinator} \cup now.co
    BY <2>2, <2>3, <2>5
  <2>7. Logins'
    BY <2>1, LoginsUnchanged DEF Inv
  <2>8. TeachersListedOnce'
    <3> SUFFICES ASSUME NEW x \in Courses, x \notin raced', IsCourse(x)'
                 PROVE  courses'[x].coordinator \notin courses'[x].co
      BY DEF TeachersListedOnce
    <3>1. CASE x = c
      <4>1. now.coordinator \notin now.co
        BY <2>1, <2>4, <3>1 DEF Inv, Teaching, TeachersListedOnce, now
      <4> QED
        BY <2>2, <2>3, <2>4, <2>5, <3>1, <4>1
    <3>2. CASE x # c
      BY <2>1, <3>2 DEF Inv, Teaching, TeachersListedOnce, IsCourse, c
    <3> QED
      BY <3>1, <3>2
  <2>9. LeftTeachNothing'
    <3> SUFFICES ASSUME NEW x \in Courses, x \notin raced' \cup allowed', IsCourse(x)',
                        courses'[x].running, NEW q \in Teachers(x)', q \notin raced'
                 PROVE  lecturers'[q] # "left"
      BY DEF LeftTeachNothing
    <3>1. CASE x = c
      <4>1. q \in {then.coordinator} \cup then.co
        BY <2>4, <3>1 DEF Teachers
      <4>2. CASE q \in {now.coordinator} \cup now.co
        <5>1. q \in Teachers(c) /\ courses[c].running
          BY <2>3, <2>4, <3>1, <4>2 DEF Teachers, now
        <5> QED
          BY <2>1, <2>4, <3>1, <5>1 DEF Inv, Teaching, LeftTeachNothing
      <4>3. CASE q = j.who /\ j.op # "remove"
        BY <2>1, <3>1, <4>3 DEF c
      <4> QED
        BY <2>6, <3>1, <4>1, <4>2, <4>3
    <3>2. CASE x # c
      BY <2>1, <3>2 DEF Inv, Teaching, LeftTeachNothing, Teachers, IsCourse, c
    <3> QED
      BY <3>1, <3>2
  <2>10. JobsSafe'
    <3>1. \A x \in Courses : IsCourse(x) => IsCourse(x)'
      BY <2>1, <2>4 DEF IsCourse, c
    <3>2. \A x \in Courses \ j.about : IsCourse(x) =>
            /\ courses'[x].coordinator = courses[x].coordinator
            /\ courses'[x].co = courses[x].co
      BY <2>1, <2>2 DEF c
    <3>3. ASSUME NEW p \in Staff \ j.about, NEW off \in SUBSET Courses, NotTeaching(p, off)
          PROVE  NotTeaching(p, off)'
      <4> SUFFICES ASSUME NEW x \in Courses, x \notin raced' \cup allowed', IsCourse(x)',
                          courses'[x].running
                   PROVE  courses'[x].coordinator # p /\ (p \in courses'[x].co => x \in off)
        BY DEF NotTeaching
      <4>1. CASE x = c
        <5>1. p # j.who
          BY <2>2, <3>3
        <5>2. now.coordinator # p /\ (p \in now.co => c \in off)
          BY <2>1, <2>3, <2>4, <3>3, <4>1 DEF NotTeaching, now
        <5>3. then.coordinator # p /\ (p \in then.co => p \in now.co)
          BY <2>2, <2>3, <2>5, <4>1, <5>1, <5>2
        <5> QED
          BY <2>4, <4>1, <5>2, <5>3
      <4>2. CASE x # c
        BY <2>1, <3>3, <4>2 DEF NotTeaching, IsCourse, c
      <4> QED
        BY <4>1, <4>2
    <3> QED
      BY <2>1, <3>1, <3>2, <3>3, CourseJobsCarry
  <2> QED
    BY <1>1, <2>7, <2>8, <2>9, <2>10 DEF Inv, Teaching
<1> QED
  BY <1>2, <1>3

LEMMA ConfirmKeeps ==
  ASSUME Inv, NEW r \in Requests, ConfirmCopy(r)
  PROVE  Inv'
<1>1. CASE RolledBack(r)
  BY <1>1, RolledBackKeeps
<1>2. CASE ~RolledBack(r)
  <2>1. PICK j \in Job :
          /\ request' = [request EXCEPT ![r] = j]
          /\ UNCHANGED <<tables, begun, raced, allowed>>
          /\ CopyJob(j) /\ j.op = "confirm"
          /\ CopyJob(request[r]) /\ j.first = request[r].first /\ j.rest = request[r].rest
          /\ j.about = {j.course, j.first} \cup j.rest
          /\ \A p \in {j.first} \cup j.rest : Active(p)
    BY <1>2, ConfirmMeans DEF Inv
  <2>2. UNCHANGED <<lecturers, heads, login, courses, recorded, raced, allowed, begun>>
    BY <2>1 DEF tables
  <2>3. TypeOK'
    <3>1. JobsTyped'
      BY <2>1, TypedParts DEF Inv, JobsTyped
    <3>2. TablesTyped'
      BY <2>2, TypedParts DEF Inv, TablesTyped
    <3> QED
      BY <3>1, <3>2, TypedPartsNext
  <2>4. Logins' /\ Teaching'
    BY <2>2 DEF Inv, Logins, LoginsKept, Teaching, RoleFollowsHod, LoginFollowsStatus, OneHead,
                HeadsOf, IsHead, IsLecturer, TeachersListedOnce, LeftTeachNothing, Teachers, IsCourse
  <2>5. JobSafe(j)
    <3>1. ~StatusJob(j) /\ ~HeadJob(j) /\ ~ManageJob(j)
      BY <2>1 DEF StatusJob, HeadJob, ManageJob
    <3>2. request[r] \in Job
      BY <2>1 DEF CopyJob, Inv, TypeOK, Idle
    <3>3. j.first \notin j.rest
      BY <2>1, <3>2 DEF Inv, JobsSafe, JobSafe, JobSound
    <3> QED
      BY <2>1, <3>1, <3>3 DEF JobSafe, JobSound, JobStands, JobFresh, StillActive, Active
  <2>6. ASSUME NEW k \in Job, JobSafe(k)
        PROVE  JobSafe(k)'
    BY <2>2, <2>6 DEF JobSafe, JobSound, JobStands, JobFresh, StillActive, NotTeaching, HeadsOf,
                      IsLecturer, IsCourse
  <2>7. JobsSafe'
    <3> SUFFICES ASSUME NEW q \in Requests, NEW k \in Job, request'[q] = k
                 PROVE  JobSafe(k)'
      BY DEF JobsSafe
    <3>1. JobSafe(k)
      BY <2>1, <2>5 DEF Inv, TypeOK, JobsSafe
    <3> QED
      BY <2>6, <3>1
  <2> QED
    BY <2>3, <2>4, <2>7 DEF Inv
<1> QED
  BY <1>1, <1>2

\* What the commit of a confirmed copy does: it makes the course, with
\* lecturers who are active unless one of them was changed since.
LEMMA CopyMeans ==
  ASSUME Inv, NEW r \in Requests, CommitCopy(r)
  PROVE  \/ RolledBack(r)
         \/ \E j \in Job :
              /\ j = request[r] /\ CopyJob(j) /\ JobSafe(j) /\ j.op = "confirm"
              /\ UNCHANGED <<lecturers, heads, login, allowed>>
              /\ ~IsCourse(j.course)
              /\ courses'[j.course] = [coordinator |-> j.first, co |-> j.rest, running |-> TRUE]
              /\ \A x \in Courses \ {j.course} : courses'[x] = courses[x]
              /\ \A q \in Requests : request'[q] = Idle \/ request'[q] = Overtaken(j.about)[q]
              /\ raced \subseteq raced'
              /\ j.alone => \A p \in {j.first} \cup j.rest : Active(p)
              /\ ~j.alone => j.about \subseteq raced'
<1>1. PICK j \in Job : j = request[r] /\ CopyJob(j)
  BY CopyJobOf DEF Inv
<1>2. JobSafe(j) /\ j.course \in Courses
  BY <1>1 DEF Inv, JobsSafe, CopyJob
<1>3. CASE ~RolledBack(r)
  <2>1. /\ PlanTrusted(j.course, {j.first} \cup j.rest)
        /\ courses' = [courses EXCEPT ![j.course] =
             [coordinator |-> j.first, co |-> j.rest, running |-> TRUE]]
        /\ Committed(r) /\ j.op = "confirm"
        /\ UNCHANGED <<lecturers, heads, login, allowed>>
    BY <1>1, <1>3 DEF CommitCopy
  <2>2. /\ courses'[j.course] = [coordinator |-> j.first, co |-> j.rest, running |-> TRUE]
        /\ \A x \in Courses \ {j.course} : courses'[x] = courses[x]
    BY <1>2, <2>1 DEF Inv, TypeOK
  <2>3. /\ \A q \in Requests : request'[q] = Idle \/ request'[q] = Overtaken(j.about)[q]
        /\ raced \subseteq raced'
        /\ ~j.alone => j.about \subseteq raced'
    BY <1>1, <2>1, CommittedMeans DEF Inv
  <2>4. ASSUME j.alone, NEW p \in {j.first} \cup j.rest
        PROVE  Active(p)
    BY <1>1, <1>2, <2>1, <2>4 DEF JobSafe, JobFresh, StillActive, PlanTrusted, IsLecturer, Active
  <2> QED
    BY <1>1, <1>2, <2>1, <2>2, <2>3, <2>4 DEF PlanTrusted
<1> QED
  BY <1>3

LEMMA CopyKeeps ==
  ASSUME Inv, NEW r \in Requests, CommitCopy(r)
  PROVE  Inv'
<1>1. TypeOK' /\ LoginsKept'
  BY CopyTyped DEF Inv, Logins
<1>2. CASE RolledBack(r)
  BY <1>2, RolledBackKeeps
<1>3. CASE ~RolledBack(r)
  <2>1. PICK j \in Job :
          /\ j = request[r] /\ CopyJob(j) /\ JobSafe(j) /\ j.op = "confirm"
          /\ UNCHANGED <<lecturers, heads, login, allowed>>
          /\ ~IsCourse(j.course)
          /\ courses'[j.course] = [coordinator |-> j.first, co |-> j.rest, running |-> TRUE]
          /\ \A x \in Courses \ {j.course} : courses'[x] = courses[x]
          /\ \A q \in Requests : request'[q] = Idle \/ request'[q] = Overtaken(j.about)[q]
          /\ raced \subseteq raced'
          /\ j.alone => \A p \in {j.first} \cup j.rest : Active(p)
          /\ ~j.alone => j.about \subseteq raced'
    BY <1>3, CopyMeans
  <2> DEFINE new == [coordinator |-> j.first, co |-> j.rest, running |-> TRUE]
  <2>2. PICK c \in Courses : c = j.course
    BY <2>1 DEF CopyJob
  <2>3. new.coordinator = j.first /\ new.co = j.rest /\ courses'[c] = new
    BY <2>1, <2>2
  <2> HIDE DEF new
  <2>4. c \in j.about /\ j.first \notin j.rest /\ {j.first} \cup j.rest \subseteq j.about
    BY <2>1, <2>2 DEF JobSafe, JobSound
  <2>5. Logins'
    BY <2>1, LoginsUnchanged DEF Inv
  <2>6. TeachersListedOnce'
    BY <2>1, <2>2, <2>3, <2>4 DEF Inv, Teaching, TeachersListedOnce, IsCourse
  <2>7. LeftTeachNothing'
    <3> SUFFICES ASSUME NEW x \in Courses, x \notin raced' \cup allowed', IsCourse(x)',
                        courses'[x].running, NEW q \in Teachers(x)', q \notin raced'
                 PROVE  lecturers'[q] # "left"
      BY DEF LeftTeachNothing
    <3>1. CASE x = c
      <4>1. q \in {j.first} \cup j.rest
        BY <2>3, <3>1 DEF Teachers
      <4>2. j.alone
        BY <2>1, <2>4, <3>1
      <4> QED
        BY <2>1, <4>1, <4>2 DEF Active
    <3>2. CASE x # c
      BY <2>1, <2>2, <3>2 DEF Inv, Teaching, LeftTeachNothing, Teachers, IsCourse
    <3> QED
      BY <3>1, <3>2
  <2>8. JobsSafe'
    <3>1. \A x \in Courses : IsCourse(x) => IsCourse(x)'
      BY <2>1, <2>2 DEF IsCourse
    <3>2. \A x \in Courses \ j.about : IsCourse(x) =>
            /\ courses'[x].coordinator = courses[x].coordinator
            /\ courses'[x].co = courses[x].co
      BY <2>1, <2>2, <2>4
    <3>3. ASSUME NEW p \in Staff \ j.about, NEW off \in SUBSET Courses, NotTeaching(p, off)
          PROVE  NotTeaching(p, off)'
      <4> SUFFICES ASSUME NEW x \in Courses, x \notin raced' \cup allowed', IsCourse(x)',
                          courses'[x].running
                   PROVE  courses'[x].coordinator # p /\ (p \in courses'[x].co => x \in off)
        BY DEF NotTeaching
      <4>1. CASE x = c
        BY <2>3, <2>4, <3>3, <4>1
      <4>2. CASE x # c
        BY <2>1, <2>2, <3>3, <4>2 DEF NotTeaching, IsCourse
      <4> QED
        BY <4>1, <4>2
    <3> QED
      BY <2>1, <3>1, <3>2, <3>3, CourseJobsCarry
  <2> QED
    BY <1>1, <2>5, <2>6, <2>7, <2>8 DEF Inv, Teaching
<1> QED
  BY <1>2, <1>3

-----------------------------------------------------------------------------
(* Every step keeps the invariant *)

LEMMA BeginStatusKeeps ==
  ASSUME Inv, NEW r \in Requests, NEW p \in Staff, NEW status \in Statuses,
         BeginStatus(r, p, status)
  PROVE  Inv'
<1>1. PICK j \in Job :
        /\ Ask(r, j) /\ j.op = "status" /\ j.who = p /\ j.to = status /\ j.was = login[p]
        /\ IsLecturer(p)
        /\ status = "left" => j.off = CoTeaches(p) /\ Coordinates(p) = {}
        /\ p \in j.about /\ j.alone
  BY StatusAsked DEF Inv, Logins
<1>2. StatusJob(j) /\ ~HeadJob(j) /\ ~ManageJob(j) /\ ~CopyJob(j)
  BY <1>1, JobKinds DEF HeadJob, ManageJob, CopyJob
<1>3. login[p] # NoLogin
  BY <1>1, NoLoginIsNone DEF Inv, Logins, LoginsKept
<1>4. status = "left" => NotTeaching(p, j.off)
  BY <1>1 DEF NotTeaching, CoTeaches, Coordinates
<1>5. JobSafe(j)
  BY <1>1, <1>2, <1>3, <1>4 DEF JobSafe, JobSound, JobStands, JobFresh, StillActive
<1> QED
  BY <1>1, <1>5, AskKeeps

LEMMA BeginHeadKeeps ==
  ASSUME Inv, NEW r \in Requests, NEW kind \in {"promote", "create", "move"}, NEW p \in Staff,
         NEW d \in Departments, BeginHead(r, kind, p, d)
  PROVE  Inv'
<1>1. PICK j \in Job :
        /\ Ask(r, j) /\ HeadJob(j) /\ j.who = p /\ j.dept = d
        /\ HeadsOf(d) \subseteq {p}
        /\ p \in j.about /\ d \in j.about /\ j.alone
  BY HeadAsked
<1>2. ~StatusJob(j) /\ ~ManageJob(j) /\ ~CopyJob(j)
  BY <1>1 DEF StatusJob, HeadJob, ManageJob, CopyJob
<1>3. JobSafe(j)
  BY <1>1, <1>2 DEF JobSafe, JobSound, JobStands, JobFresh, StillActive
<1> QED
  BY <1>1, <1>3, AskKeeps

LEMMA BeginManageKeeps ==
  ASSUME Inv, NEW r \in Requests, NEW c \in Courses, NEW p \in Staff,
         NEW change \in {"add", "remove", "coordinator"}, BeginManage(r, c, p, change)
  PROVE  Inv'
<1>1. PICK j \in Job :
        /\ Ask(r, j) /\ ManageJob(j) /\ j.who = p /\ j.course = c /\ j.seen = courses[c]
        /\ IsCourse(c)
        /\ p # j.seen.coordinator
        /\ j.op = "add" => p \notin j.seen.co
        /\ p \in j.about /\ c \in j.about /\ j.alone
  BY ManageAsked DEF Inv
<1>2. ~StatusJob(j) /\ ~HeadJob(j) /\ ~CopyJob(j)
  BY <1>1 DEF StatusJob, HeadJob, ManageJob, CopyJob
<1>3. JobSafe(j)
  BY <1>1, <1>2 DEF JobSafe, JobSound, JobStands, JobFresh, StillActive
<1> QED
  BY <1>1, <1>3, AskKeeps

LEMMA BeginCopyKeeps ==
  ASSUME Inv, NEW r \in Requests, NEW source \in Courses, NEW target \in Courses,
         NEW first \in Staff, BeginCopy(r, source, target, first)
  PROVE  Inv'
<1>1. PICK j \in Job :
        /\ Ask(r, j) /\ CopyJob(j) /\ j.op = "copy" /\ j.first \notin j.rest
        /\ j.course \in j.about /\ j.alone
  BY CopyAsked DEF Inv
<1>2. ~StatusJob(j) /\ ~HeadJob(j) /\ ~ManageJob(j)
  BY <1>1 DEF StatusJob, HeadJob, ManageJob, CopyJob
<1>3. JobSafe(j)
  BY <1>1, <1>2 DEF JobSafe, JobSound, JobStands, JobFresh, StillActive
<1> QED
  BY <1>1, <1>3, AskKeeps

LEMMA InitInv == Init => Inv
<1> SUFFICES ASSUME Init PROVE Inv
  OBVIOUS
<1>1. PICK L \in SUBSET Staff :
        /\ lecturers = [p \in Staff |-> IF p \in L THEN "active" ELSE NoRow]
        /\ login = [p \in Staff |-> IF p \in L THEN [role |-> "lecturer", active |-> TRUE]
                                             ELSE NoLogin]
        /\ \E c \in Courses, p \in L :
             courses = [x \in Courses |->
               IF x = c THEN [coordinator |-> p, co |-> {}, running |-> TRUE] ELSE NoCourse]
  BY DEF Init
<1>2. TypeOK /\ LoginsKept
  BY InitTyped
<1>3. \A p \in Staff : heads[p] = NoDepartment
  BY DEF Init
<1>4. RoleFollowsHod
  BY <1>1, <1>3 DEF RoleFollowsHod, IsHead, NoLogin
<1>5. LoginFollowsStatus
  <2> SUFFICES ASSUME NEW p \in Staff, IsLecturer(p)
               PROVE  login[p].active <=> lecturers[p] = "active"
    BY DEF LoginFollowsStatus
  <2>1. p \in L
    BY <1>1 DEF IsLecturer
  <2> QED
    BY <1>1, <2>1
<1>6. OneHead
  BY <1>3, StaffAssumption DEF OneHead, HeadsOf
<1>7. TeachersListedOnce
  BY <1>1 DEF TeachersListedOnce, IsCourse
<1>8. LeftTeachNothing
  <2>1. \A p \in Staff : lecturers[p] # "left"
    BY <1>1 DEF NoRow
  <2>2. \A c \in Courses : IsCourse(c) => Teachers(c) \subseteq Staff
    BY <1>2, TeachersAreStaff
  <2> QED
    BY <2>1, <2>2 DEF LeftTeachNothing
<1>9. JobsSafe
  BY IdleIsNoJob DEF Init, JobsSafe
<1> QED
  BY <1>2, <1>4, <1>5, <1>6, <1>7, <1>8, <1>9 DEF Inv, Logins, Teaching

LEMMA StutterKeeps == Inv /\ UNCHANGED vars => Inv'
<1> SUFFICES ASSUME Inv, UNCHANGED vars PROVE Inv'
  OBVIOUS
<1>1. UNCHANGED <<lecturers, heads, login, courses, recorded, request, begun, raced, allowed>>
  BY DEF vars, tables
<1>2. TypeOK' /\ Logins' /\ Teaching'
  BY <1>1 DEF Inv, TypeOK, Logins, LoginsKept, Teaching, RoleFollowsHod, LoginFollowsStatus,
              OneHead, HeadsOf, IsHead, IsLecturer, TeachersListedOnce, LeftTeachNothing,
              Teachers, IsCourse
<1>3. JobsSafe'
  BY <1>1 DEF Inv, JobsSafe, JobSafe, JobSound, JobStands, JobFresh, StillActive, NotTeaching, HeadsOf,
              IsLecturer, IsCourse
<1> QED
  BY <1>2, <1>3 DEF Inv

LEMMA LecturerStepKeeps == Inv /\ LecturerStep => Inv'
<1> SUFFICES ASSUME Inv, LecturerStep PROVE Inv'
  OBVIOUS
<1>1. CASE \E file \in SUBSET Staff : UploadLecturers(file)
  <2>1. PICK file \in SUBSET Staff : Hired(PlanLecturers(file))
    BY <1>1 DEF UploadLecturers
  <2>2. /\ PlanLecturers(file) \in SUBSET Staff
        /\ \A p \in PlanLecturers(file) : login[p] = NoLogin
    BY DEF PlanLecturers
  <2> QED
    BY <2>1, <2>2, HiredKeeps
<1>2. CASE \E p \in Staff : CreateLecturer(p)
  <2>1. PICK p \in Staff : login[p] = NoLogin /\ Hired({p})
    BY <1>2 DEF CreateLecturer
  <2> QED
    BY <2>1, HiredKeeps
<1>3. CASE \E p \in Staff : DeleteLecturer(p) \/ Act(p) \/ RemoveHod(p)
  BY <1>3, DeleteLecturerKeeps, ActKeeps, RemoveHodKeeps
<1>4. CASE \E r \in Requests, p \in Staff, status \in Statuses : BeginStatus(r, p, status)
  BY <1>4, BeginStatusKeeps
<1>5. CASE \E r \in Requests : CommitStatus(r)
  BY <1>5, StatusKeeps
<1>6. CASE \E r \in Requests, kind \in {"promote", "create", "move"}, p \in Staff,
              d \in Departments : BeginHead(r, kind, p, d)
  BY <1>6, BeginHeadKeeps
<1>7. CASE \E r \in Requests : CommitHead(r)
  BY <1>7, HeadKeeps
<1> QED
  BY <1>1, <1>2, <1>3, <1>4, <1>5, <1>6, <1>7 DEF LecturerStep

LEMMA CourseStepKeeps == Inv /\ CourseStep => Inv'
<1> SUFFICES ASSUME Inv, CourseStep PROVE Inv'
  OBVIOUS
<1>1. CASE \E c \in Courses : EndOrExtend(c) \/ \E p \in Staff : CreateCourse(c, p)
  BY <1>1, EndOrExtendKeeps, CreateCourseKeeps
<1>2. CASE \E r \in Requests, c \in Courses, p \in Staff,
              change \in {"add", "remove", "coordinator"} : BeginManage(r, c, p, change)
  BY <1>2, BeginManageKeeps
<1>3. CASE \E r \in Requests : CommitManage(r)
  BY <1>3, ManageKeeps
<1>4. CASE \E r \in Requests, source, target \in Courses, p \in Staff :
              BeginCopy(r, source, target, p)
  BY <1>4, BeginCopyKeeps
<1>5. CASE \E r \in Requests : ConfirmCopy(r) \/ CommitCopy(r)
  BY <1>5, ConfirmKeeps, CopyKeeps
<1> QED
  BY <1>1, <1>2, <1>3, <1>4, <1>5 DEF CourseStep

LEMMA StepInv == Inv /\ [Next]_vars => Inv'
  BY LecturerStepKeeps, CourseStepKeeps, StutterKeeps DEF Next

LEMMA InvAlways == Spec => []Inv
<1>1. Inv /\ [Next]_vars => Inv'
  BY StepInv
<1> QED
  BY InitInv, <1>1, PTL DEF Spec

-----------------------------------------------------------------------------
(* Theorems *)

\* Rows, logins and requests keep their types.
THEOREM StaffTypes == Spec => []TypeOK
<1>1. Inv => TypeOK
  BY DEF Inv
<1> QED
  BY InvAlways, <1>1, PTL

\* The login of a lecturer follows the status, the role follows the row in
\* hods, and a department has one HOD, whatever the order of promotions,
\* removals, deletes and status changes, for any number of admins at once.
THEOREM LoginsAlwaysAgree == Spec => []LoginsAgree
<1>1. Inv => LoginsAgree
  <2> SUFFICES ASSUME Inv PROVE LoginsAgree
    OBVIOUS
  <2>1. ASSUME NEW d \in Departments, d \notin raced
        PROVE  Cardinality(HeadsOf(d)) <= 1
    <3>1. \A p, q \in HeadsOf(d) : p = q
      BY <2>1 DEF Inv, Logins, OneHead
    <3>2. CASE HeadsOf(d) = {}
      BY <3>2, FS_EmptySet
    <3>3. CASE HeadsOf(d) # {}
      <4>1. PICK p : HeadsOf(d) = {p}
        BY <3>1, <3>3
      <4> QED
        BY <4>1, FS_Singleton
    <3> QED
      BY <3>2, <3>3
  <2>2. OneHodPerDepartment
    BY <2>1 DEF OneHodPerDepartment
  <2> QED
    BY <2>2 DEF Inv, Logins, LoginsAgree
<1> QED
  BY InvAlways, <1>1, PTL

\* Each teacher of a course is named once, and nobody who has left teaches a
\* running course, but for the courses given to them and the requests that
\* overlapped.
THEOREM CoursesAlwaysTaught == Spec => []CoursesAreTaught
<1>1. Inv => CoursesAreTaught
  BY DEF Inv, Teaching, CoursesAreTaught
<1> QED
  BY InvAlways, <1>1, PTL

-----------------------------------------------------------------------------
(* Steps that give a course another coordinator, and confirmed copies *)

\* No course there before and after has got another coordinator.
SameCoordinators ==
  \A c \in Courses : IsCourse(c) /\ IsCourse(c)' => courses'[c].coordinator = courses[c].coordinator

LEMMA LecturerStepCoordinators == Inv /\ LecturerStep => SameCoordinators
<1> SUFFICES ASSUME Inv, LecturerStep, UNCHANGED courses => SameCoordinators
             PROVE  SameCoordinators
  BY DEF SameCoordinators
<1>1. ASSUME NEW P, Hired(P) PROVE SameCoordinators
  BY <1>1 DEF Hired
<1>2. ASSUME NEW p \in Staff, DeleteLecturer(p) PROVE SameCoordinators
  <2> SUFFICES ASSUME NEW c \in Courses, IsCourse(c)
               PROVE  courses'[c].coordinator = courses[c].coordinator
    BY DEF SameCoordinators
  <2>1. courses[c] \in Course
    BY DEF IsCourse, Inv, TypeOK
  <2>2. courses'[c] = [courses[c] EXCEPT !.co = courses[c].co \ {p}]
    BY <1>2 DEF DeleteLecturer
  <2> QED
    BY <2>1, <2>2 DEF Course
<1>3. ASSUME NEW r \in Requests, RolledBack(r) PROVE SameCoordinators
  BY <1>3 DEF RolledBack, tables
<1>4. ASSUME NEW r \in Requests, CommitStatus(r) PROVE SameCoordinators
  <2> SUFFICES ASSUME ~RolledBack(r), NEW c \in Courses, IsCourse(c)
               PROVE  courses'[c].coordinator = courses[c].coordinator
    BY <1>3 DEF SameCoordinators
  <2>1. courses[c] \in Course
    BY DEF IsCourse, Inv, TypeOK
  <2>2. \/ courses'[c] = [courses[c] EXCEPT !.co = courses[c].co \ {request[r].who}]
        \/ courses'[c] = courses[c]
    BY <1>4 DEF CommitStatus
  <2> QED
    BY <2>1, <2>2 DEF Course
<1>5. ASSUME NEW r \in Requests, NEW j, Ask(r, j) PROVE SameCoordinators
  BY <1>5 DEF Ask, tables
<1>6. ASSUME NEW r \in Requests, CommitHead(r) PROVE SameCoordinators
  BY <1>3, <1>6 DEF CommitHead
<1>7. \A p \in Staff : Act(p) \/ RemoveHod(p) => SameCoordinators
  BY DEF Act, RemoveHod
<1>8. ASSUME NEW r \in Requests, NEW p \in Staff, NEW status \in Statuses, BeginStatus(r, p, status)
      PROVE  SameCoordinators
  BY <1>5, <1>8, StatusAsked DEF Inv, Logins
<1>9. ASSUME NEW r \in Requests, NEW kind \in {"promote", "create", "move"}, NEW p \in Staff,
             NEW d \in Departments, BeginHead(r, kind, p, d)
      PROVE  SameCoordinators
  BY <1>5, <1>9, HeadAsked
<1> QED
  BY <1>1, <1>2, <1>4, <1>6, <1>7, <1>8, <1>9 DEF LecturerStep, UploadLecturers, CreateLecturer

LEMMA CourseStepCoordinators ==
  Inv /\ CourseStep => SameCoordinators \/ \E r \in Requests : CommitManage(r) /\ ~RolledBack(r)
<1> SUFFICES ASSUME Inv, CourseStep, UNCHANGED courses => SameCoordinators,
                    \A r \in Requests : CommitManage(r) => RolledBack(r)
             PROVE  SameCoordinators
  BY DEF SameCoordinators
<1>1. ASSUME NEW c \in Courses, EndOrExtend(c) PROVE SameCoordinators
  <2>1. courses[c] \in Course
    BY <1>1 DEF EndOrExtend, IsCourse, Inv, TypeOK
  <2>2. courses'[c] = [courses[c] EXCEPT !.running = ~@]
    BY <1>1 DEF EndOrExtend, Inv, TypeOK
  <2>3. courses'[c].coordinator = courses[c].coordinator
    BY <2>1, <2>2 DEF Course
  <2>4. \A x \in Courses \ {c} : courses'[x] = courses[x]
    BY <1>1 DEF EndOrExtend, Inv, TypeOK
  <2> QED
    BY <2>3, <2>4 DEF SameCoordinators
<1>2. ASSUME NEW c \in Courses, NEW p \in Staff, CreateCourse(c, p) PROVE SameCoordinators
  BY <1>2 DEF CreateCourse, Inv, TypeOK, SameCoordinators
<1>3. ASSUME NEW r \in Requests, RolledBack(r) PROVE SameCoordinators
  BY <1>3 DEF RolledBack, tables
<1>4. ASSUME NEW r \in Requests, CommitCopy(r) PROVE SameCoordinators
  BY <1>3, <1>4, CopyMeans DEF SameCoordinators
<1>8. ASSUME NEW r \in Requests, ConfirmCopy(r) PROVE SameCoordinators
  BY <1>3, <1>8 DEF ConfirmCopy, tables
<1>5. ASSUME NEW r \in Requests, NEW j, Ask(r, j) PROVE SameCoordinators
  BY <1>5 DEF Ask, tables
<1>6. ASSUME NEW r \in Requests, NEW c \in Courses, NEW p \in Staff,
             NEW change \in {"add", "remove", "coordinator"}, BeginManage(r, c, p, change)
      PROVE  SameCoordinators
  BY <1>5, <1>6, ManageAsked DEF Inv
<1>7. ASSUME NEW r \in Requests, NEW source \in Courses, NEW target \in Courses, NEW first \in Staff,
             BeginCopy(r, source, target, first)
      PROVE  SameCoordinators
  BY <1>5, <1>7, CopyAsked DEF Inv
<1> QED
  BY <1>1, <1>2, <1>3, <1>4, <1>6, <1>7, <1>8 DEF CourseStep

LEMMA ManageLosesNobody ==
  ASSUME Inv, NEW r \in Requests, CommitManage(r), ~RolledBack(r),
         NEW c \in Courses, courses'[c].coordinator # courses[c].coordinator
  PROVE  courses[c].coordinator \in courses'[c].co \/ c \in raced'
<1>1. PICK j \in Job :
        /\ j = request[r] /\ ManageJob(j) /\ JobSafe(j)
        /\ UNCHANGED <<lecturers, heads, login>>
        /\ courses[j.course] \in Course
        /\ courses'[j.course] = Managed(courses[j.course], j)
        /\ \A x \in Courses \ {j.course} : courses'[x] = courses[x]
        /\ allowed \subseteq allowed'
        /\ j.op # "remove" /\ lecturers[j.who] = "left" => j.course \in allowed'
        /\ \A q \in Requests : request'[q] = Idle \/ request'[q] = Overtaken(j.about)[q]
        /\ raced \subseteq raced'
        /\ j.alone => raced' = raced /\ JobFresh(j)
        /\ ~j.alone => j.about \subseteq raced'
  BY ManageMeans
<1>2. c = j.course
  BY <1>1
<1>3. c \in j.about
  BY <1>1, <1>2 DEF JobSafe, JobSound
<1> DEFINE then == Managed(courses[c], j)
<1>4. /\ then \in Course
      /\ j.op = "add" => then.coordinator = courses[c].coordinator
      /\ j.op = "remove" => then.coordinator = courses[c].coordinator
      /\ j.op = "coordinator" => j.seen.coordinator \in then.co
  BY <1>1, <1>2, ManagedIs
<1>5. courses'[c] = then
  BY <1>1, <1>2
<1>6. j.op = "coordinator"
  BY <1>1, <1>4, <1>5 DEF ManageJob
<1>7. j.alone => courses[c].coordinator = j.seen.coordinator
  BY <1>1, <1>2 DEF JobFresh
<1> QED
  BY <1>1, <1>3, <1>4, <1>5, <1>6, <1>7

\* The coordinator a course loses stays on as a co-lecturer, in every
\* interleaving of the changes of its lecturers with everything else, unless
\* two such changes overlapped.
THEOREM NobodyEverLosesAClass == Spec => NobodyLosesAClass
<1>1. SameCoordinators =>
        \A c \in Courses :
          IsCourse(c) /\ IsCourse(c)' /\ courses'[c].coordinator # courses[c].coordinator =>
            \/ courses[c].coordinator \in courses'[c].co
            \/ c \in raced'
  BY DEF SameCoordinators
<1>2. Inv /\ [Next]_vars =>
        [\A c \in Courses :
           IsCourse(c) /\ IsCourse(c)' /\ courses'[c].coordinator # courses[c].coordinator =>
             \/ courses[c].coordinator \in courses'[c].co
             \/ c \in raced']_vars
  BY <1>1, LecturerStepCoordinators, CourseStepCoordinators, ManageLosesNobody DEF Next
<1> QED
  BY InvAlways, <1>2, PTL DEF Spec, NobodyLosesAClass

\* A copy that waits stays one, whatever else commits.
LEMMA CopyStays ==
  ASSUME Inv, NEW r \in Requests, request[r].op \in {"copy", "confirm"}, NEW things
  PROVE  request[r] # Idle /\ Overtaken(things)[r] # Idle
<1>1. request[r] # Idle
  BY DEF Idle
<1>2. request[r] \in Job
  BY <1>1 DEF Inv, TypeOK
<1>3. \/ Overtaken(things)[r] = request[r]
      \/ Overtaken(things)[r] = [request[r] EXCEPT !.alone = FALSE]
  BY OvertakenTyped, TypedParts DEF Inv
<1>4. [request[r] EXCEPT !.alone = FALSE] \in Job
  BY <1>2, OvertakenJob
<1> QED
  BY <1>1, <1>3, <1>4, IdleIsNoJob

CopyChecked(c) == c \in raced' \/ \A p \in Teachers(c)' : Active(p)'

LEMMA CopyStep ==
  ASSUME Inv, Next, NEW r \in Requests, request[r].op \in {"copy", "confirm"},
         NEW c \in Courses, request[r].course = c,
         ~IsCourse(c), IsCourse(c)', request'[r] = Idle
  PROVE  CopyChecked(c)
<1>1. request[r] # Idle /\ \A things : Overtaken(things)[r] # Idle
  BY CopyStays
<1>2. ASSUME NEW q \in Requests, RolledBack(q) PROVE FALSE
  BY <1>2 DEF RolledBack, tables, IsCourse
<1>3. ASSUME NEW q \in Requests, NEW j, Ask(q, j) PROVE FALSE
  BY <1>3 DEF Ask, tables, IsCourse
<1>4. ASSUME NEW q \in Requests, q # r, NEW things,
             request' = [Overtaken(things) EXCEPT ![q] = Idle]
      PROVE  FALSE
  <2>1. request'[r] = Overtaken(things)[r]
    BY <1>4 DEF Overtaken
  <2> QED
    BY <1>1, <2>1
<1>5. request' # request /\ \A things : request' # Overtaken(things)
  BY <1>1
<1>6. ASSUME NEW q \in Requests, CommitStatus(q) \/ CommitHead(q) \/ CommitManage(q)
      PROVE  FALSE
  <2>1. q # r
    BY <1>6 DEF CommitStatus, CommitHead, CommitManage
  <2>2. RolledBack(q) \/ Committed(q)
    BY <1>6 DEF CommitStatus, CommitHead, CommitManage
  <2> QED
    BY <1>2, <1>4, <2>1, <2>2 DEF Committed
<1>7. ASSUME NEW q \in Requests, CommitCopy(q) PROVE CopyChecked(c)
  <2>1. CASE q # r
    <3>1. RolledBack(q) \/ Committed(q)
      BY <1>7 DEF CommitCopy
    <3> QED
      BY <1>2, <1>4, <2>1, <3>1 DEF Committed
  <2>2. CASE q = r
    <3>1. PICK j \in Job :
            /\ j = request[r] /\ CopyJob(j) /\ JobSafe(j) /\ j.op = "confirm"
            /\ UNCHANGED <<lecturers, heads, login, allowed>>
            /\ ~IsCourse(j.course)
            /\ courses'[j.course] = [coordinator |-> j.first, co |-> j.rest, running |-> TRUE]
            /\ \A x \in Courses \ {j.course} : courses'[x] = courses[x]
            /\ \A i \in Requests : request'[i] = Idle \/ request'[i] = Overtaken(j.about)[i]
            /\ raced \subseteq raced'
            /\ j.alone => \A p \in {j.first} \cup j.rest : Active(p)
            /\ ~j.alone => j.about \subseteq raced'
      BY <1>2, <1>7, <2>2, CopyMeans
    <3>2. c = j.course /\ c \in j.about
      BY <3>1 DEF JobSafe, JobSound
    <3>3. Teachers(c)' = {j.first} \cup j.rest
      BY <3>1, <3>2 DEF Teachers
    <3> QED
      BY <3>1, <3>2, <3>3 DEF CopyChecked, Active
  <2> QED
    BY <2>1, <2>2
<1>8. CASE LecturerStep
  <2>1. \A P : ~Hired(P)
    BY <1>5 DEF Hired
  <2>2. \A p \in Staff : ~DeleteLecturer(p) /\ ~Act(p) /\ ~RemoveHod(p)
    BY <1>5 DEF DeleteLecturer, Act, RemoveHod
  <2>3. \A q \in Requests, p \in Staff, status \in Statuses : ~BeginStatus(q, p, status)
    BY <1>3, StatusAsked DEF Inv, Logins
  <2>4. \A q \in Requests, kind \in {"promote", "create", "move"}, p \in Staff, d \in Departments :
          ~BeginHead(q, kind, p, d)
    BY <1>3, HeadAsked
  <2> QED
    BY <1>6, <1>8, <2>1, <2>2, <2>3, <2>4 DEF LecturerStep, UploadLecturers, CreateLecturer
<1>9. CASE CourseStep
  <2>1. \A x \in Courses : ~EndOrExtend(x) /\ \A p \in Staff : ~CreateCourse(x, p)
    BY <1>5 DEF EndOrExtend, CreateCourse
  <2>2. \A q \in Requests, x \in Courses, p \in Staff, change \in {"add", "remove", "coordinator"} :
          ~BeginManage(q, x, p, change)
    BY <1>3, ManageAsked DEF Inv
  <2>3. \A q \in Requests, source, target \in Courses, p \in Staff : ~BeginCopy(q, source, target, p)
    BY <1>3, CopyAsked DEF Inv
  <2>4. \A q \in Requests : ~ConfirmCopy(q)
    BY <1>2 DEF ConfirmCopy, tables, IsCourse
  <2> QED
    BY <1>6, <1>7, <1>9, <2>1, <2>2, <2>3, <2>4 DEF CourseStep
<1> QED
  BY <1>8, <1>9 DEF Next

\* A copied course starts with active lecturers, however long its preview
\* waited, unless one of them was changed after the confirmation looked.
THEOREM CopiesAreAlwaysTaught == Spec => CopiesAreTaught
<1>1. Inv /\ [Next]_vars =>
        [\A r \in Requests, c \in Courses :
           /\ request[r].op \in {"copy", "confirm"} /\ request[r].course = c
           /\ ~IsCourse(c) /\ IsCourse(c)' /\ request'[r] = Idle
           => \/ c \in raced'
              \/ \A p \in Teachers(c)' : Active(p)']_vars
  BY CopyStep DEF CopyChecked
<1> QED
  BY InvAlways, <1>1, PTL DEF Spec, CopiesAreTaught
=============================================================================
