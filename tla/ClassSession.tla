---------------------------- MODULE ClassSession ----------------------------
(***************************************************************************)
(* Class sessions of the attendance server: a lecturer starts a session of *)
(* a course, students check into it while it runs, a lecturer ends it, and *)
(* a sweep closes what was left open on an earlier day                     *)
(* (src/SUAAMS/utils.py: start_class_session, end_class_session,           *)
(* close_stale_sessions).                                                  *)
(*                                                                         *)
(* A start or end request runs in two steps here.  Its FIRST database read *)
(* is the account check made before every signed-in request; it is where   *)
(* the request's transaction begins.  Everything from SELECT .. FOR UPDATE *)
(* on the course row to the commit is one step, because every other start  *)
(* or end request of the course waits for that lock.                       *)
(*                                                                         *)
(* The database is external: MySQL, of which app.py sets no isolation      *)
(* level, so REPEATABLE READ.  A plain SELECT after the lock returns the   *)
(* rows as they were when the transaction first read, changed only by its  *)
(* own UPDATEs; locking reads and UPDATEs see the latest committed rows.   *)
(*                                                                         *)
(* Abstracted: which lecturer asks (any lecturer who teaches the course),  *)
(* the semester a course belongs to (all are in the active one), planned   *)
(* times and the timetable slot a session is linked to.                    *)
(***************************************************************************)
EXTENDS Naturals, FiniteSets

CONSTANTS
  Courses,        \* the courses sessions are run for
  Lecturers,      \* the start/end requests that may be in flight together
  MaxSessions,    \* bound: sessions ever created
  MaxDay          \* bound: campus days that pass

ASSUME SessionAssumption ==
  /\ MaxSessions \in Nat
  /\ MaxDay \in Nat

VARIABLES
  today,          \* the campus date (campus_time.campus_today)
  sessions,       \* the sessions table, by id
  asking,         \* the start/end request each lecturer has in flight
  crossed         \* history: sessions whose Start began before another
                  \* Start of the course committed

sessionVars == <<today, sessions, asking, crossed>>

SessionIds == 1..MaxSessions
NoCourse == "no course"

\* An id no session has yet.
Unused == [state |-> "unused", course |-> NoCourse, date |-> 0]

SessionRow == [state : {"unused", "running", "ended"},
               course : Courses \cup {NoCourse},
               date : 0..MaxDay]

NotAsking == [op |-> "none", course |-> NoCourse, seen |-> {}, alone |-> TRUE]

\* A request: what it asks, for which course, the sessions of that course its
\* snapshot shows running, and whether no Start of the course committed since.
Request == [op : {"none", "start", "end"},
            course : Courses \cup {NoCourse},
            seen : SUBSET SessionIds,
            alone : BOOLEAN]

SessionTypeOK ==
  /\ today \in 0..MaxDay
  /\ sessions \in [SessionIds -> SessionRow]
  /\ asking \in [Lecturers -> Request]
  /\ crossed \subseteq SessionIds

-----------------------------------------------------------------------------
\* The sessions of course c whose is_active is set, of whatever day.
Running(c) ==
  {i \in SessionIds : sessions[i].state = "running" /\ sessions[i].course = c}

\* Left open from an earlier campus day.
IsStale(i) == sessions[i].state = "running" /\ sessions[i].date < today

\* An ended session's row taken for the next class.
IsEndedOrNextId(i) == sessions[i].state # "running"

\* The auto-increment key: the next session gets an id above all others.
IsNextId(i) ==
  /\ sessions[i].state = "unused"
  /\ \A j \in SessionIds : j < i => sessions[j].state # "unused"

\* The row a Start inserts.
NewSession(c) == [state |-> "running", course |-> c, date |-> today]

\* The sessions in S have their is_active cleared.
Ending(S) ==
  [i \in SessionIds |->
     IF i \in S THEN [sessions[i] EXCEPT !.state = "ended"] ELSE sessions[i]]

\* .first() where the code says .all().
SeenRunningFirst(l) == {i \in asking[l].seen : \A j \in asking[l].seen : j <= i}

\* Nobody looked.
SeenRunningUnchecked(l) == {}

\* The rows a plain SELECT of l's transaction shows running, after the lock.
SeenRunning(l) == asking[l].seen

SessionInit ==
  /\ today = 0
  /\ sessions = [i \in SessionIds |-> Unused]
  /\ asking = [l \in Lecturers |-> NotAsking]
  /\ crossed = {}

\* The account check of the request: its transaction's first read.
Ask(l, op, c) ==
  /\ asking[l] = NotAsking
  /\ asking' = [asking EXCEPT ![l] =
                 [op |-> op, course |-> c, seen |-> Running(c), alone |-> TRUE]]
  /\ UNCHANGED <<today, sessions, crossed>>

\* l is done, and the other requests about its course have not seen its session.
Overtaking(l) ==
  [k \in Lecturers |->
     IF k = l THEN NotAsking
     ELSE IF asking[k].course = asking[l].course THEN [asking[k] EXCEPT !.alone = FALSE]
     ELSE asking[k]]

\* start_class_session from the course lock to the commit.  The course's
\* stale sessions are ended first, in the same transaction; a session that
\* still looks running rolls all of it back ("already_active").
FinishStart(l) ==
  LET c == asking[l].course
      stale == {i \in Running(c) : IsStale(i)}
  IN  /\ asking[l].op = "start"
      /\ \/ /\ SeenRunning(l) \ stale # {}
            /\ asking' = [asking EXCEPT ![l] = NotAsking]
            /\ UNCHANGED <<sessions, crossed>>
         \/ /\ SeenRunning(l) \ stale = {}
            /\ \E i \in SessionIds :
                 /\ IsNextId(i)
                 /\ sessions' = [Ending(stale) EXCEPT ![i] = NewSession(c)]
                 /\ crossed' = IF asking[l].alone THEN crossed ELSE crossed \cup {i}
            /\ asking' = Overtaking(l)
      /\ UNCHANGED today

\* end_class_session from the course lock to the commit: every session it
\* sees running is closed; none ("none_active") changes nothing.
FinishEnd(l) ==
  /\ asking[l].op = "end"
  /\ asking' = [asking EXCEPT ![l] = NotAsking]
  /\ sessions' = Ending(SeenRunning(l))
  /\ UNCHANGED <<today, crossed>>

\* Any exception on the way: the transaction is rolled back.
FailRequest(l) ==
  /\ asking[l] # NotAsking
  /\ asking' = [asking EXCEPT ![l] = NotAsking]
  /\ UNCHANGED <<today, sessions, crossed>>

\* The sweep, a day late.
SweepLate ==
  /\ \E i \in SessionIds : sessions[i].state = "running" /\ sessions[i].date + 1 < today
  /\ sessions' = Ending({i \in SessionIds : sessions[i].state = "running"
                                            /\ sessions[i].date + 1 < today})
  /\ UNCHANGED <<today, asking, crossed>>

\* close_stale_sessions, run before requests at most every ten minutes per
\* process: one UPDATE that ends everything left open on an earlier day.
Sweep ==
  /\ \E i \in SessionIds : IsStale(i)
  /\ sessions' = Ending({i \in SessionIds : IsStale(i)})
  /\ UNCHANGED <<today, asking, crossed>>

\* Midnight on campus.
NewDay ==
  /\ today < MaxDay
  /\ today' = today + 1
  /\ UNCHANGED <<sessions, asking, crossed>>

SessionStep ==
  \/ \E l \in Lecturers :
       \/ \E op \in {"start", "end"}, c \in Courses : Ask(l, op, c)
       \/ FinishStart(l)
       \/ FinishEnd(l)
       \/ FailRequest(l)
  \/ Sweep

SessionNext == SessionStep \/ NewDay

\* Requests keep arriving, so the sweep that runs before them keeps running.
SessionSpec ==
  SessionInit /\ [][SessionNext]_sessionVars /\ WF_sessionVars(Sweep)

-----------------------------------------------------------------------------
\* Two Start requests never leave a course with two open sessions: "the second
\* request waits for the first to commit and then sees its session"
\* (utils._lock_owned_course).
OneRunningPerCourse == \A c \in Courses : Cardinality(Running(c)) <= 1

\* What the lock and the check do keep: a course has a second session open only
\* if its Start began before the first one's committed.  No sequence of
\* starts, ends, sweeps and midnights opens one beside a session that was there
\* to be seen (utils.start_class_session).
DuplicatesCrossed ==
  \A c \in Courses : \A i, j \in Running(c) : i < j => j \in crossed

\* After an End that closed anything, no session of the course accepts
\* check-ins any more, duplicates included: "one End must not leave the other
\* open" (utils.end_class_session) -- but for a session whose Start commits
\* while the End is under way, which the snapshot of the End does not show.
EndClosesAll ==
  [][\A l \in Lecturers, c \in Courses :
       (asking[l].op = "end" /\ asking[l].course = c /\ asking[l].alone
          /\ asking'[l] = NotAsking /\ sessions' # sessions)
         => Running(c)' = {}]_sessionVars

\* A session that ended never runs again, and no session ever changes its
\* course or its day: attendance filed under it keeps its meaning.
EndedForever ==
  [][\A i \in SessionIds :
       /\ sessions[i].state = "ended" => sessions'[i] = sessions[i]
       /\ sessions[i].state = "running" =>
            /\ sessions'[i].state # "unused"
            /\ sessions'[i].course = sessions[i].course
            /\ sessions'[i].date = sessions[i].date]_sessionVars

\* A session left open overnight is closed without anybody pressing End
\* (close_stale_sessions; before it, a forgotten one stayed live for days).
StaleEventuallyClosed ==
  \A i \in SessionIds : IsStale(i) ~> sessions[i].state = "ended"
=============================================================================
