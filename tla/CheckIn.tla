------------------------------ MODULE CheckIn ------------------------------
(***************************************************************************)
(* How attendance is recorded.  Five request handlers write one register:  *)
(* an NFC tap relayed by a terminal, a Bluetooth check-in sent by the      *)
(* phone, a lecturer marking a student by hand, a lecturer accepting a tap *)
(* a terminal read while offline, and the upload of those taps, which may  *)
(* only file them for review (src/SUAAMS/api/student.py, utils.py,         *)
(* models.py).                                                             *)
(*                                                                         *)
(* Request threads interleave.  A handler reads in one step and commits in *)
(* another: a transaction's plain reads show one snapshot (see             *)
(* ClassSession), and what they showed may be stale when the commit comes. *)
(* job[w] is the write the request on thread w is about to commit.  The    *)
(* database's unique keys are checked by the commit.                       *)
(*                                                                         *)
(* Tokens are stateless: once minted, a token may be presented any number  *)
(* of times, so minted only grows.  Signatures are not modelled: a token   *)
(* that passes verify_beacon_signature is one the server minted.           *)
(*                                                                         *)
(* Abstracted: which lecturer acts (any lecturer of the course), present   *)
(* versus late, the department a course belongs to, terminal and account   *)
(* authentication, rate limits, wording.                                   *)
(***************************************************************************)
EXTENDS ClassSession

CONSTANTS
  Students,
  Workers,       \* the server's request threads
  OpenCourses,   \* the courses of the active semester
  RoomCheck,     \* the ROOM_CHECK setting: "off", "flag" or "enforce"
  Ttl,           \* BEACON_TOKEN_TTL_SECONDS, in ticks
  MaxLag,        \* OFFLINE_READ_MAX_LAG_SECONDS, in ticks
  MaxClock,      \* bound: ticks that pass
  MaxTokens      \* bound: tokens minted

ASSUME CheckInAssumption ==
  /\ OpenCourses \subseteq Courses
  /\ RoomCheck \in {"off", "flag", "enforce"}
  /\ Ttl \in Nat
  /\ MaxLag \in Nat
  /\ MaxClock \in Nat \ {0}
  /\ MaxTokens \in Nat

VARIABLES
  clock,         \* Unix time, in ticks
  enrolled,      \* the enrollments table
  minted,        \* every beacon token signed so far
  attendance,    \* the attendance table, by its unique key
  offlineLog,    \* the offline_checkin_logs table, by its unique key
  notified,      \* "Attendance Recorded" notifications stored, by key
  job,           \* the write each request thread is about to commit
  batch,         \* the taps an "accept all" has still to review
  owed           \* rows a thread committed and has yet to notify about

tableVars == <<enrolled, minted, attendance, offlineLog, notified>>
threadVars == <<job, batch, owed>>
vars == <<sessionVars, clock, tableVars, threadVars>>

-----------------------------------------------------------------------------
Keys == Students \X SessionIds
Student(k) == k[1]
Session(k) == k[2]

Token == [student : Students, session : SessionIds, exp : 0..(MaxClock + Ttl)]
KeyOf(t) == <<t.student, t.session>>

Methods == {"nfc", "ble", "manual", "offline"}
Row == [method : Methods, wrong : BOOLEAN]
NoRow == [method |-> "none", wrong |-> FALSE]

\* reason "lag": the terminal read the token long after it was minted.
LogRow == [status : {"pending_verification", "superseded", "accepted", "rejected"},
           reason : {"none", "lag", "lecturer", "not_enrolled", "had_attendance"},
           wrong : BOOLEAN]
NoLog == [status |-> "none", reason |-> "none", wrong |-> FALSE]

Idle == [op |-> "idle"]
InsertJob == [op : {"insert"}, key : Keys, row : Row]
AcceptJob == [op : {"accept"}, key : Keys, row : Row]
SettleJob == [op : {"settle"}, key : Keys, log : LogRow]
FileJob == [op : {"file"}, key : Keys, log : LogRow]
Job == {Idle} \cup InsertJob \cup AcceptJob \cup SettleJob \cup FileJob

TypeOK ==
  /\ SessionTypeOK
  /\ clock \in 1..MaxClock
  /\ enrolled \in SUBSET (Students \X Courses)
  /\ minted \in SUBSET Token
  /\ attendance \in [Keys -> Row \cup {NoRow}]
  /\ offlineLog \in [Keys -> LogRow \cup {NoLog}]
  /\ notified \in [Keys -> Nat]
  /\ job \in [Workers -> Job]
  /\ batch \in [Workers -> SUBSET Keys]
  /\ owed \in [Workers -> SUBSET Keys]

Init ==
  /\ SessionInit
  /\ clock = 1
  /\ enrolled \in SUBSET (Students \X Courses)
  /\ minted = {}
  /\ attendance = [k \in Keys |-> NoRow]
  /\ offlineLog = [k \in Keys |-> NoLog]
  /\ notified = [k \in Keys |-> 0]
  /\ job = [w \in Workers |-> Idle]
  /\ batch = [w \in Workers |-> {}]
  /\ owed = [w \in Workers |-> {}]

-----------------------------------------------------------------------------
(* What the handlers read *)

Recorded(k) == attendance[k] # NoRow
IsEnrolled(k) == <<Student(k), sessions[Session(k)].course>> \in enrolled

\* Running, and of today: a session left open from an earlier day is over.
IsLive(i) == sessions[i].state = "running" /\ sessions[i].date = today

ActiveSessions(s) == {i \in SessionIds : IsLive(i) /\ IsEnrolled(<<s, i>>)}

\* _active_session_for_student: of several running at once, the newest.
IsActiveSession(s, i) ==
  /\ i \in ActiveSessions(s)
  /\ \A j \in ActiveSessions(s) : j <= i

\* The key a tap is credited to: the session bound into the token.
Credited(t) == {KeyOf(t)}

\* The wrong-room mark a check-in gets, from the reader's verdict.
Mark(wrongRoom) == wrongRoom /\ RoomCheck # "off"
RefusedForRoom(wrongRoom) == wrongRoom /\ RoomCheck = "enforce"

Expiry == clock + Ttl

\* Thread w has no request.
Free(w) == job[w] = Idle /\ batch[w] = {} /\ owed[w] = {}

Start(w, j) ==
  /\ Free(w)
  /\ job' = [job EXCEPT ![w] = j]
  /\ UNCHANGED <<sessionVars, clock, tableVars, batch, owed>>

-----------------------------------------------------------------------------
(* The handlers, up to their commit *)

\* mint_checkin_beacon: bind the session into a token.
MintBeacon(s) ==
  /\ Cardinality(minted) < MaxTokens
  /\ \E i \in SessionIds :
       /\ IsActiveSession(s, i)
       /\ minted' = minted \cup {[student |-> s, session |-> i, exp |-> Expiry]}
  /\ UNCHANGED <<sessionVars, clock, enrolled, attendance, offlineLog, notified, threadVars>>

\* submit_checkin_beacon, reads: the token is still fresh, its session still
\* live, the student enrolled, not yet recorded, the reader's room allowed.
SubmitNfc(w, t, wrongRoom) ==
  /\ clock <= t.exp
  /\ \E k \in Credited(t) :
       /\ IsLive(Session(k))
       /\ IsEnrolled(k)
       /\ ~Recorded(k)
       /\ ~RefusedForRoom(wrongRoom)
       /\ Start(w, [op |-> "insert", key |-> k,
                    row |-> [method |-> "nfc", wrong |-> Mark(wrongRoom)]])

\* submit_ble_checkin, reads, after the broadcast code was found current and
\* its reader not disabled.
SubmitBle(w, s, wrongRoom) ==
  \E i \in SessionIds :
    /\ IsActiveSession(s, i)
    /\ ~Recorded(<<s, i>>)
    /\ ~RefusedForRoom(wrongRoom)
    /\ Start(w, [op |-> "insert", key |-> <<s, i>>,
                 row |-> [method |-> "ble", wrong |-> Mark(wrongRoom)]])

\* mark_student_present, reads: ended sessions too.
MarkPresent(w, k) ==
  /\ sessions[Session(k)].state # "unused"
  /\ IsEnrolled(k)
  /\ ~Recorded(k)
  /\ Start(w, [op |-> "insert", key |-> k,
               row |-> [method |-> "manual", wrong |-> FALSE]])

\* review_offline_tap: what a tap that is still pending is settled to.
Settled(k, status, reason) ==
  [op |-> "settle", key |-> k,
   log |-> [status |-> status, reason |-> reason, wrong |-> offlineLog[k].wrong]]

\* review_offline_tap with accept = true: superseded when attendance exists,
\* rejected when the student has dropped the course, else credited.
AcceptDecision(k) ==
  CASE Recorded(k) -> Settled(k, "superseded", "had_attendance")
    [] ~Recorded(k) /\ ~IsEnrolled(k) -> Settled(k, "rejected", "not_enrolled")
    [] ~Recorded(k) /\ IsEnrolled(k) ->
         [op |-> "accept", key |-> k,
          row |-> [method |-> "offline", wrong |-> offlineLog[k].wrong]]

IsPending(k) == offlineLog[k].status = "pending_verification"

\* review_offline_tap, reads.
AcceptTap(w, k) == IsPending(k) /\ Start(w, AcceptDecision(k))
RejectTap(w, k) == IsPending(k) /\ Start(w, Settled(k, "rejected", "lecturer"))

\* accept_all_offline_taps: the pending taps of session i, less the students
\* who have attendance by now.
AcceptAll(w, i) ==
  /\ Free(w)
  /\ \E k \in Keys : Session(k) = i /\ IsPending(k) /\ ~Recorded(k)
  /\ batch' = [batch EXCEPT ![w] =
       {k \in Keys : Session(k) = i /\ IsPending(k) /\ ~Recorded(k)}]
  /\ UNCHANGED <<sessionVars, clock, tableVars, job, owed>>

\* Its loop: the next tap is reviewed like any other; one that was settled
\* meanwhile is passed over.
NextInBatch(w, k) ==
  /\ job[w] = Idle
  /\ k \in batch[w]
  /\ batch' = [batch EXCEPT ![w] = @ \ {k}]
  /\ job' = [job EXCEPT ![w] = IF IsPending(k) THEN AcceptDecision(k) ELSE Idle]
  /\ UNCHANGED <<sessionVars, clock, tableVars, owed>>

\* The terminal's read time r for token t (0: none it can use) shows that
\* the token was kept and replayed.
ReadTooLate(t, r) == r # 0 /\ r + Ttl > t.exp + MaxLag

\* The row a sync files, the status of a late read left as it was.
FiledLateStillPending(t, r, wrongRoom) ==
  [status |-> IF Recorded(KeyOf(t)) THEN "superseded" ELSE "pending_verification",
   reason |-> IF ReadTooLate(t, r) THEN "lag" ELSE "none",
   wrong |-> Mark(wrongRoom)]

\* The row a sync files for token t.
Filed(t, r, wrongRoom) ==
  [status |-> CASE ReadTooLate(t, r) -> "rejected"
                [] ~ReadTooLate(t, r) /\ Recorded(KeyOf(t)) -> "superseded"
                [] ~ReadTooLate(t, r) /\ ~Recorded(KeyOf(t)) -> "pending_verification",
   reason |-> IF ReadTooLate(t, r) THEN "lag" ELSE "none",
   wrong |-> Mark(wrongRoom)]

\* sync_offline_checkin_backlog, one record of the batch, reads: expired
\* tokens are expected; a tap already on file is left as it is.
SyncTap(w, t, r, wrongRoom) ==
  /\ offlineLog[KeyOf(t)] = NoLog
  /\ Start(w, [op |-> "file", key |-> KeyOf(t), log |-> Filed(t, r, wrongRoom)])

-----------------------------------------------------------------------------
(* Their commits *)

\* The attendance insert as if its unique key were not there.
CommitInsertUnchecked(w) ==
  LET k == job[w].key
  IN  /\ job[w].op = "insert"
      /\ attendance' = [attendance EXCEPT ![k] = job[w].row]
      /\ owed' = [owed EXCEPT ![w] = @ \cup {k}]
      /\ job' = [job EXCEPT ![w] = Idle]
      /\ UNCHANGED <<sessionVars, clock, enrolled, minted, offlineLog, notified, batch>>

\* The attendance insert: the unique key lets exactly one row in; a request
\* that lost the race answers "already marked".
CommitInsert(w) ==
  LET k == job[w].key
  IN  /\ job[w].op = "insert"
      /\ \/ /\ ~Recorded(k)
            /\ attendance' = [attendance EXCEPT ![k] = job[w].row]
            /\ owed' = [owed EXCEPT ![w] = @ \cup {k}]
         \/ /\ Recorded(k)
            /\ UNCHANGED <<attendance, owed>>
      /\ job' = [job EXCEPT ![w] = Idle]
      /\ UNCHANGED <<sessionVars, clock, enrolled, minted, offlineLog, notified, batch>>

\* The row and the settled tap, in one commit.  The UPDATE leaves the reason
\* column alone: the pending tap that was read had none.
Credit(w) ==
  LET k == job[w].key
  IN  /\ ~Recorded(k)
      /\ attendance' = [attendance EXCEPT ![k] = job[w].row]
      /\ offlineLog' = [offlineLog EXCEPT ![k].status = "accepted"]
      /\ owed' = [owed EXCEPT ![w] = @ \cup {k}]
      /\ job' = [job EXCEPT ![w] = Idle]
      /\ UNCHANGED <<sessionVars, clock, enrolled, minted, notified, batch>>

\* An acceptance that settles the tap after losing the race, unread.
CommitAcceptBlind(w) ==
  LET k == job[w].key
  IN  /\ job[w].op = "accept"
      /\ \/ Credit(w)
         \/ /\ Recorded(k)
            /\ job' = [job EXCEPT ![w] = Settled(k, "superseded", "had_attendance")]
            /\ UNCHANGED <<sessionVars, clock, tableVars, batch, owed>>

\* review_offline_tap's commit of an acceptance.  Losing the race for the
\* row, it rolls back, reads the tap again and supersedes it if it is still
\* pending.
CommitAccept(w) ==
  LET k == job[w].key
  IN  /\ job[w].op = "accept"
      /\ \/ Credit(w)
         \/ /\ Recorded(k)
            /\ job' = [job EXCEPT ![w] = IF IsPending(k)
                         THEN Settled(k, "superseded", "had_attendance") ELSE Idle]
            /\ UNCHANGED <<sessionVars, clock, tableVars, batch, owed>>

\* UPDATE offline_checkin_logs .. WHERE id: the tap's status is not read
\* again, so the last review to commit stands.
CommitSettle(w) ==
  LET k == job[w].key
  IN  /\ job[w].op = "settle"
      /\ offlineLog' = [offlineLog EXCEPT ![k] = job[w].log]
      /\ job' = [job EXCEPT ![w] = Idle]
      /\ UNCHANGED <<sessionVars, clock, enrolled, minted, attendance, notified, batch, owed>>

\* The tap filed as if its unique key were not there.
CommitFileUnchecked(w) ==
  LET k == job[w].key
  IN  /\ job[w].op = "file"
      /\ offlineLog' = [offlineLog EXCEPT ![k] = job[w].log]
      /\ job' = [job EXCEPT ![w] = Idle]
      /\ UNCHANGED <<sessionVars, clock, enrolled, minted, attendance, notified, batch, owed>>

\* The tap is filed unless another reader's upload of it was first.
CommitFile(w) ==
  LET k == job[w].key
  IN  /\ job[w].op = "file"
      /\ \/ /\ offlineLog[k] = NoLog
            /\ offlineLog' = [offlineLog EXCEPT ![k] = job[w].log]
         \/ /\ offlineLog[k] # NoLog
            /\ UNCHANGED offlineLog
      /\ job' = [job EXCEPT ![w] = Idle]
      /\ UNCHANGED <<sessionVars, clock, enrolled, minted, attendance, notified, batch, owed>>

\* The in-app notification, after the row is committed (and, in a batch,
\* after every row of it is).
SendNotification(w, k) ==
  /\ job[w] = Idle
  /\ batch[w] = {}
  /\ k \in owed[w]
  /\ notified' = [notified EXCEPT ![k] = @ + 1]
  /\ owed' = [owed EXCEPT ![w] = @ \ {k}]
  /\ UNCHANGED <<sessionVars, clock, enrolled, minted, attendance, offlineLog, job, batch>>

\* The request ends in an exception, or its thread dies: what it had not
\* committed is gone, and so are the notifications it had not sent.
Abort(w) ==
  /\ ~Free(w)
  /\ job' = [job EXCEPT ![w] = Idle]
  /\ batch' = [batch EXCEPT ![w] = {}]
  /\ owed' = [owed EXCEPT ![w] = {}]
  /\ UNCHANGED <<sessionVars, clock, tableVars>>

-----------------------------------------------------------------------------
(* Registration, and time *)

RegisterCourse(s, c) ==
  /\ c \in OpenCourses
  /\ <<s, c>> \notin enrolled
  /\ enrolled' = enrolled \cup {<<s, c>>}
  /\ UNCHANGED <<sessionVars, clock, minted, attendance, offlineLog, notified, threadVars>>

DropCourse(s, c) ==
  /\ c \in OpenCourses
  /\ <<s, c>> \in enrolled
  /\ enrolled' = enrolled \ {<<s, c>>}
  /\ UNCHANGED <<sessionVars, clock, minted, attendance, offlineLog, notified, threadVars>>

\* Time passes; any tick may be the one that crosses midnight.
Tick ==
  /\ clock < MaxClock
  /\ clock' = clock + 1
  /\ NewDay \/ UNCHANGED sessionVars
  /\ UNCHANGED <<tableVars, threadVars>>

SessionRequest == SessionStep /\ UNCHANGED <<clock, tableVars, threadVars>>

Submit(w) ==
  \/ \E t \in minted, wrongRoom \in BOOLEAN :
       \/ SubmitNfc(w, t, wrongRoom)
       \/ \E r \in 0..clock : SyncTap(w, t, r, wrongRoom)
  \/ \E s \in Students, wrongRoom \in BOOLEAN : SubmitBle(w, s, wrongRoom)

Review(w) ==
  \/ \E k \in Keys :
       \/ MarkPresent(w, k)
       \/ AcceptTap(w, k)
       \/ RejectTap(w, k)
       \/ NextInBatch(w, k)
  \/ \E i \in SessionIds : AcceptAll(w, i)

Finish(w) ==
  \/ CommitInsert(w)
  \/ CommitAccept(w)
  \/ CommitSettle(w)
  \/ CommitFile(w)
  \/ \E k \in Keys : SendNotification(w, k)
  \/ Abort(w)

Enrolment ==
  \E s \in Students :
    \/ MintBeacon(s)
    \/ \E c \in Courses : RegisterCourse(s, c) \/ DropCourse(s, c)

Next ==
  \/ \E w \in Workers : Submit(w) \/ Review(w) \/ Finish(w)
  \/ Enrolment
  \/ SessionRequest
  \/ Tick

Spec == Init /\ [][Next]_vars
-----------------------------------------------------------------------------
(* Properties *)

\* The five handlers together keep the register's promise: a recorded row is
\* never replaced or withdrawn, and its student is told at most once and only
\* after it is committed (uq_attendance_student_session and the notification
\* each handler sends after its commit).
Register == INSTANCE AttendanceRegister
  WITH Rows <- Row, register <- attendance, notices <- notified

RefinesRegister == Register!Spec

\* The review log and the register never contradict each other, whatever
\* order uploads, reviews, live check-ins and hand marks commit in: an
\* accepted tap has its offline row, a superseded one has a row of another
\* method, an offline row was once accepted, and a tap still offered for
\* review was never credited (utils.review_offline_tap).
ReviewAgreesWithRegister ==
  \A k \in Keys :
    /\ offlineLog[k].status = "accepted" => attendance[k].method = "offline"
    /\ offlineLog[k].status = "superseded" =>
         Recorded(k) /\ attendance[k].method # "offline"
    /\ attendance[k].method = "offline" =>
         offlineLog[k].status \in {"accepted", "rejected"}

\* A token kept and replayed to an offline terminal is never credited, by
\* no sequence of uploads, reviews and "accept all" runs: once a late read is
\* on file it stays rejected (the read-time check of
\* sync_offline_checkin_backlog).
ReplayNeverCredited ==
  \A k \in Keys :
    offlineLog[k].reason = "lag" =>
      offlineLog[k].status = "rejected" /\ attendance[k].method # "offline"

\* Whatever is recorded as a tap, live or offline, was minted for exactly
\* that student and session: a tap is never credited to the session that
\* happens to be newest when it arrives (submit_checkin_beacon).
GenuineTap ==
  \A k \in Keys :
    attendance[k].method \in {"nfc", "offline"} \/ offlineLog[k] # NoLog =>
      \E t \in minted : KeyOf(t) = k

\* With ROOM_CHECK=enforce no live check-in made in another room is on the
\* register, whatever races it won (terminal_rooms.wrong_room).
EnforceRefusesLive ==
  RoomCheck = "enforce" =>
    \A k \in Keys : attendance[k].method \in {"nfc", "ble"} => ~attendance[k].wrong

\* A credit is earned: by no replay, for the session tapped in, and in its
\* room where that is enforced.
CreditIsEarned == ReplayNeverCredited /\ GenuineTap /\ EnforceRefusesLive

\* A filed tap is never lost or offered for review a second time: once
\* settled it does not return to pending, it keeps its room mark, and one
\* rejected as a replay is never touched again (the unique key of
\* offline_checkin_logs and review_offline_tap).
SettledStaysSettled ==
  [][\A k \in Keys : offlineLog[k] # NoLog =>
       /\ offlineLog'[k] # NoLog
       /\ offlineLog'[k].wrong = offlineLog[k].wrong
       /\ offlineLog'[k].status = "pending_verification" => IsPending(k)
       /\ offlineLog[k].reason = "lag" => offlineLog'[k] = offlineLog[k]]_vars

-----------------------------------------------------------------------------
(* A promise of the documentation the code does not keep *)

\* "rejected -- the lecturer rejected it, or the student is no longer
\* enrolled" (models.OfflineCheckinLog): a rejected tap is not on the
\* register.
RejectedNotCredited ==
  \A k \in Keys : offlineLog[k].status = "rejected" => attendance[k].method # "offline"
=============================================================================
