---------------------------- MODULE CheckInProofs ----------------------------
(* Proofs about ClassSession, and about CheckIn which extends it.  First: its *)
(* types, the history of a session, and what the course lock keeps of the one *)
(* running session per course.  Then: the agreement of the review log with    *)
(* the register, that a replayed token is never credited, and that the        *)
(* handlers together implement AttendanceRegister.                            *)
EXTENDS CheckIn, TLAPS, FiniteSetTheorems

-----------------------------------------------------------------------------
\* What ending sessions does to the table: it stays a table, and only the
\* state of a listed session changes.
LEMMA EndingTyped ==
  ASSUME SessionTypeOK, NEW S
  PROVE  /\ Ending(S) \in [SessionIds -> SessionRow]
         /\ \A i \in SessionIds :
              /\ Ending(S)[i].course = sessions[i].course
              /\ Ending(S)[i].date = sessions[i].date
              /\ i \in S => Ending(S)[i].state = "ended"
              /\ i \notin S => Ending(S)[i] = sessions[i]
              /\ sessions[i].state = "ended" => Ending(S)[i] = sessions[i]
  BY DEF Ending, SessionTypeOK, SessionRow

\* The bounds are natural numbers, so day 0 and today are days.
LEMMA DayZero == 0 \in 0..MaxDay
  BY SessionAssumption DEF SessionAssumption

LEMMA SessionInitTyped == SessionInit => SessionTypeOK
  BY DayZero DEF SessionInit, SessionTypeOK, SessionRow, Unused, Request, NotAsking

\* Every step of a request, the sweep and midnight keep the types.
LEMMA SessionStepTyped ==
  ASSUME SessionTypeOK, [SessionNext]_sessionVars
  PROVE  SessionTypeOK'
<1>1. CASE SessionStep
  <2>1. CASE \E l \in Lecturers : \E op \in {"start", "end"}, c \in Courses : Ask(l, op, c)
    BY <2>1 DEF Ask, SessionTypeOK, Request, Running
  <2>2. ASSUME NEW l \in Lecturers, FinishStart(l)
        PROVE  SessionTypeOK'
    <3> DEFINE c == asking[l].course
               stale == {i \in Running(c) : IsStale(i)}
    <3>1. NewSession(c) \in SessionRow
      BY DEF NewSession, SessionRow, SessionTypeOK, Request
    <3>2. Ending(stale) \in [SessionIds -> SessionRow]
      BY EndingTyped
    <3>3. sessions' \in [SessionIds -> SessionRow]
      BY <2>2, <3>1, <3>2 DEF FinishStart, SessionTypeOK
    <3>4. asking' \in [Lecturers -> Request]
      <4>1. Overtaking(l) \in [Lecturers -> Request]
        <5> SUFFICES ASSUME NEW k \in Lecturers
                     PROVE  Overtaking(l)[k] \in Request
          BY DEF Overtaking
        <5>1. [asking[k] EXCEPT !.alone = FALSE] \in Request
          BY DEF SessionTypeOK, Request
        <5> QED
          BY <5>1 DEF Overtaking, SessionTypeOK, Request, NotAsking
      <4>2. [asking EXCEPT ![l] = NotAsking] \in [Lecturers -> Request]
        BY DEF SessionTypeOK, Request, NotAsking
      <4> QED
        BY <2>2, <4>1, <4>2 DEF FinishStart
    <3> QED
      BY <2>2, <3>3, <3>4 DEF FinishStart, SessionTypeOK
  <2>3. ASSUME NEW l \in Lecturers, FinishEnd(l)
        PROVE  SessionTypeOK'
    BY <2>3, EndingTyped DEF FinishEnd, SessionTypeOK, Request, NotAsking
  <2>4. ASSUME NEW l \in Lecturers, FailRequest(l)
        PROVE  SessionTypeOK'
    BY <2>4 DEF FailRequest, SessionTypeOK, Request, NotAsking
  <2>5. CASE Sweep
    BY <2>5, EndingTyped DEF Sweep, SessionTypeOK
  <2> QED
    BY <1>1, <2>1, <2>2, <2>3, <2>4, <2>5 DEF SessionStep
<1>2. CASE NewDay
  BY <1>2, SessionAssumption DEF NewDay, SessionTypeOK, SessionAssumption
<1>3. CASE UNCHANGED sessionVars
  BY <1>3 DEF sessionVars, SessionTypeOK
<1> QED
  BY <1>1, <1>2, <1>3 DEF SessionNext

\* The tables keep their types in every behaviour of the server.
THEOREM SessionTypeCorrect == SessionSpec => []SessionTypeOK
<1> QED
  BY SessionInitTyped, SessionStepTyped, PTL DEF SessionSpec

-----------------------------------------------------------------------------
\* One session's history across one step: what EndedForever says of it.
KeepsItsHistory(i) ==
  /\ sessions[i].state = "ended" => sessions'[i] = sessions[i]
  /\ sessions[i].state = "running" =>
       /\ sessions'[i].state # "unused"
       /\ sessions'[i].course = sessions[i].course
       /\ sessions'[i].date = sessions[i].date

LEMMA StepKeepsHistory ==
  ASSUME SessionTypeOK, [SessionNext]_sessionVars, NEW i \in SessionIds
  PROVE  KeepsItsHistory(i)
<1> USE DEF KeepsItsHistory
<1>1. ASSUME NEW S, sessions' = Ending(S)
      PROVE  KeepsItsHistory(i)
  BY <1>1, EndingTyped
<1>2. ASSUME UNCHANGED sessions
      PROVE  KeepsItsHistory(i)
  BY <1>2
<1>3. ASSUME NEW l \in Lecturers, FinishStart(l)
      PROVE  KeepsItsHistory(i)
  <2> DEFINE c == asking[l].course
             stale == {j \in Running(c) : IsStale(j)}
  <2>1. CASE UNCHANGED sessions
    BY <2>1, <1>2
  <2>2. ASSUME NEW j \in SessionIds, IsNextId(j),
               sessions' = [Ending(stale) EXCEPT ![j] = NewSession(c)]
        PROVE  KeepsItsHistory(i)
    <3>1. sessions[j].state = "unused"
      BY <2>2 DEF IsNextId
    <3>2. CASE i = j
      BY <3>1, <3>2
    <3>3. CASE i # j
      <4>1. sessions'[i] = Ending(stale)[i]
        BY <2>2, <3>3, EndingTyped
      <4> QED
        BY <4>1, EndingTyped
    <3> QED
      BY <3>2, <3>3
  <2> QED
    BY <1>3, <2>1, <2>2 DEF FinishStart
<1> QED
  BY <1>1, <1>2, <1>3
  DEF SessionNext, SessionStep, Ask, FinishEnd, FailRequest, Sweep, NewDay, sessionVars

\* An ended session never runs again, and no session changes course or day.
THEOREM EndedIsForever == SessionSpec => EndedForever
<1>1. SessionTypeOK /\ [SessionNext]_sessionVars
        => [\A i \in SessionIds : KeepsItsHistory(i)]_sessionVars
  BY StepKeepsHistory
<1>2. [\A i \in SessionIds : KeepsItsHistory(i)]_sessionVars
        => [\A i \in SessionIds :
              /\ sessions[i].state = "ended" => sessions'[i] = sessions[i]
              /\ sessions[i].state = "running" =>
                   /\ sessions'[i].state # "unused"
                   /\ sessions'[i].course = sessions[i].course
                   /\ sessions'[i].date = sessions[i].date]_sessionVars
  BY DEF KeepsItsHistory
<1> QED
  BY <1>1, <1>2, SessionTypeCorrect, PTL DEF SessionSpec, EndedForever

-----------------------------------------------------------------------------
(* Duplicates *)

Used(S) == \A i \in SessionIds : i \in S => sessions[i].state # "unused"

\* Ids are handed out in order.
IdsInOrder ==
  \A i, j \in SessionIds :
    i < j /\ sessions[j].state # "unused" => sessions[i].state # "unused"

\* The snapshot of a request no Start of its course has overtaken shows every
\* session that still runs: behind its back sessions have only ended.
SnapshotsHold ==
  \A l \in Lecturers :
    /\ Used(asking[l].seen)
    /\ asking[l].op # "none" /\ asking[l].alone
         => Running(asking[l].course) \subseteq asking[l].seen

SessionInv == IdsInOrder /\ SnapshotsHold /\ DuplicatesCrossed

LEMMA SessionInitInv == SessionInit => SessionInv
  BY DEF SessionInit, SessionInv, IdsInOrder, SnapshotsHold, DuplicatesCrossed,
         Used, Running, Unused, NotAsking

\* A step that only ends sessions, and lets requests go, keeps all three.
LEMMA EndingKeepsInv ==
  ASSUME SessionTypeOK, SessionInv, NEW S, Used(S), sessions' = Ending(S),
         UNCHANGED crossed,
         \A l \in Lecturers : asking'[l] \in {asking[l], NotAsking}
  PROVE  SessionInv'
<1>1. \A i \in SessionIds :
        /\ sessions'[i].state = "running" => sessions'[i] = sessions[i]
        /\ sessions'[i].state = "unused" <=> sessions[i].state = "unused"
  BY EndingTyped DEF Used
<1>2. \A c : Running(c)' \subseteq Running(c)
  BY <1>1 DEF Running, SessionIds
<1>3. IdsInOrder'
  BY <1>1 DEF SessionInv, IdsInOrder, SessionIds
<1>4. SnapshotsHold'
  BY <1>1, <1>2 DEF SessionInv, SnapshotsHold, Used, NotAsking, SessionIds
<1>5. DuplicatesCrossed'
  BY <1>2 DEF SessionInv, DuplicatesCrossed
<1> QED
  BY <1>3, <1>4, <1>5 DEF SessionInv

\* A new session is either the only one of its course, because a Start no
\* other has overtaken sees and refuses all that is not stale, or crossed.
LEMMA StartKeepsInv ==
  ASSUME SessionTypeOK, SessionInv, NEW l \in Lecturers, FinishStart(l)
  PROVE  SessionInv'
<1>c. PICK c : c = asking[l].course
  OBVIOUS
<1>s. PICK stale : stale = {i \in Running(c) : IsStale(i)}
  OBVIOUS
<1>1. CASE UNCHANGED <<sessions, crossed>> /\ asking' = [asking EXCEPT ![l] = NotAsking]
  BY <1>1 DEF SessionInv, IdsInOrder, SnapshotsHold, DuplicatesCrossed, Used,
              Running, NotAsking, SessionIds, SessionTypeOK
<1>2. ASSUME SeenRunning(l) \ stale = {},
             NEW n \in SessionIds, IsNextId(n),
             sessions' = [Ending(stale) EXCEPT ![n] = NewSession(c)],
             crossed' = IF asking[l].alone THEN crossed ELSE crossed \cup {n},
             asking' = Overtaking(l)
      PROVE  SessionInv'
  <2>1. sessions'[n] = NewSession(c) /\ sessions[n].state = "unused"
    BY <1>2, EndingTyped DEF IsNextId
  <2>2. \A i \in SessionIds : i # n =>
          /\ sessions'[i].course = sessions[i].course
          /\ sessions'[i].state = "running" => sessions'[i] = sessions[i] /\ i \notin stale
          /\ sessions'[i].state = "unused" <=> sessions[i].state = "unused"
    <3> TAKE i \in SessionIds
    <3> HAVE i # n
    <3>1. sessions'[i] = Ending(stale)[i]
      BY <1>2, EndingTyped
    <3> QED
      BY <3>1, EndingTyped, <1>s DEF Running
  <2>3. \A i \in SessionIds : sessions[i].state # "unused" => i < n
    BY <1>2, <2>1 DEF IsNextId, SessionInv, IdsInOrder, SessionIds
  <2>4. Running(c)' \subseteq (Running(c) \ stale) \cup {n}
    BY <2>2, <1>s DEF Running, SessionIds
  <2>5. \A d : d # c => Running(d)' \subseteq Running(d)
    BY <2>1, <2>2 DEF Running, NewSession, SessionIds
  <2>6. IdsInOrder'
    BY <2>1, <2>2, <1>2 DEF SessionInv, IdsInOrder, IsNextId, NewSession, SessionIds
  <2>7. SnapshotsHold'
    <3> SUFFICES ASSUME NEW k \in Lecturers
                 PROVE  (/\ Used(asking[k].seen)
                         /\ asking[k].op # "none" /\ asking[k].alone
                              => Running(asking[k].course) \subseteq asking[k].seen)'
      BY DEF SnapshotsHold
    <3>1. asking'[k].seen \in {asking[k].seen, {}}
      BY <1>2 DEF Overtaking, NotAsking, SessionTypeOK, Request
    <3>2. Used(asking[k].seen)'
      <4> SUFFICES ASSUME NEW i \in SessionIds, i \in asking'[k].seen
                   PROVE  sessions'[i].state # "unused"
        BY DEF Used, SessionIds
      <4>1. sessions[i].state # "unused"
        BY <3>1 DEF SessionInv, SnapshotsHold, Used
      <4> QED
        BY <4>1, <2>1, <2>2
    <3>3. ASSUME asking'[k].op # "none", asking'[k].alone
          PROVE  asking'[k] = asking[k] /\ asking[k].course # c
      BY <1>2, <1>c, <3>3 DEF Overtaking, NotAsking, SessionTypeOK, Request
    <3>4. ASSUME asking'[k].op # "none", asking'[k].alone
          PROVE  Running(asking[k].course)' \subseteq asking'[k].seen
      <4>1. PICK d : d = asking[k].course
        OBVIOUS
      <4>2. Running(d)' \subseteq Running(d)
        BY <3>3, <3>4, <4>1, <2>5
      <4>3. Running(d) \subseteq asking[k].seen
        BY <3>3, <3>4, <4>1 DEF SessionInv, SnapshotsHold
      <4> QED
        BY <3>3, <3>4, <4>1, <4>2, <4>3 DEF Running
    <3> QED
      BY <3>2, <3>4
  <2>8. DuplicatesCrossed'
    <3> SUFFICES ASSUME NEW d \in Courses,
                        NEW i \in Running(d)', NEW j \in Running(d)', i < j
                 PROVE  j \in crossed'
      BY DEF DuplicatesCrossed
    <3>1. crossed \subseteq crossed'
      BY <1>2
    <3>2. CASE d # c
      BY <3>1, <3>2, <2>5 DEF SessionInv, DuplicatesCrossed
    <3>3. CASE d = c /\ j # n
      \* then i, older than j, is not the newest either
      <4>1. j \in Running(c)
        BY <3>3, <2>4
      <4>2. i # n
        BY <4>1, <2>3 DEF Running, SessionIds
      <4> QED
        BY <3>1, <3>3, <4>1, <4>2, <2>4 DEF SessionInv, DuplicatesCrossed
    <3>4. CASE d = c /\ j = n
      <4>1. i \in Running(c) \ stale
        BY <3>4, <2>4 DEF Running, SessionIds
      <4>2. i \notin asking[l].seen
        BY <4>1, <1>2 DEF SeenRunning
      <4>3. ~ asking[l].alone
        BY <4>1, <4>2, <1>c DEF SessionInv, SnapshotsHold, FinishStart
      <4> QED
        BY <1>2, <3>4, <4>3
    <3> QED
      BY <3>2, <3>3, <3>4
  <2> QED
    BY <2>6, <2>7, <2>8 DEF SessionInv
<1> QED
  BY <1>1, <1>2, <1>c, <1>s DEF FinishStart

LEMMA SessionStepKeepsInv ==
  ASSUME SessionTypeOK, SessionInv, [SessionNext]_sessionVars
  PROVE  SessionInv'
<1>1. CASE UNCHANGED <<sessions, asking, crossed>>
  BY <1>1 DEF SessionInv, IdsInOrder, SnapshotsHold, DuplicatesCrossed, Used, Running
<1>2. ASSUME NEW l \in Lecturers, NEW op, NEW c \in Courses, Ask(l, op, c)
      PROVE  SessionInv'
  <2>1. Used(Running(c))
    BY DEF Used, Running
  <2> QED
    BY <1>2, <2>1
    DEF Ask, SessionInv, IdsInOrder, SnapshotsHold, DuplicatesCrossed, Used, Running,
        SessionTypeOK
<1>3. ASSUME NEW l \in Lecturers, FinishEnd(l)
      PROVE  SessionInv'
  <2>1. Used(SeenRunning(l))
    BY DEF SessionInv, SnapshotsHold, SeenRunning
  <2> QED
    BY <1>3, <2>1, EndingKeepsInv DEF FinishEnd, SessionTypeOK
<1>4. ASSUME NEW l \in Lecturers, FailRequest(l)
      PROVE  SessionInv'
  BY <1>4 DEF FailRequest, SessionInv, IdsInOrder, SnapshotsHold, DuplicatesCrossed,
              Used, Running, NotAsking, SessionTypeOK
<1>5. CASE Sweep
  <2>1. Used({i \in SessionIds : IsStale(i)})
    BY DEF Used, IsStale
  <2> QED
    BY <1>5, <2>1, EndingKeepsInv DEF Sweep
<1> QED
  BY <1>1, <1>2, <1>3, <1>4, <1>5, StartKeepsInv
  DEF SessionNext, SessionStep, NewDay, sessionVars

\* A course has a second session open only if its Start began before another
\* Start of the course committed, for any number of requests and courses.
THEOREM DuplicatesAreCrossed == SessionSpec => []DuplicatesCrossed
<1>1. SessionInv => DuplicatesCrossed
  BY DEF SessionInv
<1> QED
  BY <1>1, SessionInitInv, SessionStepKeepsInv, SessionTypeCorrect, PTL DEF SessionSpec

\* One End closes every session of its course, duplicates included, unless a
\* Start of the course committed while it was under way.
THEOREM EndsCloseAll == SessionSpec => EndClosesAll
<1> DEFINE Closes ==
      \A l \in Lecturers, c \in Courses :
        (asking[l].op = "end" /\ asking[l].course = c /\ asking[l].alone
           /\ asking'[l] = NotAsking /\ sessions' # sessions)
          => Running(c)' = {}
<1>1. ASSUME SessionTypeOK, SessionInv, SessionNext, NEW l \in Lecturers, NEW c \in Courses,
             asking[l].op = "end", asking[l].course = c, asking[l].alone,
             asking'[l] = NotAsking, sessions' # sessions
      PROVE  Running(c)' = {}
  <2>1. asking'[l].op # asking[l].op
    BY <1>1 DEF NotAsking
  <2>2. FinishEnd(l)
    BY <1>1, <2>1
    DEF SessionNext, SessionStep, Ask, FinishStart, FinishEnd, FailRequest,
        Sweep, NewDay, SessionTypeOK, Overtaking, Request
  <2>3. Running(c) \subseteq SeenRunning(l)
    BY <1>1 DEF SessionInv, SnapshotsHold, SeenRunning
  <2> QED
    BY <1>1, <2>2, <2>3, EndingTyped DEF FinishEnd, Running, SessionIds
<1>2. SessionTypeOK /\ SessionInv /\ [SessionNext]_sessionVars => [Closes]_sessionVars
  BY <1>1
<1> QED
  BY <1>2, SessionInitInv, SessionStepKeepsInv, SessionTypeCorrect, PTL
  DEF SessionSpec, EndClosesAll

-----------------------------------------------------------------------------
(* Types *)

\* A job tells its kind by its op.
LEMMA JobKinds ==
  ASSUME NEW j \in Job
  PROVE  /\ j.op = "insert" => j \in InsertJob
         /\ j.op = "accept" => j \in AcceptJob
         /\ j.op = "settle" => j \in SettleJob
         /\ j.op = "file" => j \in FileJob
  BY DEF Job, Idle, InsertJob, AcceptJob, SettleJob, FileJob

LEMMA KeyParts ==
  /\ \A k \in Keys : Student(k) \in Students /\ Session(k) \in SessionIds
  /\ \A s \in Students, i \in SessionIds : <<s, i>> \in Keys
  /\ \A t \in Token : KeyOf(t) \in Keys
  BY DEF Keys, Student, Session, Token, KeyOf

LEMMA FiledTyped ==
  ASSUME NEW t \in Token, NEW r, NEW wrongRoom \in BOOLEAN
  PROVE  Filed(t, r, wrongRoom) \in LogRow
  BY DEF Filed, LogRow, Mark

LEMMA PendingIsFiled ==
  ASSUME TypeOK, NEW k \in Keys, IsPending(k)
  PROVE  offlineLog[k] \in LogRow
  BY DEF TypeOK, IsPending, NoLog

LEMMA DecisionTyped ==
  ASSUME TypeOK, NEW k \in Keys, IsPending(k)
  PROVE  /\ AcceptDecision(k) \in Job
         /\ Settled(k, "rejected", "lecturer") \in Job
<1>1. offlineLog[k].wrong \in BOOLEAN
  BY PendingIsFiled DEF LogRow
<1> QED
  BY <1>1 DEF AcceptDecision, Settled, Job, SettleJob, AcceptJob, LogRow, Row, Methods

LEMMA InitTyped == Init => TypeOK
<1> SUFFICES ASSUME Init PROVE TypeOK
  OBVIOUS
<1>1. clock \in 1..MaxClock
  BY CheckInAssumption DEF Init, CheckInAssumption
<1> QED
  BY <1>1, SessionInitTyped DEF Init, TypeOK, Job

LEMMA StartTyped ==
  ASSUME TypeOK, NEW w \in Workers, NEW j \in Job, Start(w, j)
  PROVE  TypeOK'
  BY DEF Start, TypeOK, SessionTypeOK, tableVars, sessionVars

\* No step of any handler leaves the types.
LEMMA StepTyped ==
  ASSUME TypeOK, [Next]_vars
  PROVE  TypeOK'
<1>1. ASSUME NEW w \in Workers, Submit(w)
      PROVE  TypeOK'
  <2>1. ASSUME NEW t \in minted, NEW wrongRoom \in BOOLEAN, SubmitNfc(w, t, wrongRoom)
        PROVE  TypeOK'
    <3>1. t \in Token
      BY <2>1 DEF TypeOK
    <3>2. PICK k \in Credited(t) :
            Start(w, [op |-> "insert", key |-> k,
                      row |-> [method |-> "nfc", wrong |-> Mark(wrongRoom)]])
      BY <2>1 DEF SubmitNfc
    <3>3. [op |-> "insert", key |-> k,
           row |-> [method |-> "nfc", wrong |-> Mark(wrongRoom)]] \in Job
      BY <3>1, KeyParts DEF Credited, Job, InsertJob, Row, Methods, Mark
    <3> QED
      BY <3>2, <3>3, StartTyped
  <2>2. ASSUME NEW t \in minted, NEW wrongRoom \in BOOLEAN, NEW r \in 0..clock,
               SyncTap(w, t, r, wrongRoom)
        PROVE  TypeOK'
    <3>1. t \in Token
      BY <2>2 DEF TypeOK
    <3>2. [op |-> "file", key |-> KeyOf(t), log |-> Filed(t, r, wrongRoom)] \in Job
      BY <3>1, KeyParts, FiledTyped DEF Job, FileJob
    <3> QED
      BY <2>2, <3>2, StartTyped DEF SyncTap
  <2>3. ASSUME NEW s \in Students, NEW wrongRoom \in BOOLEAN, SubmitBle(w, s, wrongRoom)
        PROVE  TypeOK'
    <3>1. PICK i \in SessionIds :
            Start(w, [op |-> "insert", key |-> <<s, i>>,
                      row |-> [method |-> "ble", wrong |-> Mark(wrongRoom)]])
      BY <2>3 DEF SubmitBle
    <3>2. [op |-> "insert", key |-> <<s, i>>,
           row |-> [method |-> "ble", wrong |-> Mark(wrongRoom)]] \in Job
      BY KeyParts DEF Job, InsertJob, Row, Methods, Mark
    <3> QED
      BY <3>1, <3>2, StartTyped
  <2> QED
    BY <1>1, <2>1, <2>2, <2>3 DEF Submit
<1>2. ASSUME NEW w \in Workers, Review(w)
      PROVE  TypeOK'
  <2>1. ASSUME NEW k \in Keys, MarkPresent(w, k)
        PROVE  TypeOK'
    <3>1. [op |-> "insert", key |-> k,
           row |-> [method |-> "manual", wrong |-> FALSE]] \in Job
      BY DEF Job, InsertJob, Row, Methods
    <3> QED
      BY <2>1, <3>1, StartTyped DEF MarkPresent
  <2>2. ASSUME NEW k \in Keys, AcceptTap(w, k) \/ RejectTap(w, k)
        PROVE  TypeOK'
    BY <2>2, DecisionTyped, StartTyped DEF AcceptTap, RejectTap
  <2>3. ASSUME NEW k \in Keys, NextInBatch(w, k)
        PROVE  TypeOK'
    <3>1. (IF IsPending(k) THEN AcceptDecision(k) ELSE Idle) \in Job
      BY DecisionTyped DEF Job
    <3>2. job' \in [Workers -> Job] /\ batch' \in [Workers -> SUBSET Keys]
      BY <2>3, <3>1 DEF NextInBatch, TypeOK
    <3> QED
      BY <2>3, <3>2 DEF NextInBatch, TypeOK, SessionTypeOK, tableVars, sessionVars
  <2>4. ASSUME NEW i \in SessionIds, AcceptAll(w, i)
        PROVE  TypeOK'
    BY <2>4 DEF AcceptAll, TypeOK, SessionTypeOK, tableVars, sessionVars
  <2> QED
    BY <1>2, <2>1, <2>2, <2>3, <2>4 DEF Review
<1>3. ASSUME NEW w \in Workers, Finish(w)
      PROVE  TypeOK'
  <2> DEFINE k == job[w].key
  <2>1. job[w] \in Job /\ Idle \in Job
    BY DEF TypeOK, Job
  <2>2. CASE CommitInsert(w)
    <3>1. k \in Keys /\ job[w].row \in Row
      BY <2>1, <2>2, JobKinds DEF CommitInsert, InsertJob
    <3> QED
      BY <2>1, <2>2, <3>1 DEF CommitInsert, TypeOK, SessionTypeOK, sessionVars
  <2>3. CASE CommitAccept(w)
    <3>1. k \in Keys /\ job[w].row \in Row
      BY <2>1, <2>3, JobKinds DEF CommitAccept, AcceptJob
    <3>2. CASE Credit(w)
      <4>1. [offlineLog[k] EXCEPT !.status = "accepted"] \in LogRow
        <5>1. offlineLog[k] \in LogRow \cup {NoLog}
          BY <3>1 DEF TypeOK
        <5>2. \A log \in LogRow : [log EXCEPT !.status = "accepted"] \in LogRow
          BY DEF LogRow
        <5>3. [NoLog EXCEPT !.status = "accepted"] \in LogRow
          BY DEF NoLog, LogRow
        <5> QED
          BY <5>1, <5>2, <5>3
      <4>2. offlineLog' \in [Keys -> LogRow \cup {NoLog}]
        BY <3>1, <3>2, <4>1 DEF Credit, TypeOK
      <4>3. attendance' \in [Keys -> Row \cup {NoRow}]
        BY <3>1, <3>2 DEF Credit, TypeOK
      <4>4. job' \in [Workers -> Job] /\ owed' \in [Workers -> SUBSET Keys]
        BY <2>1, <3>1, <3>2 DEF Credit, TypeOK
      <4> QED
        BY <3>2, <4>2, <4>3, <4>4
        DEF Credit, TypeOK, SessionTypeOK, sessionVars
    <3>3. CASE ~Credit(w)
      <4>1. (IF IsPending(k) THEN Settled(k, "superseded", "had_attendance")
             ELSE Idle) \in Job
        BY <3>1, PendingIsFiled DEF Settled, Job, SettleJob, LogRow
      <4> QED
        BY <2>3, <3>3, <4>1
        DEF CommitAccept, TypeOK, SessionTypeOK, tableVars, sessionVars
    <3> QED
      BY <3>2, <3>3
  <2>4. CASE CommitSettle(w)
    <3>1. k \in Keys /\ job[w].log \in LogRow
      BY <2>1, <2>4, JobKinds DEF CommitSettle, SettleJob
    <3> QED
      BY <2>1, <2>4, <3>1 DEF CommitSettle, TypeOK, SessionTypeOK, sessionVars
  <2>5. CASE CommitFile(w)
    <3>1. k \in Keys /\ job[w].log \in LogRow
      BY <2>1, <2>5, JobKinds DEF CommitFile, FileJob
    <3> QED
      BY <2>1, <2>5, <3>1 DEF CommitFile, TypeOK, SessionTypeOK, sessionVars
  <2>6. ASSUME NEW m \in Keys, SendNotification(w, m)
        PROVE  TypeOK'
    BY <2>6 DEF SendNotification, TypeOK, SessionTypeOK, sessionVars
  <2>7. CASE Abort(w)
    BY <2>1, <2>7 DEF Abort, TypeOK, SessionTypeOK, sessionVars, tableVars
  <2> QED
    BY <1>3, <2>2, <2>3, <2>4, <2>5, <2>6, <2>7 DEF Finish
<1>4. CASE Enrolment
  <2>1. ASSUME NEW s \in Students, MintBeacon(s)
        PROVE  TypeOK'
    <3>1. PICK i \in SessionIds :
            minted' = minted \cup {[student |-> s, session |-> i, exp |-> Expiry]}
      BY <2>1 DEF MintBeacon
    <3>2. Expiry \in 0..(MaxClock + Ttl)
      BY CheckInAssumption DEF Expiry, TypeOK, CheckInAssumption
    <3>3. minted' \in SUBSET Token
      BY <3>1, <3>2 DEF TypeOK, Token
    <3> QED
      BY <2>1, <3>3 DEF MintBeacon, TypeOK, SessionTypeOK, sessionVars, threadVars
  <2>2. ASSUME NEW s \in Students, NEW c \in Courses,
               RegisterCourse(s, c) \/ DropCourse(s, c)
        PROVE  TypeOK'
    BY <2>2
    DEF RegisterCourse, DropCourse, TypeOK, SessionTypeOK, sessionVars, threadVars
  <2> QED
    BY <1>4, <2>1, <2>2 DEF Enrolment
<1>5. CASE SessionRequest
  <2>1. SessionTypeOK'
    BY <1>5, SessionStepTyped DEF SessionRequest, SessionNext, TypeOK
  <2> QED
    BY <1>5, <2>1 DEF SessionRequest, TypeOK, tableVars, threadVars
<1>6. CASE Tick
  <2>1. SessionTypeOK'
    BY <1>6, SessionStepTyped DEF Tick, SessionNext, TypeOK
  <2>2. clock' \in 1..MaxClock
    BY <1>6, CheckInAssumption DEF Tick, TypeOK, CheckInAssumption
  <2> QED
    BY <1>6, <2>1, <2>2 DEF Tick, TypeOK, tableVars, threadVars
<1>7. CASE UNCHANGED vars
  BY <1>7 DEF vars, TypeOK, SessionTypeOK, sessionVars, tableVars, threadVars
<1> QED
  BY <1>1, <1>2, <1>3, <1>4, <1>5, <1>6, <1>7 DEF Next

\* Every table and every request's local state keeps its type.
THEOREM TypeCorrect == Spec => []TypeOK
<1> QED
  BY InitTyped, StepTyped, PTL DEF Spec

-----------------------------------------------------------------------------
(* The inductive invariant *)

HasToken(k) == \E t \in minted : KeyOf(t) = k
IsFiled(k) == offlineLog[k] # NoLog

\* The register and the log, by themselves.
TablesAgree ==
  /\ ReviewAgreesWithRegister
  /\ ReplayNeverCredited
  /\ GenuineTap
  /\ EnforceRefusesLive

\* What a request still knows when it commits, however long ago it read:
\* only facts that no other request can take away.
InsertSafe(j) ==
  /\ j.row.method \in {"nfc", "ble", "manual"}
  /\ j.row.method = "nfc" => HasToken(j.key)
  /\ RoomCheck = "enforce" => ~j.row.wrong

ReviewSafe(j) == IsFiled(j.key) /\ offlineLog[j.key].reason # "lag"

AcceptSafe(j) == j.row.method = "offline" /\ ReviewSafe(j)

SettleSafe(j) ==
  /\ ReviewSafe(j)
  /\ j.log.status \in {"superseded", "rejected"}
  /\ j.log.reason # "lag"
  /\ j.log.wrong = offlineLog[j.key].wrong
  /\ j.log.status = "superseded" =>
       Recorded(j.key) /\ attendance[j.key].method # "offline"

FileSafe(j) ==
  /\ HasToken(j.key)
  /\ j.log.status \in {"pending_verification", "superseded", "rejected"}
  /\ j.log.reason = "lag" => j.log.status = "rejected"
  /\ j.log.status = "superseded" =>
       Recorded(j.key) /\ attendance[j.key].method # "offline"

JobSafe(j) ==
  /\ j.op = "insert" => InsertSafe(j)
  /\ j.op = "accept" => AcceptSafe(j)
  /\ j.op = "settle" => SettleSafe(j)
  /\ j.op = "file" => FileSafe(j)

JobsSafe == \A w \in Workers : JobSafe(job[w])

Inv == TypeOK /\ TablesAgree /\ JobsSafe

\* What one step does to the tables.
LogKept(k) ==
  /\ offlineLog'[k] # NoLog
  /\ offlineLog'[k].wrong = offlineLog[k].wrong
  /\ offlineLog'[k].status = "pending_verification" => IsPending(k)
  /\ offlineLog[k].reason = "lag" => offlineLog'[k] = offlineLog[k]

TablesGrow ==
  /\ minted \subseteq minted'
  /\ \A k \in Keys : Recorded(k) => attendance'[k] = attendance[k]
  /\ \A k \in Keys : IsFiled(k) => LogKept(k)
  /\ \A k \in Keys : offlineLog'[k].reason = "lag" /\ IsFiled(k)
                       => offlineLog[k].reason = "lag"

\* What one step does to the requests: each keeps its job, finishes it, or
\* takes up one that is safe now.
JobsMove ==
  \A w \in Workers : job'[w] \in {job[w], Idle} \/ JobSafe(job'[w])

TablesSame == UNCHANGED <<minted, attendance, offlineLog>>

LEMMA InitInv == Init => Inv
<1> SUFFICES ASSUME Init PROVE TablesAgree /\ JobsSafe
  BY InitTyped DEF Inv
<1> QED
  BY DEF Init, TablesAgree, ReviewAgreesWithRegister, ReplayNeverCredited,
         GenuineTap, EnforceRefusesLive, Recorded, NoRow, NoLog,
         JobsSafe, JobSafe, Idle, Keys

LEMMA SameTablesGrow == TypeOK /\ TablesSame => TablesGrow
  BY DEF TypeOK, TablesSame, TablesGrow, LogKept, IsFiled, IsPending

\* A job that was safe stays safe: nobody takes its facts away.
LEMMA SafeJobsStaySafe ==
  ASSUME TypeOK, TypeOK', TablesGrow, NEW j \in Job, JobSafe(j)
  PROVE  JobSafe(j)'
<1>1. ASSUME NEW k \in Keys, HasToken(k) PROVE HasToken(k)'
  BY <1>1 DEF HasToken, TablesGrow
<1>2. ASSUME NEW k \in Keys, Recorded(k), attendance[k].method # "offline"
      PROVE  (Recorded(k) /\ attendance[k].method # "offline")'
  BY <1>2 DEF Recorded, TablesGrow
<1>3. ASSUME NEW k \in Keys, IsFiled(k), offlineLog[k].reason # "lag"
      PROVE  (IsFiled(k) /\ offlineLog[k].reason # "lag")'
  BY <1>3 DEF IsFiled, TablesGrow, LogKept
<1>4. ASSUME NEW k \in Keys, IsFiled(k)
      PROVE  offlineLog'[k].wrong = offlineLog[k].wrong
  BY <1>4 DEF TablesGrow, LogKept
<1>5. CASE j.op = "insert"
  BY <1>5, <1>1, JobKinds DEF JobSafe, InsertSafe, InsertJob
<1>6. CASE j.op = "accept"
  BY <1>6, <1>3, JobKinds DEF JobSafe, AcceptSafe, ReviewSafe, AcceptJob
<1>7. CASE j.op = "settle"
  BY <1>7, <1>2, <1>3, <1>4, JobKinds DEF JobSafe, SettleSafe, ReviewSafe, SettleJob
<1>8. CASE j.op = "file"
  BY <1>8, <1>1, <1>2, JobKinds DEF JobSafe, FileSafe, FileJob
<1>9. CASE j.op \notin {"insert", "accept", "settle", "file"}
  BY <1>9 DEF JobSafe
<1> QED
  BY <1>5, <1>6, <1>7, <1>8, <1>9

LEMMA JobsStaySafe ==
  ASSUME Inv, TypeOK', TablesGrow, JobsMove
  PROVE  JobsSafe'
<1>1. ASSUME NEW w \in Workers PROVE job'[w] \in Job
  BY DEF TypeOK
<1>2. SUFFICES ASSUME NEW w \in Workers, NEW j \in Job, j = job'[w]
               PROVE  JobSafe(j)'
  BY <1>1
  DEF JobsSafe, JobSafe, InsertSafe, AcceptSafe, SettleSafe, FileSafe,
      ReviewSafe, IsFiled, HasToken, Recorded
<1>3. JobSafe(j)
  BY <1>2 DEF JobsMove, Inv, JobsSafe, JobSafe, Idle
<1> QED
  BY <1>3, SafeJobsStaySafe DEF Inv

LEMMA OneJobMoves ==
  ASSUME TypeOK, NEW w \in Workers, NEW j, j = Idle \/ JobSafe(j),
         job' = [job EXCEPT ![w] = j]
  PROVE  JobsMove
<1> SUFFICES ASSUME NEW v \in Workers
             PROVE  job'[v] \in {job[v], Idle} \/ JobSafe(job'[v])
  BY DEF JobsMove
<1>1. job'[v] = IF v = w THEN j ELSE job[v]
  BY DEF TypeOK
<1> QED
  BY <1>1

LEMMA NoJobMoves == UNCHANGED job => JobsMove
  BY DEF JobsMove

LEMMA SameTablesAgree == TablesAgree /\ TablesSame => TablesAgree'
  BY DEF TablesAgree, TablesSame, ReviewAgreesWithRegister, ReplayNeverCredited,
         GenuineTap, EnforceRefusesLive, Recorded, Keys, SessionIds

\* What the register says of a tap that is still pending.
LEMMA PendingIsClean ==
  ASSUME Inv, NEW k \in Keys, IsPending(k)
  PROVE  /\ IsFiled(k)
         /\ offlineLog[k].reason # "lag"
         /\ attendance[k].method # "offline"
  BY DEF Inv, TablesAgree, ReviewAgreesWithRegister, ReplayNeverCredited,
         IsPending, IsFiled, NoLog

\* A review starts with what it has just read.
LEMMA DecisionSafe ==
  ASSUME Inv, NEW k \in Keys, IsPending(k)
  PROVE  /\ JobSafe(AcceptDecision(k))
         /\ JobSafe(Settled(k, "rejected", "lecturer"))
         /\ Recorded(k) => JobSafe(Settled(k, "superseded", "had_attendance"))
<1> USE PendingIsClean DEF JobSafe, SettleSafe, AcceptSafe, ReviewSafe, Settled
<1>1. JobSafe(Settled(k, "rejected", "lecturer"))
  OBVIOUS
<1>2. Recorded(k) => JobSafe(Settled(k, "superseded", "had_attendance"))
  OBVIOUS
<1>3. JobSafe(Settled(k, "rejected", "not_enrolled"))
  OBVIOUS
<1>4. JobSafe([op |-> "accept", key |-> k,
               row |-> [method |-> "offline", wrong |-> offlineLog[k].wrong]])
  OBVIOUS
<1> HIDE DEF JobSafe, Settled
<1> QED
  BY <1>1, <1>2, <1>3, <1>4 DEF AcceptDecision

\* The three handlers a student's device reaches start with a safe job.
LEMMA SubmitStep ==
  ASSUME Inv, NEW w \in Workers, Submit(w)
  PROVE  TablesSame /\ JobsMove
<1>1. ASSUME NEW j, JobSafe(j), Start(w, j)
      PROVE  TablesSame /\ JobsMove
  BY <1>1, OneJobMoves DEF Start, TablesSame, tableVars, Inv
<1>2. ASSUME NEW t \in minted, NEW wrongRoom \in BOOLEAN, SubmitNfc(w, t, wrongRoom)
      PROVE  TablesSame /\ JobsMove
  <2>1. PICK k \in Credited(t) :
          /\ ~RefusedForRoom(wrongRoom)
          /\ Start(w, [op |-> "insert", key |-> k,
                       row |-> [method |-> "nfc", wrong |-> Mark(wrongRoom)]])
    BY <1>2 DEF SubmitNfc
  <2>2. HasToken(k)
    BY DEF Credited, HasToken
  <2>3. JobSafe([op |-> "insert", key |-> k,
                 row |-> [method |-> "nfc", wrong |-> Mark(wrongRoom)]])
    BY <2>1, <2>2 DEF JobSafe, InsertSafe, Mark, RefusedForRoom
  <2> QED
    BY <2>1, <2>3, <1>1
<1>3. ASSUME NEW t \in minted, NEW wrongRoom \in BOOLEAN, NEW r \in 0..clock,
             SyncTap(w, t, r, wrongRoom)
      PROVE  TablesSame /\ JobsMove
  <2> DEFINE k == KeyOf(t)
             log == Filed(t, r, wrongRoom)
  <2>1. k \in Keys
    BY KeyParts DEF Inv, TypeOK
  <2>2. offlineLog[k] = NoLog
    BY <1>3 DEF SyncTap
  <2>3. attendance[k].method # "offline"
    BY <2>1, <2>2 DEF Inv, TablesAgree, ReviewAgreesWithRegister, NoLog
  <2>4. /\ log.status \in {"pending_verification", "superseded", "rejected"}
        /\ log.reason = "lag" => log.status = "rejected"
        /\ log.status = "superseded" => Recorded(k)
    BY DEF Filed
  <2>5. HasToken(k)
    BY DEF HasToken
  <2> HIDE DEF k, log
  <2>6. JobSafe([op |-> "file", key |-> k, log |-> log])
    BY <2>3, <2>4, <2>5 DEF JobSafe, FileSafe
  <2>7. Start(w, [op |-> "file", key |-> k, log |-> log])
    BY <1>3 DEF SyncTap, k, log
  <2> QED
    BY <2>6, <2>7, <1>1
<1>4. ASSUME NEW s \in Students, NEW wrongRoom \in BOOLEAN, SubmitBle(w, s, wrongRoom)
      PROVE  TablesSame /\ JobsMove
  <2>1. PICK i \in SessionIds :
          /\ ~RefusedForRoom(wrongRoom)
          /\ Start(w, [op |-> "insert", key |-> <<s, i>>,
                       row |-> [method |-> "ble", wrong |-> Mark(wrongRoom)]])
    BY <1>4 DEF SubmitBle
  <2>2. JobSafe([op |-> "insert", key |-> <<s, i>>,
                 row |-> [method |-> "ble", wrong |-> Mark(wrongRoom)]])
    BY <2>1 DEF JobSafe, InsertSafe, Mark, RefusedForRoom
  <2> QED
    BY <2>1, <2>2, <1>1
<1> QED
  BY <1>2, <1>3, <1>4 DEF Submit, Inv

LEMMA ReviewStep ==
  ASSUME Inv, NEW w \in Workers, Review(w)
  PROVE  TablesSame /\ JobsMove
<1>1. ASSUME NEW j, JobSafe(j), Start(w, j)
      PROVE  TablesSame /\ JobsMove
  BY <1>1, OneJobMoves DEF Start, TablesSame, tableVars, Inv
<1>2. ASSUME NEW k \in Keys, MarkPresent(w, k)
      PROVE  TablesSame /\ JobsMove
  <2>1. JobSafe([op |-> "insert", key |-> k,
                 row |-> [method |-> "manual", wrong |-> FALSE]])
    BY DEF JobSafe, InsertSafe
  <2> QED
    BY <1>1, <1>2, <2>1 DEF MarkPresent
<1>3. ASSUME NEW k \in Keys, AcceptTap(w, k) \/ RejectTap(w, k)
      PROVE  TablesSame /\ JobsMove
  BY <1>1, <1>3, DecisionSafe DEF AcceptTap, RejectTap
<1>4. ASSUME NEW k \in Keys, NextInBatch(w, k)
      PROVE  TablesSame /\ JobsMove
  <2> DEFINE j == IF IsPending(k) THEN AcceptDecision(k) ELSE Idle
  <2>1. j = Idle \/ JobSafe(j)
    BY DecisionSafe
  <2>2. job' = [job EXCEPT ![w] = j]
    BY <1>4 DEF NextInBatch
  <2> HIDE DEF j
  <2>3. JobsMove
    BY <2>1, <2>2, OneJobMoves DEF Inv
  <2> QED
    BY <1>4, <2>3 DEF NextInBatch, TablesSame, tableVars
<1>5. ASSUME NEW i \in SessionIds, AcceptAll(w, i)
      PROVE  TablesSame /\ JobsMove
  BY <1>5, NoJobMoves DEF AcceptAll, TablesSame, tableVars
<1> QED
  BY <1>2, <1>3, <1>4, <1>5 DEF Review

\* A commit that adds a row for a key that had none, and leaves the log.
LEMMA InsertStep ==
  ASSUME Inv, NEW w \in Workers, CommitInsert(w)
  PROVE  TablesGrow /\ JobsMove /\ TablesAgree'
<1> DEFINE k == job[w].key
<1>1. JobsMove
  BY OneJobMoves DEF CommitInsert, Inv
<1>2. CASE UNCHANGED attendance
  BY <1>1, <1>2, SameTablesGrow, SameTablesAgree DEF CommitInsert, TablesSame, Inv
<1>3. CASE /\ ~Recorded(k)
           /\ attendance' = [attendance EXCEPT ![k] = job[w].row]
  <2>1. k \in Keys /\ InsertSafe(job[w])
    BY JobKinds DEF CommitInsert, Inv, TypeOK, InsertJob, JobsSafe, JobSafe
  <2>2. /\ attendance'[k] = job[w].row
        /\ \A m \in Keys : m # k => attendance'[m] = attendance[m]
        /\ UNCHANGED <<minted, offlineLog>>
    BY <1>3, <2>1 DEF CommitInsert, Inv, TypeOK
  <2>3. TablesGrow
    BY <1>3, <2>2 DEF TablesGrow, LogKept, IsFiled, IsPending, Recorded
  <2>4. attendance[k].method = "none"
    BY <1>3 DEF Recorded, NoRow
  <2>5. /\ offlineLog[k].status \notin {"accepted", "superseded"}
        /\ offlineLog[k].reason = "lag" => offlineLog[k].status = "rejected"
    BY <1>3, <2>1, <2>4
    DEF Inv, TablesAgree, ReviewAgreesWithRegister, ReplayNeverCredited
  <2>6. ReviewAgreesWithRegister'
    BY <2>1, <2>2, <2>5
    DEF Inv, TablesAgree, ReviewAgreesWithRegister, InsertSafe, Recorded, Keys, SessionIds
  <2>7. ReplayNeverCredited'
    BY <2>1, <2>2, <2>5
    DEF Inv, TablesAgree, ReplayNeverCredited, InsertSafe, Keys, SessionIds
  <2>8. GenuineTap'
    BY <2>1, <2>2
    DEF Inv, TablesAgree, GenuineTap, InsertSafe, HasToken, Keys, SessionIds
  <2>9. EnforceRefusesLive'
    BY <2>1, <2>2
    DEF Inv, TablesAgree, EnforceRefusesLive, InsertSafe, Keys, SessionIds
  <2> QED
    BY <1>1, <2>3, <2>6, <2>7, <2>8, <2>9 DEF TablesAgree
<1> QED
  BY <1>2, <1>3 DEF CommitInsert

\* An acceptance: the row and the tap change together, or neither does.
LEMMA AcceptStep ==
  ASSUME Inv, NEW w \in Workers, CommitAccept(w)
  PROVE  TablesGrow /\ JobsMove /\ TablesAgree'
<1> DEFINE k == job[w].key
<1>1. k \in Keys /\ AcceptSafe(job[w])
  BY JobKinds DEF CommitAccept, Inv, TypeOK, AcceptJob, JobsSafe, JobSafe
<1>2. CASE Credit(w)
  <2>1. JobsMove
    BY <1>2, OneJobMoves DEF Credit, Inv
  <2>2. offlineLog[k] \in LogRow
    BY <1>1 DEF Inv, TypeOK, AcceptSafe, ReviewSafe, IsFiled
  <2>3. offlineLog'[k] = [offlineLog[k] EXCEPT !.status = "accepted"]
    BY <1>1, <1>2 DEF Credit, Inv, TypeOK
  <2>4. /\ offlineLog'[k].status = "accepted"
        /\ offlineLog'[k].reason = offlineLog[k].reason
        /\ offlineLog'[k].wrong = offlineLog[k].wrong
    BY <2>2, <2>3 DEF LogRow
  <2>5. /\ attendance'[k] = job[w].row
        /\ \A m \in Keys : m # k =>
             attendance'[m] = attendance[m] /\ offlineLog'[m] = offlineLog[m]
        /\ UNCHANGED minted
    BY <1>1, <1>2 DEF Credit, Inv, TypeOK
  <2>6. offlineLog[k] # NoLog /\ offlineLog[k].reason # "lag" /\ ~Recorded(k)
    BY <1>1, <1>2 DEF AcceptSafe, ReviewSafe, IsFiled, Credit
  <2>7. offlineLog'[k] # NoLog
    BY <2>4 DEF NoLog
  <2>8. TablesGrow
    BY <2>4, <2>5, <2>6, <2>7 DEF TablesGrow, LogKept, IsFiled, IsPending, Recorded
  <2>9. ReviewAgreesWithRegister'
    BY <1>1, <2>4, <2>5
    DEF Inv, TablesAgree, ReviewAgreesWithRegister, AcceptSafe, Recorded, Keys, SessionIds
  <2>10. ReplayNeverCredited'
    BY <2>4, <2>5, <2>6
    DEF Inv, TablesAgree, ReplayNeverCredited, Keys, SessionIds
  <2>11. GenuineTap'
    BY <2>5, <2>6 DEF Inv, TablesAgree, GenuineTap, Keys, SessionIds
  <2>12. EnforceRefusesLive'
    BY <1>1, <2>5
    DEF Inv, TablesAgree, EnforceRefusesLive, AcceptSafe, Keys, SessionIds
  <2> QED
    BY <2>1, <2>8, <2>9, <2>10, <2>11, <2>12 DEF TablesAgree
<1>3. CASE ~Credit(w)
  <2> DEFINE j == IF IsPending(k) THEN Settled(k, "superseded", "had_attendance")
                  ELSE Idle
  <2>1. Recorded(k) /\ job' = [job EXCEPT ![w] = j] /\ UNCHANGED tableVars
    BY <1>3 DEF CommitAccept
  <2>2. j = Idle \/ JobSafe(j)
    BY <1>1, <2>1, DecisionSafe
  <2>3. JobsMove
    BY <2>1, <2>2, OneJobMoves DEF Inv
  <2> QED
    BY <2>1, <2>3, SameTablesGrow, SameTablesAgree DEF tableVars, TablesSame, Inv
<1> QED
  BY <1>2, <1>3

\* A review that settles a tap without crediting it.
LEMMA SettleStep ==
  ASSUME Inv, NEW w \in Workers, CommitSettle(w)
  PROVE  TablesGrow /\ JobsMove /\ TablesAgree'
<1> DEFINE k == job[w].key
<1>1. k \in Keys /\ job[w].log \in LogRow /\ SettleSafe(job[w])
  BY JobKinds DEF CommitSettle, Inv, TypeOK, SettleJob, JobsSafe, JobSafe
<1>2. JobsMove
  BY OneJobMoves DEF CommitSettle, Inv
<1>3. /\ offlineLog'[k] = job[w].log
      /\ \A m \in Keys : m # k => offlineLog'[m] = offlineLog[m]
      /\ UNCHANGED <<minted, attendance>>
  BY <1>1 DEF CommitSettle, Inv, TypeOK
<1>4. offlineLog[k] # NoLog /\ offlineLog[k].reason # "lag"
  BY <1>1 DEF SettleSafe, ReviewSafe, IsFiled
<1>5. offlineLog'[k] # NoLog
  BY <1>1, <1>3 DEF SettleSafe, NoLog
<1>6. TablesGrow
  BY <1>1, <1>3, <1>4, <1>5
  DEF TablesGrow, LogKept, IsFiled, IsPending, Recorded, SettleSafe
<1>7. attendance[k].method = "offline" => job[w].log.status = "rejected"
  BY <1>1 DEF SettleSafe
<1>8. ReviewAgreesWithRegister'
  BY <1>1, <1>3, <1>7
  DEF Inv, TablesAgree, ReviewAgreesWithRegister, SettleSafe, Recorded, Keys, SessionIds
<1>9. ReplayNeverCredited'
  BY <1>1, <1>3
  DEF Inv, TablesAgree, ReplayNeverCredited, SettleSafe, Keys, SessionIds
<1>10. GenuineTap'
  BY <1>3, <1>4 DEF Inv, TablesAgree, GenuineTap, Keys, SessionIds
<1>11. EnforceRefusesLive'
  BY <1>3 DEF Inv, TablesAgree, EnforceRefusesLive, Keys, SessionIds
<1> QED
  BY <1>2, <1>6, <1>8, <1>9, <1>10, <1>11 DEF TablesAgree

\* An upload that files a tap nobody filed before.
LEMMA FileStep ==
  ASSUME Inv, NEW w \in Workers, CommitFile(w)
  PROVE  TablesGrow /\ JobsMove /\ TablesAgree'
<1> DEFINE k == job[w].key
<1>1. k \in Keys /\ job[w].log \in LogRow /\ FileSafe(job[w])
  BY JobKinds DEF CommitFile, Inv, TypeOK, FileJob, JobsSafe, JobSafe
<1>2. JobsMove
  BY OneJobMoves DEF CommitFile, Inv
<1>3. CASE UNCHANGED offlineLog
  BY <1>2, <1>3, SameTablesGrow, SameTablesAgree DEF CommitFile, TablesSame, Inv
<1>4. CASE /\ offlineLog[k] = NoLog
           /\ offlineLog' = [offlineLog EXCEPT ![k] = job[w].log]
  <2>1. /\ offlineLog'[k] = job[w].log
        /\ \A m \in Keys : m # k => offlineLog'[m] = offlineLog[m]
        /\ UNCHANGED <<minted, attendance>>
    BY <1>1, <1>4 DEF CommitFile, Inv, TypeOK
  <2>2. TablesGrow
    BY <1>4, <2>1 DEF TablesGrow, LogKept, IsFiled, IsPending, Recorded
  <2>3. attendance[k].method # "offline"
    BY <1>1, <1>4 DEF Inv, TablesAgree, ReviewAgreesWithRegister, NoLog
  <2>4. ReviewAgreesWithRegister'
    BY <1>1, <2>1, <2>3
    DEF Inv, TablesAgree, ReviewAgreesWithRegister, FileSafe, Recorded, Keys, SessionIds
  <2>5. ReplayNeverCredited'
    BY <1>1, <2>1, <2>3
    DEF Inv, TablesAgree, ReplayNeverCredited, FileSafe, Keys, SessionIds
  <2>6. GenuineTap'
    BY <1>1, <2>1
    DEF Inv, TablesAgree, GenuineTap, FileSafe, HasToken, Keys, SessionIds
  <2>7. EnforceRefusesLive'
    BY <2>1 DEF Inv, TablesAgree, EnforceRefusesLive, Keys, SessionIds
  <2> QED
    BY <1>2, <2>2, <2>4, <2>5, <2>6, <2>7 DEF TablesAgree
<1> QED
  BY <1>3, <1>4 DEF CommitFile

\* Every step: the tables only grow, the jobs stay safe, the tables agree.
LEMMA StepFacts ==
  ASSUME Inv, [Next]_vars
  PROVE  TablesGrow /\ JobsMove /\ TablesAgree'
<1>1. TablesSame /\ JobsMove => TablesGrow /\ JobsMove /\ TablesAgree'
  BY SameTablesGrow, SameTablesAgree DEF Inv
<1>2. ASSUME NEW w \in Workers, Submit(w) \/ Review(w)
      PROVE  TablesSame /\ JobsMove
  BY <1>2, SubmitStep, ReviewStep
<1>3. ASSUME NEW w \in Workers, Finish(w)
      PROVE  TablesGrow /\ JobsMove /\ TablesAgree'
  <2>1. ASSUME NEW k \in Keys, SendNotification(w, k)
        PROVE  TablesSame /\ JobsMove
    BY <2>1, NoJobMoves DEF SendNotification, TablesSame
  <2>2. CASE Abort(w)
    <3>1. JobsMove
      BY <2>2, OneJobMoves DEF Abort, Inv
    <3>2. TablesSame
      BY <2>2 DEF Abort, TablesSame, tableVars
    <3> QED
      BY <1>1, <3>1, <3>2
  <2> QED
    BY <1>1, <1>3, <2>1, <2>2, InsertStep, AcceptStep, SettleStep, FileStep DEF Finish
<1>4. CASE Enrolment
  <2>1. ASSUME NEW s \in Students, MintBeacon(s)
        PROVE  TablesGrow /\ JobsMove /\ TablesAgree'
    <3>1. minted \subseteq minted' /\ UNCHANGED <<attendance, offlineLog, job>>
      BY <2>1 DEF MintBeacon, threadVars
    <3>2. TablesGrow
      BY <3>1 DEF TablesGrow, LogKept, IsFiled, IsPending
    <3>3. TablesAgree'
      BY <3>1 DEF Inv, TablesAgree, ReviewAgreesWithRegister, ReplayNeverCredited,
                  GenuineTap, EnforceRefusesLive, Recorded, Keys, SessionIds
    <3> QED
      BY <3>1, <3>2, <3>3, NoJobMoves
  <2>2. ASSUME NEW s \in Students, NEW c \in Courses,
               RegisterCourse(s, c) \/ DropCourse(s, c)
        PROVE  TablesSame /\ JobsMove
    BY <2>2, NoJobMoves DEF RegisterCourse, DropCourse, TablesSame, threadVars
  <2> QED
    BY <1>1, <1>4, <2>1, <2>2 DEF Enrolment
<1>5. CASE SessionRequest \/ Tick \/ UNCHANGED vars
  BY <1>1, <1>5, NoJobMoves
  DEF SessionRequest, Tick, vars, TablesSame, tableVars, threadVars
<1> QED
  BY <1>1, <1>2, <1>3, <1>4, <1>5 DEF Next

LEMMA StepInv ==
  ASSUME Inv, [Next]_vars
  PROVE  Inv'
<1>1. TypeOK'
  BY StepTyped DEF Inv
<1> QED
  BY <1>1, StepFacts, JobsStaySafe DEF Inv

\* The invariant the theorems below follow from.
THEOREM InvCorrect == Spec => []Inv
<1> QED
  BY InitInv, StepInv, PTL DEF Spec

\* The review log and the register agree, in every interleaving.
THEOREM ReviewAgreement == Spec => []ReviewAgreesWithRegister
<1>1. Inv => ReviewAgreesWithRegister
  BY DEF Inv, TablesAgree
<1> QED
  BY <1>1, InvCorrect, PTL

\* A tap read too late is never credited.
THEOREM ReplaysNeverCredited == Spec => []ReplayNeverCredited
<1>1. Inv => ReplayNeverCredited
  BY DEF Inv, TablesAgree
<1> QED
  BY <1>1, InvCorrect, PTL

\* Every recorded or filed tap has a token minted for its student and session.
THEOREM TapsAreGenuine == Spec => []GenuineTap
<1>1. Inv => GenuineTap
  BY DEF Inv, TablesAgree
<1> QED
  BY <1>1, InvCorrect, PTL

\* No live check-in from another room is recorded under enforce.
THEOREM EnforceHolds == Spec => []EnforceRefusesLive
<1>1. Inv => EnforceRefusesLive
  BY DEF Inv, TablesAgree
<1> QED
  BY <1>1, InvCorrect, PTL

\* The three together: nothing is credited that was not earned.
THEOREM CreditsAreEarned == Spec => []CreditIsEarned
<1>1. ReplayNeverCredited /\ GenuineTap /\ EnforceRefusesLive => CreditIsEarned
  BY DEF CreditIsEarned
<1> QED
  BY <1>1, ReplaysNeverCredited, TapsAreGenuine, EnforceHolds, PTL

\* A filed tap is settled once and for all.
THEOREM SettledIsSettled == Spec => SettledStaysSettled
<1> DEFINE AllKept == \A k \in Keys : offlineLog[k] # NoLog =>
       /\ offlineLog'[k] # NoLog
       /\ offlineLog'[k].wrong = offlineLog[k].wrong
       /\ offlineLog'[k].status = "pending_verification" => IsPending(k)
       /\ offlineLog[k].reason = "lag" => offlineLog'[k] = offlineLog[k]
<1>1. Inv /\ [Next]_vars => [AllKept]_vars
  BY StepFacts DEF TablesGrow, LogKept, IsFiled
<1> QED
  BY <1>1, InvCorrect, PTL DEF Spec, SettledStaysSettled

-----------------------------------------------------------------------------
(* Refinement *)

\* A notification is owed by one thread at most, for a row that is recorded
\* and that nobody has been told of.
OwedOnce ==
  /\ \A w \in Workers : \A k \in owed[w] : Recorded(k) /\ notified[k] = 0
  /\ \A v, w \in Workers : v # w => owed[v] \cap owed[w] = {}
  /\ \A k \in Keys : ~Recorded(k) => notified[k] = 0

\* The register's own step, in terms of the tables.
Recording(k, row) ==
  /\ ~Recorded(k)
  /\ attendance' = [attendance EXCEPT ![k] = row]
  /\ UNCHANGED notified

Telling(k) ==
  /\ Recorded(k)
  /\ notified[k] = 0
  /\ notified' = [notified EXCEPT ![k] = 1]
  /\ UNCHANGED attendance

RegisterStep ==
  \/ \E k \in Keys : Telling(k) \/ \E row \in Row : Recording(k, row)
  \/ UNCHANGED <<attendance, notified>>

LEMMA InitOwedOnce == Init => OwedOnce
  BY DEF Init, OwedOnce, Recorded

\* Recording a row and taking on its notification.
LEMMA RecordOwed ==
  ASSUME TypeOK, OwedOnce, NEW w \in Workers, NEW k \in Keys, NEW row \in Row,
         Recording(k, row), owed' = [owed EXCEPT ![w] = @ \cup {k}]
  PROVE  OwedOnce'
<1>1. /\ attendance'[k] = row
      /\ \A m \in Keys : m # k => attendance'[m] = attendance[m]
      /\ \A v \in Workers : owed'[v] = IF v = w THEN owed[v] \cup {k} ELSE owed[v]
      /\ notified' = notified
  BY DEF Recording, TypeOK
<1>2. row # NoRow
  BY DEF Row, Methods, NoRow
<1>3. /\ \A v \in Workers : k \notin owed[v]
      /\ notified[k] = 0
  BY DEF OwedOnce, Recording
<1>4. \A v \in Workers : owed[v] \subseteq Keys
  BY DEF TypeOK
<1>5. \A v \in Workers : \A m \in owed'[v] :
        m \in Keys /\ attendance'[m] # NoRow /\ notified'[m] = 0
  BY <1>1, <1>2, <1>3, <1>4 DEF OwedOnce, Recorded
<1>6. \A u, v \in Workers : u # v => owed'[u] \cap owed'[v] = {}
  BY <1>1, <1>3 DEF OwedOnce
<1>7. \A m \in Keys : attendance'[m] = NoRow => notified'[m] = 0
  BY <1>1, <1>3 DEF OwedOnce, Recorded
<1> QED
  BY <1>5, <1>6, <1>7 DEF OwedOnce, Recorded, Keys, SessionIds

\* Owing less, with the register as it was.
LEMMA ForgetOwed ==
  ASSUME TypeOK, OwedOnce, UNCHANGED <<attendance, notified>>,
         \A w \in Workers : owed'[w] \subseteq owed[w]
  PROVE  OwedOnce'
<1>1. \A w \in Workers : \A k \in owed'[w] : attendance'[k] # NoRow /\ notified'[k] = 0
  BY DEF OwedOnce, Recorded
<1>2. \A v, w \in Workers : v # w => owed'[v] \cap owed'[w] = {}
  BY DEF OwedOnce
<1>3. \A k \in Keys : attendance'[k] = NoRow => notified'[k] = 0
  BY DEF OwedOnce, Recorded
<1> QED
  BY <1>1, <1>2, <1>3 DEF OwedOnce, Recorded, Keys, SessionIds

\* Telling the student, once.
LEMMA TellOwed ==
  ASSUME TypeOK, OwedOnce, NEW w \in Workers, NEW k \in Keys, SendNotification(w, k)
  PROVE  OwedOnce' /\ Telling(k)
<1>1. Recorded(k) /\ notified[k] = 0
  BY DEF OwedOnce, SendNotification
<1>2. Telling(k)
  BY <1>1 DEF SendNotification, Telling
<1>3. /\ attendance' = attendance
      /\ \A m \in Keys : m # k => notified'[m] = notified[m]
      /\ \A v \in Workers : owed'[v] = IF v = w THEN owed[v] \ {k} ELSE owed[v]
  BY DEF SendNotification, TypeOK
<1>4. \A v \in Workers : k \notin owed'[v] /\ owed'[v] \subseteq Keys
  BY <1>3 DEF OwedOnce, SendNotification, TypeOK
<1>5. \A v \in Workers : \A m \in owed'[v] : attendance'[m] # NoRow /\ notified'[m] = 0
  BY <1>3, <1>4 DEF OwedOnce, Recorded
<1>6. \A u, v \in Workers : u # v => owed'[u] \cap owed'[v] = {}
  BY <1>3 DEF OwedOnce
<1>7. \A m \in Keys : attendance'[m] = NoRow => notified'[m] = 0
  BY <1>1, <1>3 DEF OwedOnce, Recorded
<1> QED
  BY <1>2, <1>5, <1>6, <1>7 DEF OwedOnce, Recorded, Keys, SessionIds

\* Every step of the handlers is a step of the register or a stutter.
LEMMA StepRefines ==
  ASSUME Inv, OwedOnce, [Next]_vars
  PROVE  OwedOnce' /\ RegisterStep
<1>1. ASSUME UNCHANGED <<attendance, notified>>,
             \A w \in Workers : owed'[w] \subseteq owed[w]
      PROVE  OwedOnce' /\ RegisterStep
  BY <1>1, ForgetOwed DEF Inv, RegisterStep
<1>2. ASSUME NEW w \in Workers, Submit(w)
      PROVE  UNCHANGED <<attendance, notified, owed>>
  BY <1>2 DEF Submit, SubmitNfc, SyncTap, SubmitBle, Start, tableVars
<1>3. ASSUME NEW w \in Workers, Review(w)
      PROVE  UNCHANGED <<attendance, notified, owed>>
  BY <1>3 DEF Review, MarkPresent, AcceptTap, RejectTap, NextInBatch, AcceptAll,
              Start, tableVars
<1>4. ASSUME NEW w \in Workers, Finish(w)
      PROVE  OwedOnce' /\ RegisterStep
  <2> DEFINE k == job[w].key
  <2>1. CASE CommitInsert(w)
    <3>1. k \in Keys /\ job[w].row \in Row
      BY <2>1, JobKinds DEF CommitInsert, Inv, TypeOK, InsertJob
    <3>2. CASE UNCHANGED <<attendance, owed>>
      BY <1>1, <2>1, <3>2 DEF CommitInsert
    <3>3. CASE Recording(k, job[w].row) /\ owed' = [owed EXCEPT ![w] = @ \cup {k}]
      BY <3>1, <3>3, RecordOwed DEF Inv, RegisterStep
    <3> QED
      BY <2>1, <3>2, <3>3 DEF CommitInsert, Recording
  <2>2. CASE CommitAccept(w)
    <3>1. k \in Keys /\ job[w].row \in Row
      BY <2>2, JobKinds DEF CommitAccept, Inv, TypeOK, AcceptJob
    <3>2. CASE Credit(w)
      BY <3>1, <3>2, RecordOwed DEF Credit, Recording, Inv, RegisterStep
    <3>3. CASE ~Credit(w)
      BY <1>1, <2>2, <3>3 DEF CommitAccept, tableVars
    <3> QED
      BY <3>2, <3>3
  <2>3. CASE CommitSettle(w) \/ CommitFile(w)
    BY <1>1, <2>3 DEF CommitSettle, CommitFile
  <2>4. ASSUME NEW m \in Keys, SendNotification(w, m)
        PROVE  OwedOnce' /\ RegisterStep
    BY <2>4, TellOwed DEF Inv, RegisterStep
  <2>5. CASE Abort(w)
    <3>1. \A v \in Workers : owed'[v] \subseteq owed[v]
      BY <2>5 DEF Abort, Inv, TypeOK
    <3> QED
      BY <1>1, <2>5, <3>1 DEF Abort, tableVars
  <2> QED
    BY <1>4, <2>1, <2>2, <2>3, <2>4, <2>5 DEF Finish
<1>5. CASE Enrolment
  BY <1>1, <1>5 DEF Enrolment, MintBeacon, RegisterCourse, DropCourse, threadVars
<1>6. CASE SessionRequest \/ Tick \/ UNCHANGED vars
  BY <1>1, <1>6 DEF SessionRequest, Tick, vars, tableVars, threadVars
<1> QED
  BY <1>1, <1>2, <1>3, <1>4, <1>5, <1>6 DEF Next

LEMMA InitRefines == Init => Register!Init
  BY DEF Init, Register!Init

LEMMA RegisterStepRefines == RegisterStep => [Register!Next]_<<attendance, notified>>
  BY DEF RegisterStep, Telling, Recording, Recorded,
         Register!Next, Register!Record, Register!Notify

\* The handlers together implement the abstract register: a row is recorded
\* at most once and never changes, and its student is told at most once.
THEOREM Refinement == Spec => RefinesRegister
<1>1. Inv /\ OwedOnce /\ [Next]_vars => OwedOnce' /\ RegisterStep
  BY StepRefines
<1>2. Inv /\ OwedOnce /\ [Next]_vars => OwedOnce' /\ [Register!Next]_<<attendance, notified>>
  BY <1>1, RegisterStepRefines
<1>3. [Register!Next]_<<attendance, notified>> => [Register!Next]_Register!vars
  BY DEF Register!vars
<1> QED
  BY <1>2, <1>3, InitOwedOnce, InitRefines, InvCorrect, PTL
  DEF Spec, RefinesRegister, Register!Spec
=============================================================================
