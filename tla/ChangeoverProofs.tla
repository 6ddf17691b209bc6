--------------------------- MODULE ChangeoverProofs ---------------------------
(* Proofs about Changeover: for any number of students, programmes,          *)
(* semesters, promotions and admins at work at once.                         *)
EXTENDS Changeover, FunctionTheorems, FiniteSetTheorems, TLAPS

-----------------------------------------------------------------------------
(* Rows, runs and jobs *)

LEMMA NoRowIsARow ==
  /\ Unborn \notin Row /\ Gone \notin Row
  /\ NoSemester \notin SemesterRow
  /\ NoRun \notin Run
<1>1. Unborn \notin Row /\ Gone \notin Row
  BY DEF Unborn, Gone, Row
<1>2. NoSemester \notin SemesterRow
  BY DEF NoSemester, SemesterRow
<1>3. ASSUME NoRun \in Run PROVE FALSE
  <2>1. NoRun.id \in 1..MaxRun
    BY <1>3 DEF Run
  <2>2. NoRun.id = 0
    BY DEF NoRun
  <2>3. 0 \notin 1..MaxRun
    OBVIOUS
  <2> QED
    BY <2>1, <2>2, <2>3
<1> QED
  BY <1>1, <1>2, <1>3

\* A change of rows a handler is about to write: it gives a student another
\* status together with the login that goes with it, or leaves both.
WriteSound(j) ==
  /\ j.op = "write"
  /\ \E S \in SUBSET Students : j.seen \in [S -> Row] /\ j.want \in [S -> Row]
  /\ \A s \in DOMAIN j.want :
       IF j.want[s].status = j.seen[s].status
         THEN j.want[s].login = j.seen[s].login
         ELSE j.want[s].login = (j.want[s].status = "active")

JobOK(j) ==
  \/ j = Idle
  \/ j.op # "write" /\ j \in Job
  \/ WriteSound(j)

\* A delete was checked against a semester that was not active.
DeleteChecked(j) == j.op = "delete" => ~j.saw.active

Typed ==
  /\ TypeOK
  /\ request = [r \in Requests |-> request[r]]
  /\ \A r \in Requests : JobOK(request[r]) /\ DeleteChecked(request[r])

LEMMA JobOfOp ==
  ASSUME NEW j, JobOK(j)
  PROVE  /\ j.op = "write" => WriteSound(j)
         /\ j.op = "promote" => j \in Job /\ j.year \in AcademicYears /\ j.moves \in Moves
         /\ j.op = "undo" => j \in Job /\ j.year \in AcademicYears /\ j.run \in Run
         /\ j.op = "delete" => j \in Job /\ j.sem \in Semesters /\ j.saw \in SemesterRow
<1>1. j.op \in {"promote", "undo", "delete"} => j \in Job
  BY DEF JobOK, Idle, WriteSound
<1>2. j.op = "write" => WriteSound(j)
  BY DEF JobOK, Idle
<1>3. /\ j \in Job /\ j.op = "promote" => j.year \in AcademicYears /\ j.moves \in Moves
      /\ j \in Job /\ j.op = "undo" => j.year \in AcademicYears /\ j.run \in Run
      /\ j \in Job /\ j.op = "delete" => j.sem \in Semesters /\ j.saw \in SemesterRow
  BY DEF Job
<1> QED
  BY <1>1, <1>2, <1>3

LEMMA JobTyped ==
  ASSUME NEW j, JobOK(j)
  PROVE  \/ j = Idle
         \/ j.op # "write" /\ j \in Job
         \/ /\ j.op = "write"
            /\ \E S \in SUBSET Students : j.seen \in [S -> Row] /\ j.want \in [S -> Row]
  BY DEF JobOK, WriteSound

LEMMA JobOvertaken ==
  ASSUME NEW j, JobOK(j), j.op \in {"promote", "undo"}
  PROVE  JobOK([j EXCEPT !.alone = FALSE]) /\ DeleteChecked([j EXCEPT !.alone = FALSE])
<1> DEFINE k == [j EXCEPT !.alone = FALSE]
<1>1. j \in Job
  BY JobOfOp
<1>2. k \in Job /\ k.op = j.op
  BY <1>1 DEF Job
<1> QED
  BY <1>2 DEF JobOK, DeleteChecked

LEMMA MovesTyped ==
  ASSUME TypeOK, NEW excluded \in SUBSET Students
  PROVE  PlanMoves(excluded) \in Moves
<1> DEFINE D == (Candidates(excluded) \ MissingYears(excluded)) \ PlanDue(excluded)
<1>1. ASSUME NEW s \in D
      PROVE  students[s].level + 1 \in Raised
  <2>1. /\ s \in Students /\ students[s] \in Row /\ students[s].level \in Levels
        /\ FinalLevel(s) # 0 /\ ~(students[s].level >= FinalLevel(s))
    BY <1>1 DEF Candidates, MissingYears, PlanDue, BadLevels, ActiveStudents, Roster, On
  <2>2. FinalLevel(s) \in ProgrammeYears
    BY <2>1 DEF TypeOK, FinalLevel, Row
  <2>3. students[s].level < FinalLevel(s) /\ students[s].level \in Nat
    <3>1. students[s].level \in Nat /\ FinalLevel(s) \in Nat
      BY <2>1, <2>2, ChangeoverAssumption
    <3> QED
      BY <2>1, <3>1
  <2>4. students[s].level + 1 \in Levels
    BY <2>1, <2>2, <2>3, ChangeoverAssumption
  <2>5. (students[s].level + 1) - 1 \in Levels
    BY <2>1, <2>3
  <2> QED
    BY <2>4, <2>5 DEF Raised
<1>2. D \in SUBSET Students
  BY DEF Candidates, ActiveStudents, Roster
<1>3. PlanMoves(excluded) \in [D -> Raised]
  BY <1>1 DEF PlanMoves
<1> QED
  BY <1>2, <1>3 DEF Moves

-----------------------------------------------------------------------------
(* Types *)

LEMMA HandTyped ==
  ASSUME TypeOK, ByHand
  PROVE  hand' \in 0..MaxHand
<1>1. MaxHand \in Nat
  BY ChangeoverAssumption
<1> QED
  BY <1>1 DEF TypeOK, ByHand

\* The type of everything but the requests.
TablesTyped ==
  /\ students \in [Students -> Row \cup {Unborn, Gone}]
  /\ programme \in [Departments -> ProgrammeYears \cup {0}]
  /\ semesters \in [Semesters -> SemesterRow \cup {NoSemester}]
  /\ setup \in [Semesters -> SUBSET Confirmed]
  /\ ticks \subseteq Semesters \X Manual
  /\ runs \in [AcademicYears -> Run \cup {NoRun}]
  /\ lastRun \in 0..MaxRun
  /\ hand \in 0..MaxHand
  /\ entry \in [Students -> Levels \cup {BadLevel}]
  /\ edited \subseteq Students /\ crossed \subseteq Students
  /\ tangled \in BOOLEAN

RequestsTyped ==
  /\ request = [r \in Requests |-> request[r]]
  /\ \A r \in Requests : JobOK(request[r]) /\ DeleteChecked(request[r])

LEMMA TypedParts ==
  Typed <=> TablesTyped /\ RequestsTyped
  BY JobTyped DEF Typed, TypeOK, TablesTyped, RequestsTyped

LEMMA TypedPartsNext ==
  Typed' <=> TablesTyped' /\ RequestsTyped'
<1>1. \A r \in Requests : JobOK(request'[r]) =>
        \/ request'[r] = Idle
        \/ request'[r].op # "write" /\ request'[r] \in Job
        \/ /\ request'[r].op = "write"
           /\ \E S \in SUBSET Students : request'[r].seen \in [S -> Row] /\ request'[r].want \in [S -> Row]
  BY JobTyped
<1> QED
  BY <1>1 DEF Typed, TypeOK, TablesTyped, RequestsTyped

LEMMA OneRequest ==
  ASSUME RequestsTyped, NEW r \in Requests, NEW j, JobOK(j), DeleteChecked(j),
         request' = [request EXCEPT ![r] = j]
  PROVE  RequestsTyped'
<1>1. \A q \in Requests : request'[q] = IF q = r THEN j ELSE request[q]
  BY DEF RequestsTyped
<1>2. request' = [q \in Requests |-> request'[q]]
  BY DEF RequestsTyped
<1> QED
  BY <1>1, <1>2 DEF RequestsTyped

LEMMA IdleOK == JobOK(Idle) /\ DeleteChecked(Idle)
  BY DEF JobOK, DeleteChecked, Idle

LEMMA RequestsKept ==
  ASSUME RequestsTyped, UNCHANGED request
  PROVE  RequestsTyped'
  BY DEF RequestsTyped

LEMMA RowsTyped ==
  ASSUME TablesTyped, NEW s \in Roster
  PROVE  s \in Students /\ students[s] \in Row
  BY DEF Roster, On

LEMMA SetStatusTyped ==
  ASSUME Typed, NEW r \in Requests, NEW picked \in SUBSET Roster,
         NEW status \in OtherStatuses \cup {"active"}, SetStatus(r, picked, status)
  PROVE  Typed'
<1> DEFINE D == {t \in picked : students[t].status # status}
           seen == [s \in D |-> students[s]]
           want == [s \in DOMAIN seen |->
                      [seen[s] EXCEPT !.status = status, !.login = (status = "active")]]
           j == [op |-> "write", seen |-> seen, want |-> want]
<1>1. TablesTyped /\ RequestsTyped
  BY TypedParts
<1>2. D \in SUBSET Students /\ \A s \in D : students[s] \in Row
  BY <1>1, RowsTyped
<1>3. seen \in [D -> Row]
  BY <1>2
<1>4. \A s \in D : want[s] = [students[s] EXCEPT !.status = status, !.login = (status = "active")]
  OBVIOUS
<1>5. \A s \in D : /\ want[s] \in Row
                   /\ want[s].status = status /\ want[s].login = (status = "active")
  BY <1>2, <1>4 DEF Row
<1>6. want \in [D -> Row]
  BY <1>5
<1>7. \A s \in D : want[s].status # seen[s].status
  BY <1>5
<1>8. request' = [request EXCEPT ![r] = j] /\ UNCHANGED <<tables, history>> /\ ByHand
  BY DEF SetStatus, Ask
<1>9. DOMAIN want = D
  OBVIOUS
<1> HIDE DEF seen, want, D
<1>10. j.op = "write" /\ j.seen = seen /\ j.want = want
  OBVIOUS
<1> HIDE DEF j
<1>11. WriteSound(j)
  BY <1>2, <1>3, <1>5, <1>6, <1>7, <1>9, <1>10 DEF WriteSound
<1>12. JobOK(j) /\ DeleteChecked(j)
  BY <1>10, <1>11 DEF JobOK, DeleteChecked
<1>13. RequestsTyped'
  BY <1>1, <1>8, <1>12, OneRequest
<1>14. TablesTyped'
  BY <1>1, <1>8, HandTyped DEF TablesTyped, tables, history, Typed
<1> QED
  BY <1>13, <1>14, TypedPartsNext

LEMMA BeginEditTyped ==
  ASSUME Typed, NEW r \in Requests, NEW s \in Roster, NEW level \in Levels, NEW d \in Departments,
         BeginEdit(r, s, level, d)
  PROVE  Typed'
<1> DEFINE row == [students[s] EXCEPT !.level = level, !.dept = d]
           seen == [t \in {s} |-> students[t]]
           want == [t \in {s} |-> row]
           j == [op |-> "write", seen |-> seen, want |-> want]
<1>1. TablesTyped /\ RequestsTyped
  BY TypedParts
<1>2. s \in Students /\ students[s] \in Row
  BY <1>1, RowsTyped
<1>3. row \in Row /\ row.status = students[s].status /\ row.login = students[s].login
  BY <1>2 DEF Row
<1> HIDE DEF row
<1>4. {s} \in SUBSET Students /\ seen \in [{s} -> Row] /\ want \in [{s} -> Row]
  BY <1>2, <1>3
<1>5. \A t \in DOMAIN want : want[t].status = seen[t].status /\ want[t].login = seen[t].login
  BY <1>3
<1>6. request' = [request EXCEPT ![r] = j] /\ UNCHANGED <<tables, history>> /\ ByHand
  BY DEF BeginEdit, Ask, row
<1> HIDE DEF seen, want
<1>7. j.op = "write" /\ j.seen = seen /\ j.want = want
  OBVIOUS
<1> HIDE DEF j
<1>8. WriteSound(j)
  BY <1>4, <1>5, <1>7 DEF WriteSound
<1>9. JobOK(j) /\ DeleteChecked(j)
  BY <1>7, <1>8 DEF JobOK, DeleteChecked
<1>10. RequestsTyped'
  BY <1>1, <1>6, <1>9, OneRequest
<1>11. TablesTyped'
  BY <1>1, <1>6, HandTyped DEF TablesTyped, tables, history, Typed
<1> QED
  BY <1>10, <1>11, TypedPartsNext

LEMMA WrittenTyped ==
  ASSUME NEW now \in Row, NEW seen \in Row, NEW want \in Row
  PROVE  Written(now, seen, want) \in Row
  BY DEF Written, Row

LEMMA CommitWriteTyped ==
  ASSUME Typed, NEW r \in Requests, CommitWrite(r)
  PROVE  Typed'
<1> DEFINE seen == request[r].seen
           want == request[r].want
           hit == DOMAIN want
<1>1. TablesTyped /\ RequestsTyped
  BY TypedParts
<1>2. WriteSound(request[r])
  BY <1>1, JobOfOp DEF RequestsTyped, CommitWrite
<1>3. PICK S \in SUBSET Students : seen \in [S -> Row] /\ want \in [S -> Row]
  BY <1>2 DEF WriteSound
<1>4. RequestsTyped'
  BY <1>1, IdleOK, OneRequest DEF CommitWrite
<1>5. CASE hit \subseteq Roster
  <2>1. students' = [s \in Students |->
          IF s \in hit THEN Written(students[s], seen[s], want[s]) ELSE students[s]]
    BY <1>5 DEF CommitWrite
  <2>2. \A s \in hit : Written(students[s], seen[s], want[s]) \in Row
    BY <1>1, <1>3, <1>5, RowsTyped, WrittenTyped
  <2>3. students' \in [Students -> Row \cup {Unborn, Gone}]
    BY <1>1, <2>1, <2>2 DEF TablesTyped
  <2>4. edited' \subseteq Students /\ crossed' \subseteq Students
    BY <1>1, <1>3, <1>5 DEF CommitWrite, TablesTyped
  <2>5. TablesTyped'
    BY <1>1, <2>3, <2>4 DEF CommitWrite, TablesTyped
  <2> QED
    BY <1>4, <2>5, TypedPartsNext
<1>6. CASE ~(hit \subseteq Roster)
  <2>1. UNCHANGED <<students, edited, crossed>>
    BY <1>6 DEF CommitWrite
  <2>2. TablesTyped'
    BY <1>1, <2>1 DEF CommitWrite, TablesTyped
  <2> QED
    BY <1>4, <2>2, TypedPartsNext
<1> QED
  BY <1>5, <1>6

LEMMA BeginPromoteTyped ==
  ASSUME Typed, NEW r \in Requests, NEW excluded \in SUBSET Students, BeginPromote(r, excluded)
  PROVE  Typed'
<1> DEFINE j == [op |-> "promote", year |-> CurrentYear, moves |-> PlanMoves(excluded), alone |-> TRUE]
<1>1. TablesTyped /\ RequestsTyped /\ TypeOK
  BY TypedParts DEF Typed
<1>2. CurrentYear \in AcademicYears
  <2>1. ActiveSemesters # {} /\ CurrentYear # NoYear
    BY DEF BeginPromote, CurrentYear
  <2>2. PICK x \in ActiveSemesters : CurrentYear = semesters[x].year
    BY <2>1 DEF CurrentYear
  <2>3. semesters[x] \in SemesterRow
    BY <2>2 DEF ActiveSemesters, Known
  <2> QED
    BY <2>1, <2>2, <2>3 DEF SemesterRow
<1>3. j \in Job /\ j.op = "promote"
  BY <1>1, <1>2, MovesTyped DEF Job
<1>4. JobOK(j) /\ DeleteChecked(j)
  BY <1>3 DEF JobOK, DeleteChecked
<1>5. request' = [request EXCEPT ![r] = j] /\ UNCHANGED <<tables, history, hand>>
  BY DEF BeginPromote, Ask
<1> HIDE DEF j
<1>6. RequestsTyped'
  BY <1>1, <1>4, <1>5, OneRequest
<1>7. TablesTyped'
  BY <1>1, <1>5 DEF TablesTyped, tables, history
<1> QED
  BY <1>6, <1>7, TypedPartsNext

LEMMA AnsweredTyped ==
  ASSUME RequestsTyped, NEW r \in Requests, Answered(r)
  PROVE  RequestsTyped'
<1>1. request' = [q \in Requests |-> request'[q]]
  BY DEF Answered
<1>2. ASSUME NEW q \in Requests
      PROVE  JobOK(request'[q]) /\ DeleteChecked(request'[q])
  <2>1. CASE q = r
    BY <2>1, IdleOK DEF Answered
  <2>2. CASE q # r /\ request[q].op \in {"promote", "undo"}
    BY <2>2, JobOvertaken DEF Answered, RequestsTyped
  <2>3. CASE q # r /\ request[q].op \notin {"promote", "undo"}
    BY <2>3 DEF Answered, RequestsTyped
  <2> QED
    BY <2>1, <2>2, <2>3
<1> QED
  BY <1>1, <1>2 DEF RequestsTyped

LEMMA MoveOf ==
  ASSUME NEW moves \in Moves, NEW s \in DOMAIN moves
  PROVE  s \in Students /\ moves[s] \in Levels /\ moves[s] - 1 \in Levels
<1>1. PICK S \in SUBSET Students : moves \in [S -> Raised]
  BY DEF Moves
<1> QED
  BY <1>1 DEF Raised

LEMMA LevelledTyped ==
  ASSUME NEW row \in Row, NEW level \in Levels
  PROVE  [row EXCEPT !.level = level] \in Row
  BY DEF Row

LEMMA CommitPromoteTyped ==
  ASSUME Typed, NEW r \in Requests, CommitPromote(r)
  PROVE  Typed'
<1> DEFINE year == request[r].year
           moves == request[r].moves
<1>1. TablesTyped /\ RequestsTyped
  BY TypedParts
<1>2. year \in AcademicYears /\ moves \in Moves
  BY <1>1, JobOfOp DEF RequestsTyped, CommitPromote
<1>3. CASE MayRecord(year)
  <2>1. students' \in [Students -> Row \cup {Unborn, Gone}]
    <3>1. students' = [s \in Students |->
            IF s \in DOMAIN moves /\ On(s) THEN [students[s] EXCEPT !.level = moves[s]]
                                           ELSE students[s]]
      BY <1>3 DEF CommitPromote
    <3>2. \A s \in DOMAIN moves : On(s) => [students[s] EXCEPT !.level = moves[s]] \in Row
      BY <1>2, MoveOf, LevelledTyped DEF On
    <3> QED
      BY <1>1, <3>1, <3>2 DEF TablesTyped
  <2>2. lastRun' = lastRun + 1 /\ lastRun' \in 1..MaxRun
    <3>1. lastRun' = lastRun + 1 /\ lastRun < MaxRun
      BY <1>3 DEF CommitPromote, MayRecord
    <3>2. lastRun \in 0..MaxRun /\ MaxRun \in Nat
      BY <1>1, ChangeoverAssumption DEF TablesTyped
    <3> QED
      BY <3>1, <3>2
  <2>3. runs' \in [AcademicYears -> Run \cup {NoRun}]
    <3>1. [id |-> lastRun', moves |-> moves] \in Run
      BY <1>2, <2>2 DEF Run
    <3>2. runs' = [runs EXCEPT ![year] = [id |-> lastRun', moves |-> moves]]
      BY <1>3 DEF CommitPromote
    <3> QED
      BY <1>1, <3>1, <3>2 DEF TablesTyped
  <2>4. tangled' \in BOOLEAN /\ Answered(r)
    BY <1>3 DEF CommitPromote
  <2>5. lastRun' \in 0..MaxRun
    BY <2>2
  <2>6. TablesTyped'
    BY <1>1, <2>1, <2>3, <2>4, <2>5 DEF CommitPromote, TablesTyped
  <2> QED
    BY <1>1, <2>4, <2>6, AnsweredTyped, TypedPartsNext
<1>4. CASE ~MayRecord(year)
  <2>1. request' = [request EXCEPT ![r] = Idle] /\ UNCHANGED <<students, lastRun, runs, tangled>>
    BY <1>4 DEF CommitPromote
  <2>2. RequestsTyped'
    BY <1>1, <2>1, IdleOK, OneRequest
  <2>3. TablesTyped'
    BY <1>1, <2>1 DEF CommitPromote, TablesTyped
  <2> QED
    BY <2>2, <2>3, TypedPartsNext
<1> QED
  BY <1>3, <1>4

LEMMA BeginUndoTyped ==
  ASSUME Typed, NEW r \in Requests, NEW year \in AcademicYears, BeginUndo(r, year)
  PROVE  Typed'
<1> DEFINE j == [op |-> "undo", year |-> year, run |-> runs[year], alone |-> TRUE]
<1>1. TablesTyped /\ RequestsTyped
  BY TypedParts
<1>2. runs[year] \in Run
  BY <1>1 DEF TablesTyped, BeginUndo
<1>3. j \in Job /\ j.op = "undo"
  BY <1>2 DEF Job
<1>4. JobOK(j) /\ DeleteChecked(j)
  BY <1>3 DEF JobOK, DeleteChecked
<1>5. request' = [request EXCEPT ![r] = j] /\ UNCHANGED <<tables, history, hand>>
  BY DEF BeginUndo, Ask
<1> HIDE DEF j
<1>6. RequestsTyped'
  BY <1>1, <1>4, <1>5, OneRequest
<1>7. TablesTyped'
  BY <1>1, <1>5 DEF TablesTyped, tables, history
<1> QED
  BY <1>6, <1>7, TypedPartsNext

LEMMA CommitUndoTyped ==
  ASSUME Typed, NEW r \in Requests, CommitUndo(r)
  PROVE  Typed'
<1> DEFINE year == request[r].year
           run == request[r].run
<1>1. TablesTyped /\ RequestsTyped
  BY TypedParts
<1>2. year \in AcademicYears /\ run \in Run
  BY <1>1, JobOfOp DEF RequestsTyped, CommitUndo
<1>3. students' \in [Students -> Row \cup {Unborn, Gone}]
  <2>1. students' = [s \in Students |->
          IF MovesBack(s, run) THEN [students[s] EXCEPT !.level = run.moves[s] - 1] ELSE students[s]]
    BY DEF CommitUndo
  <2>2. run.moves \in Moves
    BY <1>2 DEF Run
  <2>3. \A s \in Students : MovesBack(s, run) =>
          [students[s] EXCEPT !.level = run.moves[s] - 1] \in Row
    BY <2>2, MoveOf, LevelledTyped DEF MovesBack, On
  <2> QED
    BY <1>1, <2>1, <2>3 DEF TablesTyped
<1>4. runs' \in [AcademicYears -> Run \cup {NoRun}]
  BY <1>1, <1>2 DEF CommitUndo, RunDeleted, TablesTyped
<1>5. tangled' \in BOOLEAN /\ Answered(r)
  BY DEF CommitUndo
<1>6. TablesTyped'
  BY <1>1, <1>3, <1>4, <1>5 DEF CommitUndo, TablesTyped
<1> QED
  BY <1>1, <1>5, <1>6, AnsweredTyped, TypedPartsNext

LEMMA RegisteringTyped ==
  ASSUME TablesTyped, NEW S \in SUBSET Students, NEW rows \in [S -> NewRow]
  PROVE  Registering(rows) \in [Students -> Row \cup {Unborn, Gone}]
<1>1. \A s \in S : [level |-> rows[s].level, status |-> "active", login |-> TRUE,
                    dept |-> rows[s].dept] \in Row
  BY DEF NewRow, Row
<1>2. \A s \in Students : Registering(rows)[s] =
        IF s \in S THEN [level |-> rows[s].level, status |-> "active", login |-> TRUE,
                         dept |-> rows[s].dept]
                   ELSE students[s]
  BY DEF Registering
<1>3. \A s \in Students : Registering(rows)[s] \in Row \cup {Unborn, Gone}
  BY <1>1, <1>2 DEF TablesTyped
<1> QED
  BY <1>3 DEF Registering

LEMMA CreateStudentTyped ==
  ASSUME Typed, NEW s \in Students, NEW row \in NewRow, CreateStudent(s, row)
  PROVE  Typed'
<1>1. TablesTyped /\ RequestsTyped
  BY TypedParts
<1>2. [t \in {s} |-> row] \in [{s} -> NewRow] /\ {s} \in SUBSET Students
  OBVIOUS
<1>3. students' \in [Students -> Row \cup {Unborn, Gone}]
  BY <1>1, <1>2, RegisteringTyped DEF CreateStudent
<1>4. row.level \in Levels
  BY DEF NewRow
<1>5. entry' \in [Students -> Levels \cup {BadLevel}]
  BY <1>1, <1>4 DEF CreateStudent, TablesTyped
<1>6. TablesTyped'
  BY <1>1, <1>3, <1>5, HandTyped DEF CreateStudent, TablesTyped, Typed
<1> QED
  BY <1>1, <1>6, RequestsKept, TypedPartsNext DEF CreateStudent

LEMMA UploadStudentsTyped ==
  ASSUME Typed, NEW S \in SUBSET Students, NEW rows \in [S -> NewRow], UploadStudents(rows)
  PROVE  Typed'
<1> DEFINE D == {t \in DOMAIN rows : students[t] = Unborn}
<1>1. TablesTyped /\ RequestsTyped
  BY TypedParts
<1>2. D \in SUBSET Students /\ NewRows(rows) \in [D -> NewRow]
  BY DEF NewRows
<1>3. students' \in [Students -> Row \cup {Unborn, Gone}]
  BY <1>1, <1>2, RegisteringTyped DEF UploadStudents
<1>4. \A s \in S : rows[s].level \in Levels
  BY DEF NewRow
<1>5. entry' \in [Students -> Levels \cup {BadLevel}]
  <2>1. entry' = [s \in Students |-> IF s \in DOMAIN NewRows(rows) THEN rows[s].level ELSE entry[s]]
    BY DEF UploadStudents
  <2>2. DOMAIN NewRows(rows) \subseteq S
    BY <1>2
  <2> QED
    BY <1>1, <1>4, <2>1, <2>2 DEF TablesTyped
<1>6. TablesTyped'
  BY <1>1, <1>3, <1>5, HandTyped DEF UploadStudents, TablesTyped, Typed
<1> QED
  BY <1>1, <1>6, RequestsKept, TypedPartsNext DEF UploadStudents

LEMMA StudentGoneTyped ==
  ASSUME Typed,
         \/ \E s \in Students : DeleteStudent(s)
         \/ \E d \in Departments, years \in ProgrammeYears : SetProgrammeYears(d, years)
  PROVE  Typed'
<1>1. TablesTyped /\ RequestsTyped
  BY TypedParts
<1>2. students' \in [Students -> Row \cup {Unborn, Gone}]
  BY <1>1 DEF DeleteStudent, SetProgrammeYears, TablesTyped
<1>3. programme' \in [Departments -> ProgrammeYears \cup {0}]
  BY <1>1 DEF DeleteStudent, SetProgrammeYears, TablesTyped
<1>4. ByHand /\ UNCHANGED <<semesters, setup, ticks, runs, lastRun, request, history>>
  BY DEF DeleteStudent, SetProgrammeYears
<1>5. TablesTyped'
  BY <1>1, <1>2, <1>3, <1>4, HandTyped DEF TablesTyped, history, Typed
<1> QED
  BY <1>1, <1>4, <1>5, RequestsKept, TypedPartsNext

LEMMA RowOfTyped ==
  ASSUME NEW form \in Forms, NEW on \in BOOLEAN
  PROVE  RowOf(form, on) \in SemesterRow
<1>1. form \in [year : AcademicYears \cup {"no year"}, start : Nat, end : Nat]
  BY ChangeoverAssumption
<1> QED
  BY <1>1 DEF RowOf, SemesterRow, NoYear

LEMMA SavedTyped ==
  ASSUME TablesTyped, NEW x \in Semesters, NEW form \in Forms, Saved(x, form)
  PROVE  semesters' \in [Semesters -> SemesterRow \cup {NoSemester}]
<1> DEFINE on == x \in Known /\ semesters[x].active
<1>1. on \in BOOLEAN
  <2>1. x \in Known => semesters[x].active \in BOOLEAN
    BY DEF Known, SemesterRow
  <2> QED
    BY <2>1
<1>2. semesters' = [semesters EXCEPT ![x] = RowOf(form, on)]
  BY DEF Saved
<1> HIDE DEF on
<1> QED
  BY <1>1, <1>2, RowOfTyped DEF TablesTyped

LEMMA ActivatedTyped ==
  ASSUME TablesTyped, NEW x \in Semesters
  PROVE  Activated(x) \in [Semesters -> SemesterRow \cup {NoSemester}]
<1>1. \A y \in Known : [semesters[y] EXCEPT !.active = (y = x)] \in SemesterRow
  BY DEF Known, SemesterRow
<1> QED
  BY <1>1 DEF Activated, TablesTyped

LEMMA SemesterTyped ==
  ASSUME Typed, NEW x \in Semesters,
         \/ \E form \in Forms : CreateSemester(x, form) \/ EditSemester(x, form)
         \/ Activate(x) \/ Prepare(x)
         \/ \E step \in Manual : Tick(x, step)
  PROVE  Typed'
<1>1. TablesTyped /\ RequestsTyped
  BY TypedParts
<1>2. semesters' \in [Semesters -> SemesterRow \cup {NoSemester}]
  <2>1. CASE \E form \in Forms : Saved(x, form)
    BY <1>1, <2>1, SavedTyped
  <2>2. CASE Activate(x)
    BY <1>1, <2>2, ActivatedTyped DEF Activate
  <2>3. CASE Prepare(x) \/ \E step \in Manual : Tick(x, step)
    BY <1>1, <2>3 DEF Prepare, Tick, TablesTyped
  <2> QED
    BY <2>1, <2>2, <2>3 DEF CreateSemester, EditSemester
<1>3. setup' \in [Semesters -> SUBSET Confirmed]
  BY <1>1 DEF CreateSemester, EditSemester, Saved, Activate, Prepare, Tick, TablesTyped
<1>4. ticks' \subseteq Semesters \X Manual
  <2>1. CASE \E step \in Manual : Tick(x, step)
    <3>1. PICK step \in Manual : Tick(x, step)
      BY <2>1
    <3>2. ticks' \subseteq ticks \cup {<<x, step>>}
      BY <3>1 DEF Tick, Toggled
    <3> QED
      BY <1>1, <3>2 DEF TablesTyped
  <2>2. CASE ~(\E step \in Manual : Tick(x, step))
    BY <1>1, <2>2 DEF CreateSemester, EditSemester, Saved, Activate, Prepare, TablesTyped
  <2> QED
    BY <2>1, <2>2
<1>5. ByHand /\ UNCHANGED <<students, programme, runs, lastRun, request, history>>
  BY DEF CreateSemester, EditSemester, Saved, Activate, Prepare, Tick
<1>6. TablesTyped'
  BY <1>1, <1>2, <1>3, <1>4, <1>5, HandTyped DEF TablesTyped, history, Typed
<1> QED
  BY <1>1, <1>5, <1>6, RequestsKept, TypedPartsNext

LEMMA BeginDeleteTyped ==
  ASSUME Typed, NEW r \in Requests, NEW x \in Semesters, BeginDeleteSemester(r, x)
  PROVE  Typed'
<1> DEFINE j == [op |-> "delete", sem |-> x, saw |-> semesters[x]]
<1>1. TablesTyped /\ RequestsTyped
  BY TypedParts
<1>2. semesters[x] \in SemesterRow /\ ~semesters[x].active
  BY DEF BeginDeleteSemester, DeletableSemester, Known
<1>3. j \in Job /\ j.op = "delete" /\ ~j.saw.active
  BY <1>2 DEF Job
<1>4. JobOK(j) /\ DeleteChecked(j)
  BY <1>3 DEF JobOK, DeleteChecked
<1>5. request' = [request EXCEPT ![r] = j] /\ ByHand /\ UNCHANGED <<tables, history>>
  BY DEF BeginDeleteSemester, Ask
<1> HIDE DEF j
<1>6. RequestsTyped'
  BY <1>1, <1>4, <1>5, OneRequest
<1>7. TablesTyped'
  BY <1>1, <1>5, HandTyped DEF TablesTyped, tables, history, Typed
<1> QED
  BY <1>6, <1>7, TypedPartsNext

LEMMA CommitDeleteTyped ==
  ASSUME Typed, NEW r \in Requests, CommitDeleteSemester(r)
  PROVE  Typed'
<1>1. TablesTyped /\ RequestsTyped
  BY TypedParts
<1>2. RequestsTyped'
  BY <1>1, IdleOK, OneRequest DEF CommitDeleteSemester
<1>3. semesters' \in [Semesters -> SemesterRow \cup {NoSemester}]
  BY <1>1 DEF CommitDeleteSemester, TablesTyped
<1>4. ticks' \subseteq ticks
  BY DEF CommitDeleteSemester
<1>5. TablesTyped'
  BY <1>1, <1>3, <1>4 DEF CommitDeleteSemester, TablesTyped, history
<1> QED
  BY <1>2, <1>5, TypedPartsNext

LEMMA InitTyped == Init => Typed
<1> SUFFICES ASSUME Init PROVE Typed
  OBVIOUS
<1>1. \A l \in Levels \cup {BadLevel}, d \in Departments :
        [level |-> l, status |-> "active", login |-> TRUE, dept |-> d] \in Row
  BY DEF Row
<1>2. students \in [Students -> Row \cup {Unborn, Gone}]
  BY <1>1 DEF Init
<1>3. semesters \in [Semesters -> SemesterRow \cup {NoSemester}]
  <2>1. PICK x \in Semesters, form \in Forms : semesters = OnlySemester(x, form)
    BY DEF Init
  <2>2. RowOf(form, TRUE) \in SemesterRow
    BY RowOfTyped
  <2> QED
    BY <2>1, <2>2 DEF OnlySemester
<1>4. lastRun \in 0..MaxRun /\ hand \in 0..MaxHand
  <2>1. MaxRun \in Nat /\ MaxHand \in Nat
    BY ChangeoverAssumption
  <2>2. lastRun = 0 /\ hand = 0
    BY DEF Init
  <2> QED
    BY <2>1, <2>2
<1>5. /\ programme \in [Departments -> ProgrammeYears \cup {0}]
      /\ setup \in [Semesters -> SUBSET Confirmed]
      /\ runs \in [AcademicYears -> Run \cup {NoRun}]
      /\ entry \in [Students -> Levels \cup {BadLevel}]
      /\ ticks = {} /\ edited = {} /\ crossed = {} /\ tangled = FALSE
  BY DEF Init
<1>7. TablesTyped
  BY <1>2, <1>3, <1>4, <1>5 DEF TablesTyped
<1>6. RequestsTyped
  BY IdleOK DEF Init, RequestsTyped
<1> QED
  BY <1>6, <1>7, TypedParts

LEMMA NextTyped ==
  ASSUME Typed, [Next]_vars
  PROVE  Typed'
<1>1. CASE \E r \in Requests : StudentStep(r)
  <2>1. PICK r \in Requests : StudentStep(r)
    BY <1>1
  <2>2. CASE \E status \in OtherStatuses \cup {"active"} :
               \/ \E s \in Roster : BeginStatus(r, s, status)
               \/ \E file \in SUBSET Students : BeginBulkStatus(r, file, status)
    <3>1. PICK status \in OtherStatuses \cup {"active"}, picked \in SUBSET Roster :
            SetStatus(r, picked, status)
      BY <2>2 DEF BeginStatus, BeginBulkStatus
    <3> QED
      BY <3>1, SetStatusTyped
  <2>3. CASE ~(\E status \in OtherStatuses \cup {"active"} :
               \/ \E s \in Roster : BeginStatus(r, s, status)
               \/ \E file \in SUBSET Students : BeginBulkStatus(r, file, status))
    BY <2>1, <2>3, BeginEditTyped, CommitWriteTyped, BeginPromoteTyped, CommitPromoteTyped,
       BeginUndoTyped, CommitUndoTyped
    DEF StudentStep
  <2> QED
    BY <2>2, <2>3
<1>2. CASE SemesterStep
  BY <1>2, SemesterTyped, BeginDeleteTyped, CommitDeleteTyped DEF SemesterStep
<1>3. CASE \/ \E s \in Students, row \in NewRow : CreateStudent(s, row)
           \/ \E S \in SUBSET Students : \E rows \in [S -> NewRow] : UploadStudents(rows)
           \/ \E s \in Students : DeleteStudent(s)
           \/ \E d \in Departments, years \in ProgrammeYears : SetProgrammeYears(d, years)
  BY <1>3, CreateStudentTyped, UploadStudentsTyped, StudentGoneTyped
<1>4. CASE UNCHANGED vars
  <2>1. TablesTyped /\ RequestsTyped
    BY TypedParts
  <2>2. TablesTyped'
    BY <1>4, <2>1 DEF vars, tables, history, TablesTyped
  <2>3. RequestsTyped'
    BY <1>4, <2>1, RequestsKept DEF vars
  <2> QED
    BY <2>2, <2>3, TypedPartsNext
<1> QED
  BY <1>1, <1>2, <1>3, <1>4 DEF Next

\* The tables, the requests and the record of the past have their types, in
\* every interleaving of the admins: no undo leaves a level nobody can have.
THEOREM ChangeoverTypes == Spec => []TypeOK
<1>1. Typed => TypeOK
  BY DEF Typed
<1> QED
  BY <1>1, InitTyped, NextTyped, PTL DEF Spec

-----------------------------------------------------------------------------
(* Logins *)

LEMMA LoginsWritten ==
  ASSUME Typed, LoginFollowsStatus, NEW r \in Requests, CommitWrite(r)
  PROVE  LoginFollowsStatus'
<1> DEFINE seen == request[r].seen
           want == request[r].want
           hit == DOMAIN want
<1>1. TablesTyped /\ RequestsTyped
  BY TypedParts
<1>2. WriteSound(request[r])
  BY <1>1, JobOfOp DEF RequestsTyped, CommitWrite
<1> SUFFICES ASSUME NEW s \in Students, students'[s] \in Row, s \notin crossed'
             PROVE  students'[s].login = (students'[s].status = "active")
  BY DEF LoginFollowsStatus, Roster, On
<1>3. s \notin crossed
  BY DEF CommitWrite
<1>4. CASE hit \subseteq Roster /\ s \in hit
  <2>1. students[s] \in Row /\ s \in Roster
    BY <1>4 DEF Roster, On
  <2>2. students'[s] = Written(students[s], seen[s], want[s])
    BY <1>4 DEF CommitWrite
  <2>3. <<students[s].status, students[s].login>> = <<seen[s].status, seen[s].login>>
    BY <1>4 DEF CommitWrite
  <2>4. students[s].login = (students[s].status = "active")
    BY <1>3, <2>1 DEF LoginFollowsStatus
  <2>5. /\ students'[s].status = want[s].status
        /\ students'[s].login = want[s].login
    <3>1. /\ Written(students[s], seen[s], want[s]).status =
               IF want[s].status # seen[s].status THEN want[s].status ELSE students[s].status
          /\ Written(students[s], seen[s], want[s]).login =
               IF want[s].login # seen[s].login THEN want[s].login ELSE students[s].login
      BY DEF Written
    <3> QED
      BY <2>2, <2>3, <3>1
  <2>6. IF want[s].status = seen[s].status THEN want[s].login = seen[s].login
                                           ELSE want[s].login = (want[s].status = "active")
    BY <1>2, <1>4 DEF WriteSound
  <2> QED
    BY <2>3, <2>4, <2>5, <2>6
<1>5. CASE ~(hit \subseteq Roster /\ s \in hit)
  <2>1. students'[s] = students[s]
    BY <1>5 DEF CommitWrite
  <2> QED
    BY <1>3, <2>1 DEF LoginFollowsStatus, Roster, On
<1> QED
  BY <1>4, <1>5

\* The other steps keep the logins of those they keep, and whoever they put
\* on the roster is active and may sign in.
LEMMA LoginsKept ==
  ASSUME LoginFollowsStatus, crossed' = crossed,
         \A s \in Students : students'[s] \in Row =>
           \/ students'[s].login = TRUE /\ students'[s].status = "active"
           \/ /\ students[s] \in Row
              /\ students'[s].login = students[s].login
              /\ students'[s].status = students[s].status
  PROVE  LoginFollowsStatus'
  BY DEF LoginFollowsStatus, Roster, On

LEMMA LoginsRegistered ==
  ASSUME NEW S \in SUBSET Students, NEW rows \in [S -> NewRow], students' = Registering(rows),
         NEW s \in Students, students'[s] \in Row
  PROVE  \/ students'[s].login = TRUE /\ students'[s].status = "active"
         \/ students'[s] = students[s]
<1>1. CASE s \in S
  <2>1. students'[s] = [level |-> rows[s].level, status |-> "active", login |-> TRUE,
                        dept |-> rows[s].dept]
    BY <1>1 DEF Registering
  <2> QED
    BY <2>1
<1>2. CASE s \notin S
  BY <1>2 DEF Registering
<1> QED
  BY <1>1, <1>2

LEMMA LevelledSame ==
  ASSUME NEW row \in Row, NEW level
  PROVE  /\ [row EXCEPT !.level = level].login = row.login
         /\ [row EXCEPT !.level = level].status = row.status
  BY DEF Row

LEMMA NextLogins ==
  ASSUME Typed, LoginFollowsStatus, [Next]_vars
  PROVE  LoginFollowsStatus'
<1>0. TablesTyped /\ RequestsTyped
  BY TypedParts
<1>1. CASE \E r \in Requests : CommitWrite(r)
  BY <1>1, LoginsWritten
<1>2. CASE \E r \in Requests : CommitPromote(r)
  <2>1. PICK r \in Requests : CommitPromote(r)
    BY <1>2
  <2>2. crossed' = crossed
    BY <2>1 DEF CommitPromote
  <2>3. ASSUME NEW s \in Students, students'[s] \in Row
        PROVE  /\ students[s] \in Row
               /\ students'[s].login = students[s].login
               /\ students'[s].status = students[s].status
    <3>1. CASE students'[s] = students[s]
      BY <2>3, <3>1
    <3>2. CASE On(s) /\ students'[s] = [students[s] EXCEPT !.level = request[r].moves[s]]
      BY <3>2, LevelledSame DEF On
    <3>3. \/ students'[s] = students[s]
          \/ On(s) /\ students'[s] = [students[s] EXCEPT !.level = request[r].moves[s]]
      BY <2>1 DEF CommitPromote
    <3> QED
      BY <3>1, <3>2, <3>3
  <2> QED
    BY <2>2, <2>3, LoginsKept
<1>3. CASE \E r \in Requests : CommitUndo(r)
  <2>1. PICK r \in Requests : CommitUndo(r)
    BY <1>3
  <2>2. crossed' = crossed
    BY <2>1 DEF CommitUndo
  <2>3. ASSUME NEW s \in Students, students'[s] \in Row
        PROVE  /\ students[s] \in Row
               /\ students'[s].login = students[s].login
               /\ students'[s].status = students[s].status
    <3>1. CASE students'[s] = students[s]
      BY <2>3, <3>1
    <3>2. CASE On(s) /\ students'[s] = [students[s] EXCEPT !.level = request[r].run.moves[s] - 1]
      BY <3>2, LevelledSame DEF On
    <3>3. \/ students'[s] = students[s]
          \/ On(s) /\ students'[s] = [students[s] EXCEPT !.level = request[r].run.moves[s] - 1]
      BY <2>1 DEF CommitUndo, MovesBack
    <3> QED
      BY <3>1, <3>2, <3>3
  <2> QED
    BY <2>2, <2>3, LoginsKept
<1>4. CASE \E s \in Students, row \in NewRow : CreateStudent(s, row)
  <2>1. PICK x \in Students, row \in NewRow : CreateStudent(x, row)
    BY <1>4
  <2>2. {x} \in SUBSET Students /\ [t \in {x} |-> row] \in [{x} -> NewRow]
    OBVIOUS
  <2>3. crossed' = crossed /\ students' = Registering([t \in {x} |-> row])
    BY <2>1 DEF CreateStudent
  <2> QED
    BY <2>2, <2>3, LoginsRegistered, LoginsKept
<1>5. CASE \E S \in SUBSET Students : \E rows \in [S -> NewRow] : UploadStudents(rows)
  <2>1. PICK S \in SUBSET Students : \E rows \in [S -> NewRow] : UploadStudents(rows)
    BY <1>5
  <2>2. PICK rows \in [S -> NewRow] : UploadStudents(rows)
    BY <2>1
  <2> DEFINE D == {t \in DOMAIN rows : students[t] = Unborn}
  <2>3. D \in SUBSET Students /\ NewRows(rows) \in [D -> NewRow]
    BY DEF NewRows
  <2>4. crossed' = crossed /\ students' = Registering(NewRows(rows))
    BY <2>2 DEF UploadStudents
  <2> QED
    BY <2>3, <2>4, LoginsRegistered, LoginsKept
<1>6. CASE \E s \in Students : DeleteStudent(s)
  <2>1. PICK x \in Students : DeleteStudent(x)
    BY <1>6
  <2>2. \A s \in Students : students'[s] \in Row => students'[s] = students[s]
    BY <1>0, <2>1, NoRowIsARow DEF DeleteStudent, TablesTyped
  <2>3. crossed' = crossed
    BY <2>1 DEF DeleteStudent, history
  <2> QED
    BY <2>2, <2>3, LoginsKept
<1>7. CASE UNCHANGED <<students, crossed>>
  BY <1>7, LoginsKept
<1>8. \/ \E r \in Requests : CommitWrite(r) \/ CommitPromote(r) \/ CommitUndo(r)
      \/ \E s \in Students, row \in NewRow : CreateStudent(s, row)
      \/ \E S \in SUBSET Students : \E rows \in [S -> NewRow] : UploadStudents(rows)
      \/ \E s \in Students : DeleteStudent(s)
      \/ UNCHANGED <<students, crossed>>
  <2>1. CASE \E r \in Requests : StudentStep(r)
    BY <2>1 DEF StudentStep, BeginStatus, BeginBulkStatus, SetStatus, BeginEdit, BeginPromote, BeginUndo,
       Ask, tables, history
  <2>2. CASE SemesterStep
    BY <2>2 DEF SemesterStep, CreateSemester, EditSemester, Saved, Activate, Prepare, Tick,
       BeginDeleteSemester, CommitDeleteSemester, Ask, tables, history
  <2>3. CASE \E d \in Departments, years \in ProgrammeYears : SetProgrammeYears(d, years)
    BY <2>3 DEF SetProgrammeYears, history
  <2>4. CASE UNCHANGED vars
    BY <2>4 DEF vars, tables, history
  <2> QED
    BY <2>1, <2>2, <2>3, <2>4 DEF Next
<1> QED
  BY <1>1, <1>2, <1>3, <1>4, <1>5, <1>6, <1>7, <1>8

\* A student signs in exactly while active: through edits, bulk changes,
\* promotions and undos, unless two changes of the status overlap.
THEOREM StudentLogins == Spec => []LoginFollowsStatus
<1>1. Init => LoginFollowsStatus
  <2> SUFFICES ASSUME Init, NEW s \in Roster PROVE students[s].login = (students[s].status = "active")
    BY DEF LoginFollowsStatus
  <2>1. s \in Students /\ students[s] \in Row
    BY DEF Roster, On
  <2>2. students[s] \in {Unborn} \cup
          {[level |-> l, status |-> "active", login |-> TRUE, dept |-> d] :
             l \in Levels \cup {BadLevel}, d \in Departments}
    BY <2>1 DEF Init
  <2>3. students[s].login = TRUE /\ students[s].status = "active"
    BY <2>1, <2>2, NoRowIsARow
  <2> QED
    BY <2>3
<1> QED
  BY <1>1, InitTyped, NextTyped, NextLogins, PTL DEF Spec

-----------------------------------------------------------------------------
(* The active semester *)

OneActive == \A x, y \in ActiveSemesters : x = y

ActiveRow(row) == row \in SemesterRow /\ row.active

LEMMA ActiveAre ==
  /\ \A x : x \in ActiveSemesters <=> x \in Semesters /\ ActiveRow(semesters[x])
  /\ \A x : x \in ActiveSemesters' <=> x \in Semesters /\ ActiveRow(semesters'[x])
  BY DEF ActiveSemesters, Known, ActiveRow

\* A step that makes nothing active but what was.
LEMMA NothingActivated ==
  ASSUME NEW s \in Semesters, \A x \in Semesters : ActiveRow(semesters'[x]) => ActiveRow(semesters[x])
  PROVE  ActiveSemesters' \subseteq ActiveSemesters
  BY ActiveAre

LEMMA ActivesAfterSave ==
  ASSUME TablesTyped, NEW x \in Semesters, NEW form \in Forms, Saved(x, form)
  PROVE  ActiveSemesters' = ActiveSemesters
<1> DEFINE on == x \in Known /\ semesters[x].active
<1>1. semesters' = [semesters EXCEPT ![x] = RowOf(form, on)]
  BY DEF Saved
<1>2. on \in BOOLEAN
  <2>1. x \in Known => semesters[x].active \in BOOLEAN
    BY DEF Known, SemesterRow
  <2> QED
    BY <2>1
<1>3. on <=> ActiveRow(semesters[x])
  BY DEF Known, ActiveRow
<1> HIDE DEF on
<1>4. RowOf(form, on) \in SemesterRow /\ RowOf(form, on).active = on
  BY <1>2, RowOfTyped DEF RowOf
<1>5. ActiveRow(semesters'[x]) <=> ActiveRow(semesters[x])
  BY <1>1, <1>3, <1>4 DEF TablesTyped, ActiveRow
<1>6. \A y \in Semesters \ {x} : semesters'[y] = semesters[y]
  BY <1>1 DEF TablesTyped
<1> QED
  BY <1>5, <1>6, ActiveAre

LEMMA ActivesAfterActivate ==
  ASSUME TablesTyped, NEW x \in Semesters, Activate(x)
  PROVE  ActiveSemesters' = {x}
<1>1. semesters' = Activated(x) /\ x \in Known
  BY DEF Activate
<1>2. \A y \in Semesters : ActiveRow(semesters'[y]) <=> y = x
  <2>1. ASSUME NEW y \in Known
        PROVE  ActiveRow(semesters'[y]) <=> y = x
    <3>1. semesters[y] \in SemesterRow /\ y \in Semesters
      BY DEF Known
    <3>2. semesters'[y] = [semesters[y] EXCEPT !.active = (y = x)]
      BY <1>1, <3>1 DEF Activated
    <3>3. semesters'[y] \in SemesterRow /\ semesters'[y].active = (y = x)
      BY <3>1, <3>2 DEF SemesterRow
    <3> QED
      BY <3>3 DEF ActiveRow
  <2>2. ASSUME NEW y \in Semesters, y \notin Known
        PROVE  ~ActiveRow(semesters'[y]) /\ y # x
    BY <1>1, <2>2 DEF Activated, Known, ActiveRow
  <2> QED
    BY <2>1, <2>2
<1> QED
  BY <1>2, ActiveAre

LEMMA ActivesAfterDelete ==
  ASSUME Typed, NEW r \in Requests, CommitDeleteSemester(r)
  PROVE  /\ ActiveSemesters' \subseteq ActiveSemesters
         /\ \/ ActiveSemesters' = ActiveSemesters
            \/ /\ request[r].op = "delete" /\ ~request[r].saw.active
               /\ request[r].sem \in ActiveSemesters
<1> DEFINE x == request[r].sem
<1>1. TablesTyped /\ RequestsTyped
  BY TypedParts
<1>2. request[r].op = "delete" /\ ~request[r].saw.active /\ x \in Semesters
  BY <1>1, JobOfOp DEF CommitDeleteSemester, RequestsTyped, DeleteChecked
<1>3. semesters' = semesters \/ semesters' = [semesters EXCEPT ![x] = NoSemester]
  BY DEF CommitDeleteSemester
<1>4. CASE semesters' = semesters
  BY <1>4, ActiveAre
<1>5. CASE semesters' = [semesters EXCEPT ![x] = NoSemester]
  <2>1. ~ActiveRow(semesters'[x]) /\ \A y \in Semesters \ {x} : semesters'[y] = semesters[y]
    BY <1>1, <1>2, <1>5, NoRowIsARow DEF TablesTyped, ActiveRow
  <2> QED
    BY <1>2, <2>1, ActiveAre
<1> QED
  BY <1>3, <1>4, <1>5

\* Which step does what to the active semester.
LEMMA ActivesAfter ==
  ASSUME Typed, [Next]_vars
  PROVE  \/ ActiveSemesters' = ActiveSemesters
         \/ \E x \in Semesters : ActiveSemesters' = {x}
         \/ /\ ActiveSemesters' \subseteq ActiveSemesters
            /\ \E r \in Requests : /\ request[r].op = "delete"
                                   /\ request[r].sem \in ActiveSemesters
                                   /\ ~request[r].saw.active
<1>1. TablesTyped
  BY TypedParts
<1>2. CASE \E x \in Semesters, form \in Forms : Saved(x, form)
  BY <1>1, <1>2, ActivesAfterSave
<1>3. CASE \E x \in Semesters : Activate(x)
  BY <1>1, <1>3, ActivesAfterActivate
<1>4. CASE \E r \in Requests : CommitDeleteSemester(r)
  BY <1>4, ActivesAfterDelete
<1>5. CASE UNCHANGED semesters
  BY <1>5, ActiveAre
<1>6. \/ \E x \in Semesters, form \in Forms : Saved(x, form)
      \/ \E x \in Semesters : Activate(x)
      \/ \E r \in Requests : CommitDeleteSemester(r)
      \/ UNCHANGED semesters
  <2>1. CASE \E r \in Requests : StudentStep(r)
    BY <2>1 DEF StudentStep, BeginStatus, BeginBulkStatus, SetStatus, BeginEdit, CommitWrite,
       BeginPromote, CommitPromote, BeginUndo, CommitUndo, Ask, tables
  <2>2. CASE SemesterStep
    BY <2>2 DEF SemesterStep, CreateSemester, EditSemester, Prepare, Tick, BeginDeleteSemester, Ask, tables
  <2>3. CASE \/ \E s \in Students, row \in NewRow : CreateStudent(s, row)
             \/ \E S \in SUBSET Students : \E rows \in [S -> NewRow] : UploadStudents(rows)
             \/ \E s \in Students : DeleteStudent(s)
             \/ \E d \in Departments, years \in ProgrammeYears : SetProgrammeYears(d, years)
    BY <2>3 DEF CreateStudent, UploadStudents, DeleteStudent, SetProgrammeYears
  <2>4. CASE UNCHANGED vars
    BY <2>4 DEF vars, tables
  <2> QED
    BY <2>1, <2>2, <2>3, <2>4 DEF Next
<1> QED
  BY <1>2, <1>3, <1>4, <1>5, <1>6

LEMMA InitOneActive == Init => OneActive
<1> SUFFICES ASSUME Init PROVE OneActive
  OBVIOUS
<1>1. PICK x \in Semesters, form \in Forms : semesters = OnlySemester(x, form)
  BY DEF Init
<1>2. \A y \in Semesters : y # x => ~ActiveRow(semesters[y])
  BY <1>1, NoRowIsARow DEF OnlySemester, ActiveRow
<1> QED
  BY <1>2, ActiveAre DEF OneActive

LEMMA NextOneActive ==
  ASSUME Typed, OneActive, [Next]_vars
  PROVE  OneActive'
  BY ActivesAfter DEF OneActive

\* Never two active semesters; and none only after a delete that was checked
\* before its semester was made active.
THEOREM OneSemesterIsActive == Spec => AlwaysOneSemester
<1>1. ASSUME Typed, OneActive, [Next]_vars
      PROVE  /\ \A x, y \in ActiveSemesters' : x = y
             /\ ActiveSemesters # {} =>
                  \/ ActiveSemesters' # {}
                  \/ \E r \in Requests : /\ request[r].op = "delete"
                                        /\ request[r].sem \in ActiveSemesters
                                        /\ ~request[r].saw.active
  BY <1>1, ActivesAfter, NextOneActive DEF OneActive
<1>2. Typed /\ OneActive /\ [Next]_vars =>
        [/\ \A x, y \in ActiveSemesters' : x = y
         /\ ActiveSemesters # {} =>
              \/ ActiveSemesters' # {}
              \/ \E r \in Requests : /\ request[r].op = "delete"
                                    /\ request[r].sem \in ActiveSemesters
                                    /\ ~request[r].saw.active]_vars
  BY <1>1
<1> QED
  BY <1>2, InitTyped, NextTyped, InitOneActive, NextOneActive, PTL DEF Spec, AlwaysOneSemester

-----------------------------------------------------------------------------
(* One plan *)

LEMMA PlanAgrees ==
  ASSUME TypeOK
  PROVE  PlanAgreesWithList
<1> SUFFICES ASSUME NEW excluded \in SUBSET Students
             PROVE  /\ DOMAIN PlanMoves(excluded) \cap PlanDue(excluded) = {}
                    /\ PlanOk(excluded) =>
                         ActiveStudents \ (DOMAIN PlanMoves(excluded) \cup PlanDue(excluded))
                           = BadLevels \cup excluded
                    /\ PlanDue(excluded) = DueToGraduate \ excluded
                    /\ \A s \in DOMAIN PlanMoves(excluded) :
                         PlanMoves(excluded)[s] <= FinalLevel(s)
  BY DEF PlanAgreesWithList
<1> DEFINE D == (Candidates(excluded) \ MissingYears(excluded)) \ PlanDue(excluded)
<1>1. DOMAIN PlanMoves(excluded) = D /\ \A s \in D : PlanMoves(excluded)[s] = students[s].level + 1
  BY DEF PlanMoves
<1>2. DOMAIN PlanMoves(excluded) \cap PlanDue(excluded) = {}
  BY <1>1
<1>3. PlanOk(excluded) =>
        ActiveStudents \ (DOMAIN PlanMoves(excluded) \cup PlanDue(excluded)) = BadLevels \cup excluded
  <2> SUFFICES ASSUME PlanOk(excluded)
               PROVE  ActiveStudents \ (D \cup PlanDue(excluded)) = BadLevels \cup excluded
    BY <1>1
  <2>1. MissingYears(excluded) = {} /\ excluded \subseteq ActiveStudents \ BadLevels
    BY DEF PlanOk
  <2>2. PlanDue(excluded) \subseteq Candidates(excluded)
    BY DEF PlanDue
  <2>3. BadLevels \subseteq ActiveStudents
    BY DEF BadLevels
  <2> QED
    BY <2>1, <2>2, <2>3 DEF Candidates
<1>4. PlanDue(excluded) = DueToGraduate \ excluded
  BY DEF PlanDue, DueToGraduate, Candidates, MissingYears, BadLevels
<1>5. ASSUME NEW s \in D
      PROVE  PlanMoves(excluded)[s] <= FinalLevel(s)
  <2>1. /\ s \in Students /\ students[s] \in Row /\ students[s].level \in Levels
        /\ FinalLevel(s) # 0 /\ ~(students[s].level >= FinalLevel(s))
    BY DEF Candidates, MissingYears, PlanDue, BadLevels, ActiveStudents, Roster, On
  <2>2. FinalLevel(s) \in ProgrammeYears
    BY <2>1 DEF TypeOK, FinalLevel, Row
  <2>3. students[s].level \in Nat /\ FinalLevel(s) \in Nat
    BY <2>1, <2>2, ChangeoverAssumption
  <2>4. students[s].level + 1 <= FinalLevel(s)
    BY <2>1, <2>3
  <2> QED
    BY <1>1, <2>4
<1> QED
  BY <1>1, <1>2, <1>3, <1>4, <1>5

LEMMA ChecklistAgrees ==
  ASSUME OneActive
  PROVE  ChecklistOffersPromotion
<1> SUFFICES ASSUME NEW x \in Known
             PROVE  (~StepDone(x, "promote") /\ ~StepBlocked(x, "promote"))
                      <=> (semesters[x].active /\ runs[CurrentYear] = NoRun)
  BY DEF ChecklistOffersPromotion
<1>1. StepDone(x, "promote") <=> runs[semesters[x].year] # NoRun
  BY DEF StepDone, Confirmed
<1>2. semesters[x].active => CurrentYear = semesters[x].year
  <2> SUFFICES ASSUME semesters[x].active PROVE CurrentYear = semesters[x].year
    OBVIOUS
  <2>1. x \in ActiveSemesters
    BY DEF ActiveSemesters
  <2>2. (CHOOSE y \in ActiveSemesters : TRUE) \in ActiveSemesters
    BY <2>1
  <2>3. (CHOOSE y \in ActiveSemesters : TRUE) = x
    BY <2>1, <2>2 DEF OneActive
  <2> QED
    BY <2>1, <2>3 DEF CurrentYear
<1> QED
  BY <1>1, <1>2 DEF StepBlocked

\* The promotion page, the graduation list and the checklist agree on who is
\* promoted and when, for every choice of repeaters.
THEOREM PromotionPlansAgree == Spec => []PromotionIsOnePlan
<1>1. Typed /\ OneActive => PromotionIsOnePlan
  BY PlanAgrees, ChecklistAgrees DEF PromotionIsOnePlan, Typed
<1> QED
  BY <1>1, InitTyped, NextTyped, InitOneActive, NextOneActive, PTL DEF Spec

-----------------------------------------------------------------------------
(* Levels *)

\* The promotions on record that list a student, and those up to an id.
Listing(s) == {y \in AcademicYears : runs[y] # NoRun /\ s \in DOMAIN runs[y].moves}
UpTo(s, n) == {y \in Listing(s) : runs[y].id <= n}

\* Every promotion has an id of its own and lists none who is not yet born.
RunsSound ==
  /\ \A y \in AcademicYears : runs[y] # NoRun =>
       /\ runs[y].id <= lastRun
       /\ \A s \in DOMAIN runs[y].moves : students[s] # Unborn
  /\ \A y, z \in AcademicYears :
       runs[y] # NoRun /\ runs[z] # NoRun /\ runs[y].id = runs[z].id => y = z

\* While no other promotion or undo came in between, what one has read still
\* holds: of the students it moves, and of the promotion it undoes.
JobStands(j) ==
  /\ j.op = "promote" =>
       \A s \in DOMAIN j.moves :
         /\ students[s] # Unborn
         /\ j.alone /\ s \in Roster \ edited => j.moves[s] = students[s].level + 1
  /\ j.op = "undo" /\ j.alone => runs[j.year] = j.run

PlansStand == \A r \in Requests : JobStands(request[r])

\* Each promotion moved a student to as many levels above its entry as there
\* were promotions on record that list it, itself included.
Ranked(s) ==
  /\ students[s].level = entry[s] + Cardinality(Listing(s))
  /\ \A y \in Listing(s) : runs[y].moves[s] = entry[s] + Cardinality(UpTo(s, runs[y].id))

Ledger == ~tangled => \A s \in Roster \ edited : Ranked(s)

LevelsInv == Typed /\ RunsSound /\ PlansStand /\ Ledger

LEMMA ListingFinite ==
  ASSUME TablesTyped, RunsSound, NEW s
  PROVE  /\ IsFiniteSet(Listing(s)) /\ Cardinality(Listing(s)) \in Nat
         /\ \A n : IsFiniteSet(UpTo(s, n)) /\ Cardinality(UpTo(s, n)) \in Nat
<1> DEFINE f == [y \in Listing(s) |-> runs[y].id]
<1>1. \A y \in Listing(s) : y \in AcademicYears /\ runs[y] # NoRun /\ runs[y].id \in 1..MaxRun
  BY DEF Listing, TablesTyped, Run
<1>2. f \in [Listing(s) -> 1..MaxRun]
  BY <1>1
<1>3. \A y, z \in Listing(s) : f[y] = f[z] => y = z
  BY <1>1 DEF RunsSound
<1> HIDE DEF f
<1>4. f \in Injection(Listing(s), 1..MaxRun)
  BY <1>2, <1>3, Fun_IsInj
<1>5. IsFiniteSet(1..MaxRun)
  <2>1. MaxRun \in Nat
    BY ChangeoverAssumption
  <2>2. MaxRun \in Int /\ 1 \in Int
    BY <2>1
  <2> QED
    BY <2>2, FS_Interval
<1>6. IsFiniteSet(Listing(s))
  BY <1>4, <1>5, FS_Injection
<1>7. \A n : UpTo(s, n) \in SUBSET Listing(s)
  BY DEF UpTo
<1>8. \A n : IsFiniteSet(UpTo(s, n))
  BY <1>6, <1>7, FS_Subset
<1> QED
  BY <1>6, <1>8, FS_CardinalityType

\* A step that records and undoes nothing, and that leaves the level of
\* everybody it leaves on the roster and did not edit: the students it adds
\* come in at their entry level.
LevelsLeft ==
  /\ UNCHANGED <<runs, lastRun, tangled>>
  /\ edited \subseteq edited'
  /\ \A s \in Students : students[s] # Unborn => students'[s] # Unborn
  /\ \A s \in Students : students'[s] \in Row /\ s \notin edited' =>
       \/ students[s] \in Row /\ students'[s].level = students[s].level /\ entry'[s] = entry[s]
       \/ students[s] = Unborn /\ students'[s].level = entry'[s]

LEMMA RunsSoundLeft ==
  ASSUME Typed, RunsSound, LevelsLeft
  PROVE  RunsSound'
<1>1. \A y \in AcademicYears : runs[y] # NoRun => DOMAIN runs[y].moves \subseteq Students
  BY DEF Typed, TypeOK, Run, Moves
<1> QED
  BY <1>1 DEF RunsSound, LevelsLeft

LEMMA LedgerLeft ==
  ASSUME Typed, RunsSound, Ledger, LevelsLeft
  PROVE  Ledger'
<1>1. TablesTyped
  BY TypedParts
<1> SUFFICES ASSUME ~tangled, NEW s \in Students, students'[s] \in Row, s \notin edited'
             PROVE  Ranked(s)'
  BY DEF Ledger, LevelsLeft, Roster, On
<1>2. /\ Listing(s)' = Listing(s)
      /\ \A n : UpTo(s, n)' = UpTo(s, n)
  BY DEF Listing, UpTo, LevelsLeft
<1>3. CASE students[s] \in Row /\ students'[s].level = students[s].level /\ entry'[s] = entry[s]
  <2>1. Ranked(s)
    BY <1>3 DEF Ledger, LevelsLeft, Roster, On
  <2> QED
    BY <1>2, <1>3, <2>1 DEF Ranked, LevelsLeft
<1>4. CASE students[s] = Unborn /\ students'[s].level = entry'[s]
  <2>1. Listing(s) = {}
    BY <1>4 DEF Listing, RunsSound
  <2>2. Cardinality(Listing(s)') = 0 /\ Listing(s)' = {}
    BY <1>2, <2>1, FS_EmptySet
  <2>3. students'[s].level \in Levels \cup {0}
    BY DEF Row, BadLevel
  <2>4. 0 \in Nat /\ \A l \in Levels : l \in Nat
    BY ChangeoverAssumption
  <2>5. students'[s].level \in Nat
    BY <2>3, <2>4
  <2> QED
    BY <1>4, <2>2, <2>5 DEF Ranked
<1> QED
  BY <1>3, <1>4 DEF LevelsLeft

LEMMA StandsLeft ==
  ASSUME Typed, LevelsLeft, NEW j, JobOK(j), JobStands(j)
  PROVE  JobStands(j)'
<1>1. ASSUME j.op = "promote", NEW s \in DOMAIN j.moves
      PROVE  /\ students'[s] # Unborn
             /\ j.alone /\ s \in Roster' \ edited' => j.moves[s] = students'[s].level + 1
  <2>1. s \in Students
    BY <1>1, JobOfOp DEF Moves
  <2> QED
    BY <1>1, <2>1 DEF JobStands, LevelsLeft, Roster, On
<1> QED
  BY <1>1 DEF JobStands, LevelsLeft

\* The requests of such a step: each goes on, ends, or is a new one that
\* stands.
LEMMA PlansLeft ==
  ASSUME Typed, LevelsLeft, PlansStand,
         \A r \in Requests :
           \/ request'[r] = request[r]
           \/ request'[r].op \notin {"promote", "undo"}
           \/ JobOK(request'[r]) /\ JobStands(request'[r])
  PROVE  PlansStand'
<1> SUFFICES ASSUME NEW r \in Requests, NEW j, j = request'[r]
             PROVE  JobStands(j)'
  BY DEF PlansStand, JobStands
<1>1. CASE j = request[r]
  BY <1>1, StandsLeft DEF PlansStand, Typed
<1>2. CASE j.op \notin {"promote", "undo"}
  BY <1>2 DEF JobStands
<1>3. CASE JobOK(j) /\ JobStands(j)
  BY <1>3, StandsLeft
<1> QED
  BY <1>1, <1>2, <1>3

LEMMA NobodyMoves ==
  ASSUME Typed, UNCHANGED <<students, runs, lastRun, tangled, entry, edited>>
  PROVE  LevelsLeft
  BY DEF LevelsLeft

LEMMA WriteLeaves ==
  ASSUME Typed, NEW r \in Requests, CommitWrite(r)
  PROVE  LevelsLeft
<1> DEFINE seen == request[r].seen
           want == request[r].want
           hit == DOMAIN want
<1>1. TablesTyped /\ RequestsTyped
  BY TypedParts
<1>2. WriteSound(request[r])
  BY <1>1, JobOfOp DEF RequestsTyped, CommitWrite
<1>3. PICK S \in SUBSET Students : seen \in [S -> Row] /\ want \in [S -> Row]
  BY <1>2 DEF WriteSound
<1>4. edited \subseteq edited' /\ UNCHANGED <<runs, lastRun, tangled, entry>>
  BY DEF CommitWrite
<1>5. CASE hit \subseteq Roster
  <2>1. students' = [s \in Students |->
          IF s \in hit THEN Written(students[s], seen[s], want[s]) ELSE students[s]]
    BY <1>5 DEF CommitWrite
  <2>2. edited' = edited \cup {s \in hit : want[s].level # seen[s].level}
    BY <1>5 DEF CommitWrite
  <2>3. ASSUME NEW s \in hit
        PROVE  /\ students[s] \in Row /\ students'[s] \in Row
               /\ s \notin edited' => students'[s].level = students[s].level
    <3>1. students[s] \in Row /\ seen[s] \in Row /\ want[s] \in Row /\ s \in Students
      BY <1>1, <1>3, <1>5, <2>3, RowsTyped
    <3>2. students'[s] = Written(students[s], seen[s], want[s])
      BY <2>1, <3>1
    <3>3. students'[s] \in Row
      BY <3>1, <3>2, WrittenTyped
    <3>4. want[s].level = seen[s].level => students'[s].level = students[s].level
      BY <3>2 DEF Written
    <3> QED
      BY <2>2, <3>1, <3>3, <3>4
  <2>4. \A s \in Students \ hit : students'[s] = students[s]
    BY <2>1
  <2> QED
    BY <1>4, <2>3, <2>4, NoRowIsARow DEF LevelsLeft
<1>6. CASE ~(hit \subseteq Roster)
  <2>1. UNCHANGED <<students, edited>>
    BY <1>6 DEF CommitWrite
  <2> QED
    BY <1>4, <2>1 DEF LevelsLeft
<1> QED
  BY <1>5, <1>6

LEMMA RegisteringLeaves ==
  ASSUME Typed, NEW S \in SUBSET Students, NEW rows \in [S -> NewRow],
         \A s \in S : students[s] = Unborn,
         students' = Registering(rows),
         \A s \in Students : entry'[s] = IF s \in S THEN rows[s].level ELSE entry[s],
         UNCHANGED <<runs, lastRun, tangled, edited>>
  PROVE  LevelsLeft
<1>1. ASSUME NEW s \in S
      PROVE  students[s] = Unborn /\ students'[s] # Unborn /\ students'[s].level = entry'[s]
  <2>1. students'[s] = [level |-> rows[s].level, status |-> "active", login |-> TRUE,
                        dept |-> rows[s].dept]
    BY DEF Registering
  <2>2. students'[s] \in Row
    BY <2>1 DEF NewRow, Row
  <2>3. students'[s].level = rows[s].level
    BY <2>1
  <2>4. entry'[s] = rows[s].level
    OBVIOUS
  <2> QED
    BY <2>2, <2>3, <2>4, NoRowIsARow
<1>2. \A s \in Students \ S : students'[s] = students[s] /\ entry'[s] = entry[s]
  BY DEF Registering
<1> QED
  BY <1>1, <1>2 DEF LevelsLeft

LEMMA CreateLeaves ==
  ASSUME Typed, NEW s \in Students, NEW row \in NewRow, CreateStudent(s, row)
  PROVE  LevelsLeft
<1> DEFINE rows == [t \in {s} |-> row]
<1>1. {s} \in SUBSET Students /\ rows \in [{s} -> NewRow] /\ rows[s] = row
  OBVIOUS
<1>2. students' = Registering(rows) /\ students[s] = Unborn
  BY DEF CreateStudent
<1>3. \A t \in Students : entry'[t] = IF t \in {s} THEN rows[t].level ELSE entry[t]
  BY <1>1 DEF CreateStudent, Typed, TypeOK
<1>4. UNCHANGED <<runs, lastRun, tangled, edited>>
  BY DEF CreateStudent
<1> HIDE DEF rows
<1> QED
  BY <1>1, <1>2, <1>3, <1>4, RegisteringLeaves

LEMMA UploadLeaves ==
  ASSUME Typed, NEW S \in SUBSET Students, NEW rows \in [S -> NewRow], UploadStudents(rows)
  PROVE  LevelsLeft
<1> DEFINE D == {t \in DOMAIN rows : students[t] = Unborn}
<1>1. D \in SUBSET Students /\ NewRows(rows) \in [D -> NewRow] /\ DOMAIN NewRows(rows) = D
  BY DEF NewRows
<1>2. \A s \in D : NewRows(rows)[s] = rows[s] /\ students[s] = Unborn
  BY DEF NewRows
<1>3. students' = Registering(NewRows(rows))
  BY DEF UploadStudents
<1>4. \A s \in Students : entry'[s] = IF s \in D THEN NewRows(rows)[s].level ELSE entry[s]
  BY <1>1, <1>2 DEF UploadStudents
<1>5. UNCHANGED <<runs, lastRun, tangled, edited>>
  BY DEF UploadStudents
<1> HIDE DEF D
<1> QED
  BY <1>1, <1>2, <1>3, <1>4, <1>5, RegisteringLeaves

LEMMA DeleteLeaves ==
  ASSUME Typed, NEW s \in Students, DeleteStudent(s)
  PROVE  LevelsLeft
<1>1. students' = [students EXCEPT ![s] = Gone] /\ UNCHANGED <<runs, lastRun, entry, edited, tangled>>
  BY DEF DeleteStudent, history
<1>2. students'[s] = Gone /\ \A t \in Students \ {s} : students'[t] = students[t]
  BY <1>1 DEF Typed, TypeOK
<1>3. Gone # Unborn
  BY DEF Gone, Unborn
<1> QED
  BY <1>1, <1>2, <1>3, NoRowIsARow DEF LevelsLeft

\* A new promotion moves exactly those it read, by one level.
LEMMA PromoteStands ==
  ASSUME Typed, NEW r \in Requests, NEW excluded \in SUBSET Students, BeginPromote(r, excluded)
  PROVE  JobOK(request'[r]) /\ JobStands(request'[r])
<1> DEFINE j == [op |-> "promote", year |-> CurrentYear, moves |-> PlanMoves(excluded), alone |-> TRUE]
<1>1. RequestsTyped /\ RequestsTyped'
  BY BeginPromoteTyped, TypedParts, TypedPartsNext
<1>2. request' = [request EXCEPT ![r] = j]
  BY DEF BeginPromote, Ask
<1>3. request'[r] = j
  BY <1>1, <1>2 DEF RequestsTyped
<1>4. \A s \in DOMAIN PlanMoves(excluded) :
        students[s] \in Row /\ PlanMoves(excluded)[s] = students[s].level + 1
  BY DEF PlanMoves, Candidates, ActiveStudents, Roster, On
<1>5. j.op = "promote" /\ j.moves = PlanMoves(excluded)
  OBVIOUS
<1> HIDE DEF j
<1>6. JobStands(j)
  BY <1>4, <1>5, NoRowIsARow DEF JobStands
<1> QED
  BY <1>1, <1>3, <1>6 DEF RequestsTyped

LEMMA UndoStands ==
  ASSUME Typed, NEW r \in Requests, NEW year \in AcademicYears, BeginUndo(r, year)
  PROVE  JobOK(request'[r]) /\ JobStands(request'[r])
<1> DEFINE j == [op |-> "undo", year |-> year, run |-> runs[year], alone |-> TRUE]
<1>1. RequestsTyped /\ RequestsTyped'
  BY BeginUndoTyped, TypedParts, TypedPartsNext
<1>2. request'[r] = j
  BY <1>1 DEF BeginUndo, Ask, RequestsTyped
<1>3. JobStands(j)
  BY DEF JobStands
<1> HIDE DEF j
<1> QED
  BY <1>1, <1>2, <1>3 DEF RequestsTyped

\* A promotion or undo that went through leaves the others alone no more.
LEMMA AnsweredStands ==
  ASSUME Typed, PlansStand, NEW r \in Requests, Answered(r),
         \A s \in Students : students[s] # Unborn => students'[s] # Unborn
  PROVE  PlansStand'
<1> SUFFICES ASSUME NEW q \in Requests, NEW j, j = request'[q]
             PROVE  JobStands(j)'
  BY DEF PlansStand, JobStands
<1>1. JobOK(request[q]) /\ JobStands(request[q])
  BY DEF Typed, PlansStand
<1>2. CASE q = r \/ request[q].op \notin {"promote", "undo"}
  <2>1. j.op \notin {"promote", "undo"}
    BY <1>2 DEF Answered, Idle
  <2> QED
    BY <2>1 DEF JobStands
<1>3. CASE q # r /\ request[q].op \in {"promote", "undo"}
  <2>1. j = [request[q] EXCEPT !.alone = FALSE]
    BY <1>3 DEF Answered
  <2>2. request[q] \in Job
    BY <1>1, <1>3, JobOfOp
  <2>3. /\ j.op = request[q].op /\ ~j.alone
        /\ j.op = "promote" => j.moves = request[q].moves
    BY <1>3, <2>1, <2>2 DEF Job
  <2>4. j.op = "promote" => \A s \in DOMAIN j.moves : s \in Students
    <3>1. j.op = "promote" => request[q].moves \in Moves
      BY <1>1, <2>3, JobOfOp
    <3> QED
      BY <2>3, <3>1, MoveOf
  <2>5. j.op = "promote" => \A s \in DOMAIN j.moves : students'[s] # Unborn
    BY <1>1, <2>3, <2>4 DEF JobStands
  <2> QED
    BY <2>3, <2>5 DEF JobStands
<1> QED
  BY <1>2, <1>3

LEMMA LevelsAreNumbers ==
  ASSUME TablesTyped, NEW s \in Students
  PROVE  /\ students[s] \in Row => students[s].level \in Nat
         /\ entry[s] \in Nat
<1>1. 0 \in Nat /\ \A l \in Levels : l \in Nat
  BY ChangeoverAssumption
<1>2. students[s] \in Row => students[s].level \in Levels \cup {0}
  BY DEF Row, BadLevel
<1>3. entry[s] \in Levels \cup {0}
  BY DEF TablesTyped, BadLevel
<1> QED
  BY <1>1, <1>2, <1>3

\* Another level is another level, and the same student.
LEMMA Levelled ==
  ASSUME NEW row \in Row, NEW level \in Levels
  PROVE  /\ [row EXCEPT !.level = level] \in Row
         /\ [row EXCEPT !.level = level].level = level
  BY DEF Row

LEMMA PromoteRecorded ==
  ASSUME LevelsInv, NEW r \in Requests, CommitPromote(r), MayRecord(request[r].year)
  PROVE  RunsSound' /\ PlansStand' /\ Ledger'
<1> DEFINE year == request[r].year
           moves == request[r].moves
           run == [id |-> lastRun + 1, moves |-> moves]
<1>1. TablesTyped /\ RequestsTyped /\ Typed
  BY TypedParts DEF LevelsInv
<1>2. year \in AcademicYears /\ moves \in Moves
  BY <1>1, JobOfOp DEF RequestsTyped, CommitPromote
<1>3. request[r].op = "promote" /\ JobStands(request[r])
  BY DEF LevelsInv, PlansStand, CommitPromote
<1>4. /\ lastRun' = lastRun + 1 /\ runs' = [runs EXCEPT ![year] = run]
      /\ Answered(r) /\ tangled' = (tangled \/ ~request[r].alone)
      /\ UNCHANGED <<entry, edited>>
  BY DEF CommitPromote
<1>5. lastRun \in Nat /\ lastRun + 1 \in 1..MaxRun
  <2>1. MaxRun \in Nat /\ lastRun \in 0..MaxRun /\ lastRun < MaxRun
    BY <1>1, ChangeoverAssumption DEF TablesTyped, MayRecord
  <2> QED
    BY <2>1
<1>6. run \in Run /\ run # NoRun
  BY <1>2, <1>5, NoRowIsARow DEF Run
<1>7. runs'[year] = run /\ \A y \in AcademicYears \ {year} : runs'[y] = runs[y]
  BY <1>1, <1>2, <1>4 DEF TablesTyped
<1>8. runs[year] = NoRun
  BY DEF MayRecord
<1>9. run.id = lastRun + 1 /\ run.moves = moves
  OBVIOUS
<1> HIDE DEF run
<1>10. ASSUME NEW s \in Students
       PROVE  /\ students'[s] \in Row => students[s] \in Row
              /\ students[s] # Unborn => students'[s] # Unborn
              /\ students[s] \in Row => students'[s].level =
                   IF s \in DOMAIN moves THEN moves[s] ELSE students[s].level
  <2>1. students'[s] = IF s \in DOMAIN moves /\ On(s) THEN [students[s] EXCEPT !.level = moves[s]]
                                                      ELSE students[s]
    BY DEF CommitPromote
  <2>2. s \in DOMAIN moves => moves[s] \in Levels
    BY <1>2, MoveOf
  <2>3. CASE s \in DOMAIN moves /\ students[s] \in Row
    <3>1. students'[s] = [students[s] EXCEPT !.level = moves[s]]
      BY <2>1, <2>3 DEF On
    <3>2. students'[s] \in Row /\ students'[s].level = moves[s]
      BY <2>2, <2>3, <3>1, Levelled
    <3> QED
      BY <2>3, <3>2, NoRowIsARow
  <2>4. CASE ~(s \in DOMAIN moves /\ students[s] \in Row)
    <3>1. students'[s] = students[s]
      BY <2>1, <2>4 DEF On
    <3> QED
      BY <2>4, <3>1
  <2> QED
    BY <2>3, <2>4
<1>11. RunsSound'
  <2>1. \A y \in AcademicYears \ {year} : runs[y] # NoRun =>
          runs[y].id \in 1..lastRun /\ DOMAIN runs[y].moves \subseteq Students
    BY <1>1, <1>5 DEF TablesTyped, Run, Moves, LevelsInv, RunsSound
  <2>2. ASSUME NEW y \in AcademicYears, runs'[y] # NoRun
        PROVE  runs'[y].id <= lastRun' /\ \A s \in DOMAIN runs'[y].moves : students'[s] # Unborn
    <3>1. CASE y = year
      <4>1. \A s \in DOMAIN moves : s \in Students /\ students[s] # Unborn
        BY <1>2, <1>3, MoveOf DEF JobStands
      <4> QED
        BY <1>4, <1>5, <1>7, <1>9, <1>10, <3>1, <4>1
    <3>2. CASE y # year
      <4>1. \A s \in DOMAIN runs[y].moves : s \in Students /\ students[s] # Unborn
        BY <1>7, <2>1, <2>2, <3>2 DEF LevelsInv, RunsSound
      <4> QED
        BY <1>4, <1>5, <1>7, <1>10, <2>1, <2>2, <3>2, <4>1
    <3> QED
      BY <3>1, <3>2
  <2>3. ASSUME NEW y \in AcademicYears, NEW z \in AcademicYears,
               runs'[y] # NoRun, runs'[z] # NoRun, runs'[y].id = runs'[z].id
        PROVE  y = z
    BY <1>5, <1>7, <1>9, <2>1, <2>3 DEF LevelsInv, RunsSound
  <2> QED
    BY <2>2, <2>3 DEF RunsSound
<1>12. PlansStand'
  BY <1>1, <1>4, <1>10, AnsweredStands DEF LevelsInv
<1>13. ASSUME ~tangled', NEW s \in Students, students'[s] \in Row, s \notin edited'
       PROVE  Ranked(s)'
  <2>1. ~tangled /\ request[r].alone /\ students[s] \in Row /\ s \notin edited
    BY <1>4, <1>10, <1>13
  <2>2. Ranked(s)
    BY <2>1 DEF LevelsInv, Ledger, Roster, On
  <2>3. students[s].level \in Nat /\ entry[s] \in Nat
    BY <1>1, <2>1, LevelsAreNumbers
  <2>4. IsFiniteSet(Listing(s)) /\ Cardinality(Listing(s)) \in Nat
    BY <1>1, ListingFinite DEF LevelsInv
  <2>5. \A y \in Listing(s) : /\ y \in AcademicYears /\ y # year /\ runs'[y] = runs[y]
                              /\ runs[y] # NoRun /\ runs[y].id \in 1..lastRun
    <3>1. \A y \in Listing(s) : y \in AcademicYears /\ y # year /\ runs[y] # NoRun
      BY <1>8 DEF Listing
    <3> QED
      BY <1>1, <1>5, <1>7, <3>1 DEF TablesTyped, Run, LevelsInv, RunsSound
  <2>6. Listing(s)' = IF s \in DOMAIN moves THEN Listing(s) \cup {year} ELSE Listing(s)
    BY <1>2, <1>6, <1>7, <1>8, <1>9 DEF Listing
  <2>7. ASSUME NEW y \in Listing(s)
        PROVE  UpTo(s, runs[y].id)' = UpTo(s, runs[y].id)
    <3>1. runs[y].id \in 1..lastRun
      BY <2>5
    <3>2. UpTo(s, runs[y].id)' = {z \in Listing(s)' : runs'[z].id <= runs[y].id}
      BY <1>13, <2>5 DEF UpTo
    <3>3. year \in Listing(s)' => ~(runs'[year].id <= runs[y].id)
      BY <1>5, <1>7, <1>9, <3>1
    <3> QED
      BY <2>5, <2>6, <3>2, <3>3 DEF UpTo
  <2>8. CASE s \notin DOMAIN moves
    <3>1. students'[s].level = students[s].level /\ entry'[s] = entry[s]
      BY <1>4, <1>10, <2>1, <2>8
    <3> QED
      BY <2>2, <2>5, <2>6, <2>7, <2>8, <3>1 DEF Ranked
  <2>9. CASE s \in DOMAIN moves
    <3>1. moves[s] = students[s].level + 1
      BY <1>3, <2>1, <2>9 DEF JobStands, Roster, On
    <3>2. students'[s].level = students[s].level + 1 /\ entry'[s] = entry[s]
      BY <1>4, <1>10, <2>1, <2>9, <3>1
    <3>3. Cardinality(Listing(s)') = Cardinality(Listing(s)) + 1
      BY <2>4, <2>5, <2>6, <2>9, FS_AddElement
    <3>4. students'[s].level = entry'[s] + Cardinality(Listing(s)')
      BY <2>2, <2>3, <2>4, <3>2, <3>3 DEF Ranked
    <3>5. UpTo(s, lastRun)' = Listing(s)'
      <4>1. \A y \in Listing(s)' : runs'[y].id <= lastRun + 1
        BY <1>5, <1>7, <1>9, <2>5, <2>6
      <4> QED
        BY <1>4, <4>1 DEF UpTo
    <3>6. runs'[year].moves[s] = entry'[s] + Cardinality(UpTo(s, lastRun)')
      BY <1>7, <1>9, <3>1, <3>2, <3>4, <3>5
    <3>7. ASSUME NEW y \in Listing(s)
          PROVE  runs'[y].moves[s] = entry'[s] + Cardinality(UpTo(s, runs[y].id)')
      BY <2>2, <2>5, <2>7, <3>2 DEF Ranked
    <3>8. ASSUME NEW y \in Listing(s)'
          PROVE  runs'[y].moves[s] = entry'[s] + Cardinality(UpTo(s, runs[y].id))'
      <4>1. CASE y = year
        <5>1. runs'[y].id = lastRun + 1
          BY <1>7, <1>9, <4>1
        <5>2. UpTo(s, runs[y].id)' = UpTo(s, lastRun)'
          BY <1>4, <5>1 DEF UpTo, Listing
        <5> QED
          BY <3>6, <4>1, <5>2
      <4>2. CASE y \in Listing(s)
        <5>1. runs'[y].id = runs[y].id
          BY <2>5, <4>2
        <5> QED
          BY <3>7, <4>2, <5>1 DEF UpTo
      <4> QED
        BY <2>6, <2>9, <4>1, <4>2
    <3> QED
      BY <3>4, <3>8 DEF Ranked
  <2> QED
    BY <2>8, <2>9
<1> QED
  BY <1>11, <1>12, <1>13 DEF Ledger, Roster, On

LEMMA UndoRecorded ==
  ASSUME LevelsInv, NEW r \in Requests, CommitUndo(r)
  PROVE  RunsSound' /\ PlansStand' /\ Ledger'
<1> DEFINE year == request[r].year
           run == request[r].run
<1>1. TablesTyped /\ RequestsTyped /\ Typed
  BY TypedParts DEF LevelsInv
<1>2. year \in AcademicYears /\ run \in Run
  BY <1>1, JobOfOp DEF RequestsTyped, CommitUndo
<1>3. request[r].op = "undo" /\ JobStands(request[r])
  BY DEF LevelsInv, PlansStand, CommitUndo
<1>4. /\ runs' = RunDeleted(year, run) /\ Answered(r)
      /\ tangled' = (tangled \/ ~request[r].alone \/ Buried(run))
      /\ UNCHANGED <<lastRun, entry, edited>>
  BY DEF CommitUndo
<1>5. \A y \in AcademicYears : runs'[y] # NoRun => runs[y] # NoRun /\ runs'[y] = runs[y]
  BY <1>1, <1>2, <1>4 DEF RunDeleted, TablesTyped
<1>6. ASSUME NEW s \in Students
      PROVE  /\ students'[s] \in Row => students[s] \in Row
             /\ students[s] # Unborn => students'[s] # Unborn
             /\ students[s] \in Row => students'[s].level =
                  IF MovesBack(s, run) THEN run.moves[s] - 1 ELSE students[s].level
  <2>1. students'[s] = IF MovesBack(s, run) THEN [students[s] EXCEPT !.level = run.moves[s] - 1]
                                            ELSE students[s]
    BY DEF CommitUndo
  <2>2. CASE MovesBack(s, run)
    <3>1. run.moves \in Moves /\ s \in DOMAIN run.moves /\ students[s] \in Row
      BY <1>2, <2>2 DEF Run, MovesBack, On
    <3>2. run.moves[s] - 1 \in Levels
      BY <3>1, MoveOf
    <3>3. students'[s] \in Row /\ students'[s].level = run.moves[s] - 1
      BY <2>1, <2>2, <3>1, <3>2, Levelled
    <3> QED
      BY <2>2, <3>1, <3>3, NoRowIsARow
  <2>3. CASE ~MovesBack(s, run)
    BY <2>1, <2>3
  <2> QED
    BY <2>2, <2>3
<1>7. RunsSound'
  <2>1. ASSUME NEW y \in AcademicYears, runs'[y] # NoRun
        PROVE  runs'[y].id <= lastRun' /\ \A s \in DOMAIN runs'[y].moves : students'[s] # Unborn
    <3>1. runs[y] # NoRun /\ runs'[y] = runs[y]
      BY <1>5, <2>1
    <3>2. runs[y].moves \in Moves
      BY <1>1, <3>1 DEF TablesTyped, Run
    <3>3. \A s \in DOMAIN runs[y].moves : s \in Students /\ students[s] # Unborn
      BY <3>1, <3>2, MoveOf DEF LevelsInv, RunsSound
    <3> QED
      BY <1>4, <1>6, <3>1, <3>3 DEF LevelsInv, RunsSound
  <2>2. ASSUME NEW y \in AcademicYears, NEW z \in AcademicYears,
               runs'[y] # NoRun, runs'[z] # NoRun, runs'[y].id = runs'[z].id
        PROVE  y = z
    BY <1>5, <2>2 DEF LevelsInv, RunsSound
  <2> QED
    BY <2>1, <2>2 DEF RunsSound
<1>8. PlansStand'
  BY <1>1, <1>4, <1>6, AnsweredStands DEF LevelsInv
<1>9. ASSUME ~tangled', NEW s \in Students, students'[s] \in Row, s \notin edited'
      PROVE  Ranked(s)'
  <2>1. ~tangled /\ request[r].alone /\ ~Buried(run) /\ students[s] \in Row /\ s \notin edited
    BY <1>4, <1>6, <1>9
  <2>2. Ranked(s)
    BY <2>1 DEF LevelsInv, Ledger, Roster, On
  <2>3. students[s].level \in Nat /\ entry[s] \in Nat
    BY <1>1, <2>1, LevelsAreNumbers
  <2>4. IsFiniteSet(Listing(s)) /\ Cardinality(Listing(s)) \in Nat
    BY <1>1, ListingFinite DEF LevelsInv
  <2>5. runs[year] = run /\ run # NoRun
    BY <1>2, <1>3, <2>1, NoRowIsARow DEF JobStands
  <2>6. runs'[year] = NoRun /\ \A y \in AcademicYears \ {year} : runs'[y] = runs[y]
    <3>1. runs' = [runs EXCEPT ![year] = NoRun]
      BY <1>4, <2>5 DEF RunDeleted
    <3> QED
      BY <1>1, <1>2, <3>1 DEF TablesTyped
  <2>7. Listing(s)' = Listing(s) \ {year}
    BY <2>6 DEF Listing
  <2>8. \A y \in Listing(s) : /\ y \in AcademicYears /\ runs[y] # NoRun /\ runs[y].id \in Nat
                              /\ y # year => runs[y].id # run.id
    <3>1. \A y \in Listing(s) : y \in AcademicYears /\ runs[y] # NoRun
      BY DEF Listing
    <3>2. \A y \in Listing(s) : y # year => runs[y].id # run.id
      BY <1>2, <2>5, <3>1 DEF LevelsInv, RunsSound
    <3> QED
      BY <1>1, <3>1, <3>2 DEF TablesTyped, Run
  <2>9. run.id \in Nat
    BY <1>2 DEF Run
  <2>10. s \in DOMAIN run.moves => \A y \in Listing(s) : runs[y].id <= run.id
    <3> SUFFICES ASSUME s \in DOMAIN run.moves, NEW y \in Listing(s)
                 PROVE  ~(runs[y].id > run.id)
      BY <2>8, <2>9
    <3>1. s \in DOMAIN runs[y].moves \cap DOMAIN run.moves
      BY DEF Listing
    <3> QED
      BY <2>1, <2>8, <3>1 DEF Buried
  <2>11. ASSUME NEW y \in Listing(s), y # year
         PROVE  runs'[y] = runs[y] /\ UpTo(s, runs[y].id)' = UpTo(s, runs[y].id)
    <3>1. runs'[y] = runs[y]
      BY <2>6, <2>8, <2>11
    <3>2. UpTo(s, runs[y].id)' = {z \in Listing(s)' : runs'[z].id <= runs[y].id}
      BY <3>1 DEF UpTo
    <3>3. \A z \in Listing(s)' : runs'[z] = runs[z]
      BY <2>6, <2>7, <2>8
    <3>4. year \in Listing(s) => ~(run.id <= runs[y].id)
      <4>1. year \in Listing(s) => s \in DOMAIN run.moves
        BY <2>5 DEF Listing
      <4>2. year \in Listing(s) => runs[y].id <= run.id /\ runs[y].id # run.id
        BY <2>8, <2>10, <2>11, <4>1
      <4> QED
        BY <2>8, <2>9, <4>2
    <3>5. UpTo(s, runs[y].id) = {z \in Listing(s) \ {year} : runs[z].id <= runs[y].id}
      BY <2>5, <3>4 DEF UpTo
    <3> QED
      BY <2>7, <3>1, <3>2, <3>3, <3>5
  <2>12. \A y \in Listing(s)' : runs'[y].moves[s] = entry'[s] + Cardinality(UpTo(s, runs[y].id)')
    BY <1>4, <2>2, <2>7, <2>11 DEF Ranked
  <2>13. students'[s].level = entry'[s] + Cardinality(Listing(s)')
    <3>1. CASE s \in DOMAIN run.moves
      <4>1. year \in Listing(s)
        BY <1>2, <2>5, <3>1 DEF Listing
      <4>2. UpTo(s, run.id) = Listing(s)
        BY <2>10, <3>1 DEF UpTo
      <4>3. run.moves[s] = students[s].level
        BY <2>2, <2>5, <4>1, <4>2 DEF Ranked
      <4>4. MovesBack(s, run)
        BY <2>1, <3>1, <4>3 DEF MovesBack, On
      <4>5. Cardinality(Listing(s)') = Cardinality(Listing(s)) - 1
        BY <2>4, <2>7, <4>1, FS_RemoveElement
      <4>6. students'[s].level = students[s].level - 1
        BY <1>6, <2>1, <4>3, <4>4
      <4>7. students[s].level = entry[s] + Cardinality(Listing(s))
        BY <2>2 DEF Ranked
      <4> QED
        BY <1>4, <2>3, <2>4, <4>5, <4>6, <4>7
    <3>2. CASE s \notin DOMAIN run.moves
      <4>1. year \notin Listing(s)
        BY <2>5, <3>2 DEF Listing
      <4>2. Listing(s)' = Listing(s)
        BY <2>7, <4>1
      <4>3. students'[s].level = students[s].level
        BY <1>6, <2>1, <3>2 DEF MovesBack
      <4> QED
        BY <1>4, <2>2, <4>2, <4>3 DEF Ranked
    <3> QED
      BY <3>1, <3>2
  <2> QED
    BY <2>12, <2>13 DEF Ranked
<1> QED
  BY <1>7, <1>8, <1>9 DEF Ledger, Roster, On

LEMMA InitLevels == Init => LevelsInv
<1> SUFFICES ASSUME Init PROVE LevelsInv
  OBVIOUS
<1>1. Typed /\ TablesTyped
  BY InitTyped, TypedParts
<1>2. RunsSound
  BY DEF Init, RunsSound
<1>3. PlansStand
  BY DEF Init, PlansStand, JobStands, Idle
<1>4. ASSUME NEW s \in Roster
      PROVE  Ranked(s)
  <2>1. Listing(s) = {}
    BY DEF Init, Listing
  <2>2. Cardinality(Listing(s)) = 0
    BY <2>1, FS_EmptySet
  <2>3. students[s].level = entry[s] /\ s \in Students
    BY DEF Init, Roster
  <2>4. entry[s] \in Nat
    BY <1>1, <2>3, LevelsAreNumbers
  <2> QED
    BY <2>1, <2>2, <2>3, <2>4 DEF Ranked
<1> QED
  BY <1>1, <1>2, <1>3, <1>4 DEF LevelsInv, Ledger

\* The steps that leave the levels, and what they leave of the requests.
LEMMA StepLeaves ==
  ASSUME Typed, [Next]_vars,
         ~(\E r \in Requests : CommitPromote(r) /\ MayRecord(request[r].year)),
         ~(\E r \in Requests : CommitUndo(r))
  PROVE  LevelsLeft
<1>1. CASE \E r \in Requests : CommitWrite(r)
  BY <1>1, WriteLeaves
<1>2. CASE \E s \in Students, row \in NewRow : CreateStudent(s, row)
  BY <1>2, CreateLeaves
<1>3. CASE \E S \in SUBSET Students : \E rows \in [S -> NewRow] : UploadStudents(rows)
  BY <1>3, UploadLeaves
<1>4. CASE \E s \in Students : DeleteStudent(s)
  BY <1>4, DeleteLeaves
<1>5. CASE UNCHANGED <<students, runs, lastRun, tangled, entry, edited>>
  BY <1>5, NobodyMoves
<1>6. \/ \E r \in Requests : CommitWrite(r)
      \/ \E s \in Students, row \in NewRow : CreateStudent(s, row)
      \/ \E S \in SUBSET Students : \E rows \in [S -> NewRow] : UploadStudents(rows)
      \/ \E s \in Students : DeleteStudent(s)
      \/ UNCHANGED <<students, runs, lastRun, tangled, entry, edited>>
  <2>1. CASE \E r \in Requests : StudentStep(r)
    <3>1. PICK r \in Requests : StudentStep(r)
      BY <2>1
    <3>2. CASE CommitPromote(r)
      <4>1. ~MayRecord(request[r].year)
        BY <3>2
      <4>2. UNCHANGED <<students, runs, lastRun, tangled>>
        BY <3>2, <4>1 DEF CommitPromote
      <4> QED
        BY <3>2, <4>2 DEF CommitPromote
    <3>3. CASE ~CommitPromote(r) /\ ~CommitWrite(r)
      <4>1. ~CommitUndo(r)
        OBVIOUS
      <4>2. UNCHANGED <<students, runs, lastRun, tangled, entry, edited>>
        BY <3>1, <3>3, <4>1 DEF StudentStep, BeginStatus, BeginBulkStatus, SetStatus, BeginEdit,
           BeginPromote, BeginUndo, Ask, tables, history
      <4> QED
        BY <4>2
    <3> QED
      BY <3>2, <3>3
  <2>2. CASE SemesterStep
    BY <2>2 DEF SemesterStep, CreateSemester, EditSemester, Saved, Activate, Prepare, Tick,
       BeginDeleteSemester, CommitDeleteSemester, Ask, tables, history
  <2>3. CASE \E d \in Departments, years \in ProgrammeYears : SetProgrammeYears(d, years)
    BY <2>3 DEF SetProgrammeYears, history
  <2>4. CASE UNCHANGED vars
    BY <2>4 DEF vars, tables, history
  <2> QED
    BY <2>1, <2>2, <2>3, <2>4 DEF Next
<1> QED
  BY <1>1, <1>2, <1>3, <1>4, <1>5, <1>6

LEMMA StepPlans ==
  ASSUME Typed, [Next]_vars, NEW q \in Requests,
         ~(\E r \in Requests : CommitPromote(r) /\ MayRecord(request[r].year)),
         ~(\E r \in Requests : CommitUndo(r))
  PROVE  \/ request'[q] = request[q]
         \/ request'[q].op \notin {"promote", "undo"}
         \/ JobOK(request'[q]) /\ JobStands(request'[q])
<1> DEFINE Same == \A p \in Requests : request'[p] = request[p]
           Other(r) == \A p \in Requests \ {r} : request'[p] = request[p]
<1>0. RequestsTyped
  BY TypedParts
<1>1. CASE Same
  BY <1>1
<1>2. CASE \E r \in Requests : Other(r) /\ request'[r].op \notin {"promote", "undo"}
  BY <1>2
<1>3. CASE \E r \in Requests : Other(r) /\ JobOK(request'[r]) /\ JobStands(request'[r])
  BY <1>3
<1>4. ASSUME NEW r \in Requests, NEW j, Ask(r, j)
      PROVE  Other(r) /\ request'[r] = j
  BY <1>0, <1>4 DEF Ask, RequestsTyped
<1>5. \/ Same
      \/ \E r \in Requests : Other(r) /\ request'[r].op \notin {"promote", "undo"}
      \/ \E r \in Requests : Other(r) /\ JobOK(request'[r]) /\ JobStands(request'[r])
  <2>1. CASE \E r \in Requests : StudentStep(r)
    <3>1. PICK r \in Requests : StudentStep(r)
      BY <2>1
    <3>2. CASE \E excluded \in SUBSET Students : BeginPromote(r, excluded)
      BY <1>4, <3>2, PromoteStands DEF BeginPromote
    <3>3. CASE \E year \in AcademicYears : BeginUndo(r, year)
      BY <1>4, <3>3, UndoStands DEF BeginUndo
    <3>4. CASE request' = [request EXCEPT ![r] = Idle]
      BY <1>0, <3>4 DEF RequestsTyped, Idle
    <3>5. CASE \E j : j.op = "write" /\ Ask(r, j)
      BY <1>4, <3>5
    <3>6. ASSUME NEW picked, NEW status, SetStatus(r, picked, status)
          PROVE  \E j : j.op = "write" /\ Ask(r, j)
      BY <3>6 DEF SetStatus
    <3>7. ASSUME NEW s, NEW level, NEW d, BeginEdit(r, s, level, d)
          PROVE  \E j : j.op = "write" /\ Ask(r, j)
      BY <3>7 DEF BeginEdit
    <3>8. CommitPromote(r) \/ CommitWrite(r) => request' = [request EXCEPT ![r] = Idle]
      BY DEF CommitPromote, CommitWrite
    <3> QED
      BY <3>1, <3>2, <3>3, <3>4, <3>5, <3>6, <3>7, <3>8
      DEF StudentStep, BeginStatus, BeginBulkStatus
  <2>2. CASE \E r \in Requests, x \in Semesters : BeginDeleteSemester(r, x)
    <3>1. PICK r \in Requests, x \in Semesters : BeginDeleteSemester(r, x)
      BY <2>2
    <3>2. Ask(r, [op |-> "delete", sem |-> x, saw |-> semesters[x]])
      BY <3>1 DEF BeginDeleteSemester
    <3>3. Other(r) /\ request'[r].op = "delete"
      BY <1>4, <3>2
    <3> QED
      BY <3>3
  <2>3. CASE \E r \in Requests : CommitDeleteSemester(r)
    BY <1>0, <2>3 DEF CommitDeleteSemester, RequestsTyped, Idle
  <2>4. CASE UNCHANGED request
    BY <2>4
  <2>5. CASE SemesterStep
    <3>1. \/ \E r \in Requests, x \in Semesters : BeginDeleteSemester(r, x)
          \/ \E r \in Requests : CommitDeleteSemester(r)
          \/ UNCHANGED request
      BY <2>5 DEF SemesterStep, CreateSemester, EditSemester, Saved, Activate, Prepare, Tick
    <3> QED
      BY <2>2, <2>3, <2>4, <3>1
  <2>6. CASE \/ \E s \in Students, row \in NewRow : CreateStudent(s, row)
             \/ \E S \in SUBSET Students : \E rows \in [S -> NewRow] : UploadStudents(rows)
             \/ \E s \in Students : DeleteStudent(s)
             \/ \E d \in Departments, years \in ProgrammeYears : SetProgrammeYears(d, years)
             \/ UNCHANGED vars
    <3>1. UNCHANGED request
      BY <2>6 DEF CreateStudent, UploadStudents, DeleteStudent, SetProgrammeYears, vars
    <3> QED
      BY <2>4, <3>1
  <2> QED
    BY <2>1, <2>5, <2>6 DEF Next
<1> QED
  BY <1>1, <1>2, <1>3, <1>5

LEMMA NextLevels ==
  ASSUME LevelsInv, [Next]_vars
  PROVE  LevelsInv'
<1>1. Typed /\ Typed'
  BY NextTyped DEF LevelsInv
<1>2. CASE \E r \in Requests : CommitPromote(r) /\ MayRecord(request[r].year)
  BY <1>1, <1>2, PromoteRecorded DEF LevelsInv
<1>3. CASE \E r \in Requests : CommitUndo(r)
  BY <1>1, <1>3, UndoRecorded DEF LevelsInv
<1>4. CASE /\ ~(\E r \in Requests : CommitPromote(r) /\ MayRecord(request[r].year))
           /\ ~(\E r \in Requests : CommitUndo(r))
  <2>1. LevelsLeft
    BY <1>1, <1>4, StepLeaves
  <2>2. RunsSound' /\ Ledger'
    BY <1>1, <2>1, RunsSoundLeft, LedgerLeft DEF LevelsInv
  <2>3. \A q \in Requests :
          \/ request'[q] = request[q]
          \/ request'[q].op \notin {"promote", "undo"}
          \/ JobOK(request'[q]) /\ JobStands(request'[q])
    BY <1>1, <1>4, StepPlans
  <2>4. PlansStand'
    BY <1>1, <2>1, <2>3, PlansLeft DEF LevelsInv
  <2> QED
    BY <1>1, <2>2, <2>4 DEF LevelsInv
<1> QED
  BY <1>2, <1>3, <1>4

\* Whatever promotions, undos, repeaters, statuses, deletions and returns a
\* school goes through, and however its admins' requests overlap: a student
\* whose level nobody set by hand is as many levels above the one it came in
\* at as there are promotions on record that list it, unless promotions
\* overlapped or were undone out of order.
THEOREM LevelsAccountForPromotions == Spec => []LevelAccounts
<1>1. LevelsInv => LevelAccounts
  BY DEF LevelsInv, Ledger, Ranked, Listing, LevelAccounts
<1> QED
  BY <1>1, InitLevels, NextLevels, PTL DEF Spec
=============================================================================
