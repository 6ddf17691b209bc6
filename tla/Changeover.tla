----------------------------- MODULE Changeover -----------------------------
(***************************************************************************)
(* From one semester to the next: the Semesters page and its changeover    *)
(* checklist (changeover.py), the students' statuses and levels            *)
(* (people_status.py, record_edits.py) and the yearly promotion with its   *)
(* undo (promotion.py), as the admin pages of blueprints/admin.py run them. *)
(*                                                                         *)
(* A handler whose checks and commit can be separated by another admin's   *)
(* commit is two steps, Begin... and Commit...; the others are one.  A     *)
(* commit writes only the columns the handler changed since its reads, and *)
(* a statement that finds the row of an object gone rolls everything back. *)
(*                                                                         *)
(* Abstracted: names (a semester's academic year is a field), the phone    *)
(* binding and the sessions of an account (AccountSession), courses and    *)
(* timetables (what a semester already holds is a set).                    *)
(***************************************************************************)
EXTENDS Integers, FiniteSets

CONSTANTS
  Students, Departments, Semesters,
  Levels,          \* VALID_LEVELS, in hundreds
  ProgrammeYears,  \* PROGRAMME_YEARS
  OtherStatuses,   \* the statuses but "active"
  AcademicYears,
  Forms,           \* bound: year, start and end an admin gives a semester
  Requests,        \* request threads of the server
  MaxRun,          \* bound: promotions recorded
  MaxHand          \* bound: changes made by hand

ASSUME ChangeoverAssumption ==
  /\ Levels \subseteq Nat \ {0} /\ ProgrammeYears \subseteq Nat \ {0}
  /\ \A l \in Levels, n \in ProgrammeYears : l < n => l + 1 \in Levels
  /\ "active" \notin OtherStatuses
  /\ Forms \subseteq [year : AcademicYears \cup {"no year"}, start : Nat, end : Nat]
  /\ MaxRun \in Nat /\ MaxHand \in Nat

VARIABLES
  students,        \* table students, with users.is_active
  programme,       \* departments.programme_years; 0 is NULL
  semesters,       \* table semesters
  setup,           \* what the data of a semester confirms: steps of its checklist
  ticks,           \* table changeover_ticks
  runs,            \* table promotion_runs, by academic year
  lastRun,         \* AUTO_INCREMENT of promotion_runs
  request,         \* what each request thread has read and is about to commit
  hand,            \* changes made by hand so far
  entry,           \* history: the level a student was created at
  edited,          \* history: students whose level was set by hand
  crossed,         \* history: students two status changes of whom overlapped
  tangled          \* history: promotions overlapped, or were undone out of order

tables == <<students, programme, semesters, setup, ticks, runs, lastRun>>
history == <<entry, edited, crossed, tangled>>
vars == <<tables, request, hand, history>>

Unborn == [gone |-> FALSE]
Gone == [gone |-> TRUE]
NoSemester == [made |-> FALSE]
NoRun == [id |-> 0]
NoYear == "no year"
Idle == [op |-> "idle"]

BadLevel == 0
Manual == {"graduate", "intake"}
Confirmed == {"courses", "coordinators", "timetable"}

Row == [level : Levels \cup {BadLevel}, status : OtherStatuses \cup {"active"},
        login : BOOLEAN, dept : Departments]
SemesterRow == [year : AcademicYears \cup {NoYear}, start : Nat, end : Nat, active : BOOLEAN]
Raised == {l \in Levels : l - 1 \in Levels}
Moves == UNION {[S -> Raised] : S \in SUBSET Students}
Run == [id : 1..MaxRun, moves : Moves]

On(s) == students[s] \in Row
Roster == {s \in Students : On(s)}
Known == {x \in Semesters : semesters[x] \in SemesterRow}

-----------------------------------------------------------------------------
(* What the pages read *)

ActiveSemesters == {x \in Known : semesters[x].active}

\* The academic year of the active semester.
CurrentYear ==
  IF ActiveSemesters = {} THEN NoYear
  ELSE semesters[CHOOSE x \in ActiveSemesters : TRUE].year

ActiveStudents == {s \in Roster : students[s].status = "active"}
BadLevels == {s \in ActiveStudents : students[s].level \notin Levels}
FinalLevel(s) == programme[students[s].dept]

\* The active students a promotion has to place, the repeaters left out.
Candidates(excluded) == (ActiveStudents \ BadLevels) \ excluded
MissingYears(excluded) == {s \in Candidates(excluded) : FinalLevel(s) = 0}

\* Due only past the final level.
PlanDueLate(excluded) ==
  {s \in Candidates(excluded) \ MissingYears(excluded) : students[s].level > FinalLevel(s)}

\* PromotionPlan.due
PlanDue(excluded) ==
  {s \in Candidates(excluded) \ MissingYears(excluded) : students[s].level >= FinalLevel(s)}

\* PromotionPlan.moves
PlanMoves(excluded) ==
  [s \in (Candidates(excluded) \ MissingYears(excluded)) \ PlanDue(excluded)
     |-> students[s].level + 1]

\* PromotionPlan.ok, and every excluded matric number was met.
PlanOk(excluded) ==
  /\ MissingYears(excluded) = {}
  /\ excluded \subseteq ActiveStudents \ BadLevels

\* The "download the list" link beside the promotion, a query of its own.
DueToGraduate ==
  {s \in ActiveStudents :
     /\ FinalLevel(s) # 0
     /\ students[s].level \in Levels
     /\ students[s].level >= FinalLevel(s)}

\* semester_problem: the end after the start, no overlap with another.
SemesterProblem(x, start, end) ==
  \/ end <= start
  \/ \E y \in Known \ {x} : semesters[y].start <= end /\ semesters[y].end >= start

Before(x) == {y \in Known : semesters[y].start < semesters[x].start}
IsPrevious(y, x) == y \in Before(x) /\ \A z \in Before(x) : semesters[z].start <= semesters[y].start

\* is_new_year: the first semester of an academic year, but not of all.  A
\* semester before it whose name has no year is of another one.
IsNewYear(x) ==
  /\ semesters[x].year # NoYear
  /\ \E y \in Before(x) : IsPrevious(y, x) /\ semesters[y].year # semesters[x].year

\* The steps of a semester's checklist.
Steps(x) ==
  {"semester", "active"} \cup Confirmed
    \cup IF IsNewYear(x) THEN {"graduate", "promote", "intake"} ELSE {}

StepDone(x, step) ==
  CASE step = "semester" -> TRUE
    [] step \in Confirmed -> step \in setup[x]
    [] step = "active" -> semesters[x].active
    [] step = "promote" -> runs[semesters[x].year] # NoRun
    [] OTHER -> <<x, step>> \in ticks

\* Promotion waits for the semester to be active.
StepBlocked(x, step) ==
  step = "promote" /\ ~semesters[x].active /\ ~StepDone(x, step)

-----------------------------------------------------------------------------
(* State *)

Job ==
  [op : {"promote"}, year : AcademicYears, moves : Moves, alone : BOOLEAN]
    \cup [op : {"undo"}, year : AcademicYears, run : Run, alone : BOOLEAN]
    \cup [op : {"delete"}, sem : Semesters, saw : SemesterRow]

TypeOK ==
  /\ students \in [Students -> Row \cup {Unborn, Gone}]
  /\ programme \in [Departments -> ProgrammeYears \cup {0}]
  /\ semesters \in [Semesters -> SemesterRow \cup {NoSemester}]
  /\ setup \in [Semesters -> SUBSET Confirmed]
  /\ ticks \subseteq Semesters \X Manual
  /\ runs \in [AcademicYears -> Run \cup {NoRun}]
  /\ lastRun \in 0..MaxRun
  /\ \A r \in Requests :
       \/ request[r] = Idle
       \/ request[r].op # "write" /\ request[r] \in Job
       \/ /\ request[r].op = "write"
          /\ \E S \in SUBSET Students : request[r].seen \in [S -> Row] /\ request[r].want \in [S -> Row]
  /\ hand \in 0..MaxHand
  /\ entry \in [Students -> Levels \cup {BadLevel}]
  /\ edited \subseteq Students /\ crossed \subseteq Students
  /\ tangled \in BOOLEAN

\* The row a form makes.
RowOf(form, on) == [year |-> form.year, start |-> form.start, end |-> form.end, active |-> on]

OnlySemester(x, form) == [y \in Semesters |-> IF y = x THEN RowOf(form, TRUE) ELSE NoSemester]

\* A school at work: some students on the roster, one semester active.
Init ==
  /\ entry \in [Students -> Levels \cup {BadLevel}]
  /\ students \in [Students -> {Unborn} \cup
       {[level |-> l, status |-> "active", login |-> TRUE, dept |-> d] :
          l \in Levels \cup {BadLevel}, d \in Departments}]
  /\ \A s \in Roster : entry[s] = students[s].level
  /\ \A s \in Students \ Roster : entry[s] = BadLevel
  /\ programme \in [Departments -> ProgrammeYears \cup {0}]
  /\ \E x \in Semesters, form \in Forms :
       form.end > form.start /\ semesters = OnlySemester(x, form)
  /\ setup = [x \in Semesters |-> {}]
  /\ ticks = {}
  /\ runs = [y \in AcademicYears |-> NoRun]
  /\ lastRun = 0
  /\ request = [r \in Requests |-> Idle]
  /\ hand = 0
  /\ edited = {} /\ crossed = {} /\ tangled = FALSE

-----------------------------------------------------------------------------
(* Students *)

ByHand == hand < MaxHand /\ hand' = hand + 1

Registering(rows) ==
  [s \in Students |->
     IF s \in DOMAIN rows THEN [level |-> rows[s].level, status |-> "active",
                                login |-> TRUE, dept |-> rows[s].dept]
                          ELSE students[s]]

\* students_page, create.
CreateStudent(s, row) ==
  /\ students[s] = Unborn
  /\ students' = Registering([t \in {s} |-> row])
  /\ entry' = [entry EXCEPT ![s] = row.level]
  /\ ByHand
  /\ UNCHANGED <<programme, semesters, setup, ticks, runs, lastRun, request,
                 edited, crossed, tangled>>

\* plan_students: those already registered are skipped, not changed.
NewRows(rows) == [s \in {t \in DOMAIN rows : students[t] = Unborn} |-> rows[s]]

\* bulk_upload_confirm and apply_students, the file planned again at the
\* confirmation and saved in one transaction.
UploadStudents(rows) ==
  /\ DOMAIN NewRows(rows) # {}
  /\ students' = Registering(NewRows(rows))
  /\ entry' = [s \in Students |-> IF s \in DOMAIN NewRows(rows) THEN rows[s].level ELSE entry[s]]
  /\ ByHand
  /\ UNCHANGED <<programme, semesters, setup, ticks, runs, lastRun, request,
                 edited, crossed, tangled>>

\* A handler has read the rows seen and wants them to be want.
Ask(r, job) ==
  /\ request[r] = Idle
  /\ request' = [request EXCEPT ![r] = job]
  /\ UNCHANGED <<tables, history>>

\* _set_status of the rows that do not have the status yet.
SetStatus(r, picked, status) ==
  LET seen == [s \in {t \in picked : students[t].status # status} |-> students[s]] IN
  /\ DOMAIN seen # {}
  /\ ByHand
  /\ Ask(r, [op |-> "write", seen |-> seen,
             want |-> [s \in DOMAIN seen |->
               [seen[s] EXCEPT !.status = status, !.login = (status = "active")]]])

\* change_status
BeginStatus(r, s, status) == SetStatus(r, {s}, status)

\* bulk_status, confirmed: who of the file changes is worked out again.
BeginBulkStatus(r, file, status) == SetStatus(r, file \cap Roster, status)

\* edit_student
BeginEdit(r, s, level, d) ==
  LET want == [students[s] EXCEPT !.level = level, !.dept = d] IN
  /\ want # students[s]
  /\ ByHand
  /\ Ask(r, [op |-> "write", seen |-> [t \in {s} |-> students[t]], want |-> [t \in {s} |-> want]])

\* The status alone, as if the login were a matter for another page.
WrittenWithoutLogin(now, seen, want) ==
  [now EXCEPT !.level = want.level, !.status = want.status, !.dept = want.dept]

\* What one row becomes: only the columns the handler changed are written.
Written(now, seen, want) ==
  [level |-> IF want.level # seen.level THEN want.level ELSE now.level,
   status |-> IF want.status # seen.status THEN want.status ELSE now.status,
   login |-> IF want.login # seen.login THEN want.login ELSE now.login,
   dept |-> IF want.dept # seen.dept THEN want.dept ELSE now.dept]

CommitWrite(r) ==
  /\ request[r].op = "write"
  /\ LET seen == request[r].seen
         want == request[r].want
         hit == DOMAIN want
         standing(row) == <<row.status, row.login>>
     IN  IF hit \subseteq Roster
           THEN /\ students' = [s \in Students |->
                     IF s \in hit THEN Written(students[s], seen[s], want[s]) ELSE students[s]]
                /\ edited' = edited \cup {s \in hit : want[s].level # seen[s].level}
                /\ crossed' = crossed \cup
                     {s \in hit : standing(students[s]) # standing(seen[s])}
           ELSE UNCHANGED <<students, edited, crossed>>
  /\ request' = [request EXCEPT ![r] = Idle]
  /\ UNCHANGED <<programme, semesters, setup, ticks, runs, lastRun, hand, entry, tangled>>

\* delete_record of a student nothing happened to; a foreign key stops the
\* delete if something did meanwhile.
DeleteStudent(s) ==
  /\ On(s)
  /\ students' = [students EXCEPT ![s] = Gone]
  /\ ByHand
  /\ UNCHANGED <<programme, semesters, setup, ticks, runs, lastRun, request, history>>

\* organization_page, set_programme_years
SetProgrammeYears(d, years) ==
  /\ years # programme[d]
  /\ programme' = [programme EXCEPT ![d] = years]
  /\ ByHand
  /\ UNCHANGED <<students, semesters, setup, ticks, runs, lastRun, request, history>>

-----------------------------------------------------------------------------
(* Promotion *)

\* promotion_confirm up to its commit.  The page it comes from was for the
\* same year, or it is refused.
BeginPromote(r, excluded) ==
  /\ CurrentYear # NoYear
  /\ PlanOk(excluded)
  /\ runs[CurrentYear] = NoRun
  /\ Ask(r, [op |-> "promote", year |-> CurrentYear, moves |-> PlanMoves(excluded),
             alone |-> TRUE])
  /\ UNCHANGED hand

\* The other promotions and undos now under way did not see this one.
Answered(r) ==
  request' = [q \in Requests |->
    IF q = r THEN Idle
    ELSE IF request[q].op \in {"promote", "undo"} THEN [request[q] EXCEPT !.alone = FALSE]
    ELSE request[q]]

\* The unique constraint on promotion_runs.academic_year.
MayRecord(year) == lastRun < MaxRun /\ runs[year] = NoRun

\* apply_promotion: one UPDATE by id per level, the run stored beside it.
CommitPromote(r) ==
  /\ request[r].op = "promote"
  /\ LET year == request[r].year
         moves == request[r].moves
     IN  IF MayRecord(year)
           THEN /\ students' = [s \in Students |->
                     IF s \in DOMAIN moves /\ On(s) THEN [students[s] EXCEPT !.level = moves[s]]
                                                   ELSE students[s]]
                /\ lastRun' = lastRun + 1
                /\ runs' = [runs EXCEPT ![year] = [id |-> lastRun', moves |-> moves]]
                /\ tangled' = (tangled \/ ~request[r].alone)
                /\ Answered(r)
           ELSE /\ lastRun < MaxRun
                /\ request' = [request EXCEPT ![r] = Idle]
                /\ UNCHANGED <<students, lastRun, runs, tangled>>
  /\ UNCHANGED <<programme, semesters, setup, ticks, hand, entry, edited, crossed>>

\* promotion_undo up to its commit; the year posted is the page's.
BeginUndo(r, year) ==
  /\ runs[year] # NoRun
  /\ Ask(r, [op |-> "undo", year |-> year, run |-> runs[year], alone |-> TRUE])
  /\ UNCHANGED hand

\* undo_promotion: who is still at the level the run gave.
MovesBack(s, run) ==
  s \in DOMAIN run.moves /\ On(s) /\ students[s].level = run.moves[s]

\* A later run moved somebody of this one.
Buried(run) ==
  \E y \in AcademicYears :
    /\ runs[y] # NoRun
    /\ runs[y].id > run.id
    /\ DOMAIN runs[y].moves \cap DOMAIN run.moves # {}

\* Forgetting to take the run off the record.
RunKept(year, run) == runs

\* The run is deleted by its id: another one of that year stays.
RunDeleted(year, run) == IF runs[year].id = run.id THEN [runs EXCEPT ![year] = NoRun] ELSE runs

CommitUndo(r) ==
  /\ request[r].op = "undo"
  /\ LET run == request[r].run
         year == request[r].year
     IN  /\ students' = [s \in Students |->
              IF MovesBack(s, run) THEN [students[s] EXCEPT !.level = run.moves[s] - 1]
                                   ELSE students[s]]
         /\ runs' = RunDeleted(year, run)
         /\ tangled' = (tangled \/ ~request[r].alone \/ Buried(run))
  /\ Answered(r)
  /\ UNCHANGED <<programme, semesters, setup, ticks, lastRun, hand, entry, edited, crossed>>

-----------------------------------------------------------------------------
(* Semesters *)

\* What both forms check and write.
Saved(x, form) ==
  /\ ~SemesterProblem(x, form.start, form.end)
  /\ semesters' = [semesters EXCEPT ![x] = RowOf(form, x \in Known /\ semesters[x].active)]
  /\ semesters' # semesters
  /\ ByHand
  /\ UNCHANGED <<students, programme, setup, ticks, runs, lastRun, request, history>>

\* semesters_page, create: not active yet.
CreateSemester(x, form) == x \notin Known /\ Saved(x, form)

\* edit_semester
EditSemester(x, form) == x \in Known /\ Saved(x, form)

\* semesters_page, activate: every row off and this one on, in one
\* transaction whose UPDATE of all rows makes a second one wait.
Activated(x) ==
  [y \in Semesters |-> IF y \in Known THEN [semesters[y] EXCEPT !.active = (y = x)]
                                      ELSE semesters[y]]

Activate(x) ==
  /\ x \in Known
  /\ semesters' = Activated(x)
  /\ ByHand
  /\ UNCHANGED <<students, programme, setup, ticks, runs, lastRun, request, history>>

\* Courses and timetable of a semester come and go on other pages.
Prepare(x) ==
  /\ x \in Known
  /\ \E S \in SUBSET Confirmed :
       /\ ("coordinators" \in S \/ "timetable" \in S) => "courses" \in S
       /\ setup' = [setup EXCEPT ![x] = S]
       /\ setup' # setup
  /\ ByHand
  /\ UNCHANGED <<students, programme, semesters, ticks, runs, lastRun, request, history>>

\* What an active semester's delete was stopped by, had nobody asked.
UnusedSemester(x) == x \in Known /\ setup[x] = {}

\* delete_blockers: an inactive semester that holds nothing.
DeletableSemester(x) == x \in Known /\ ~semesters[x].active /\ setup[x] = {}

BeginDeleteSemester(r, x) ==
  /\ DeletableSemester(x)
  /\ ByHand
  /\ Ask(r, [op |-> "delete", sem |-> x, saw |-> semesters[x]])

\* The delete itself asks nothing again; foreign keys hold a semester that
\* has courses by now, and its ticks go with it.
CommitDeleteSemester(r) ==
  /\ request[r].op = "delete"
  /\ LET x == request[r].sem IN
       IF setup[x] = {}
         THEN /\ semesters' = [semesters EXCEPT ![x] = NoSemester]
              /\ ticks' = {t \in ticks : t[1] # x}
         ELSE UNCHANGED <<semesters, ticks>>
  /\ request' = [request EXCEPT ![r] = Idle]
  /\ UNCHANGED <<students, programme, setup, runs, lastRun, hand, history>>

\* tick, untick
Toggled(x, step) ==
  IF <<x, step>> \in ticks THEN ticks \ {<<x, step>>} ELSE ticks \cup {<<x, step>>}

\* changeover_tick
Tick(x, step) ==
  /\ x \in Known
  /\ ticks' = Toggled(x, step)
  /\ ByHand
  /\ UNCHANGED <<students, programme, semesters, setup, runs, lastRun, request, history>>

-----------------------------------------------------------------------------
StudentStep(r) ==
  \/ \E status \in OtherStatuses \cup {"active"} :
       \/ \E s \in Roster : BeginStatus(r, s, status)
       \/ \E file \in SUBSET Students : BeginBulkStatus(r, file, status)
  \/ \E s \in Roster, level \in Levels, d \in Departments : BeginEdit(r, s, level, d)
  \/ CommitWrite(r)
  \/ \E excluded \in SUBSET Students : BeginPromote(r, excluded)
  \/ CommitPromote(r)
  \/ \E year \in AcademicYears : BeginUndo(r, year)
  \/ CommitUndo(r)

SemesterStep ==
  \/ \E x \in Semesters, form \in Forms : CreateSemester(x, form) \/ EditSemester(x, form)
  \/ \E x \in Semesters : Activate(x) \/ Prepare(x) \/ \E step \in Manual : Tick(x, step)
  \/ \E r \in Requests :
       \/ \E x \in Semesters : BeginDeleteSemester(r, x)
       \/ CommitDeleteSemester(r)

NewRow == [level : Levels, dept : Departments]

Next ==
  \/ \E r \in Requests : StudentStep(r)
  \/ \E s \in Students, row \in NewRow : CreateStudent(s, row)
  \/ \E S \in SUBSET Students : \E rows \in [S -> NewRow] : UploadStudents(rows)
  \/ \E s \in Students : DeleteStudent(s)
  \/ \E d \in Departments, years \in ProgrammeYears : SetProgrammeYears(d, years)
  \/ SemesterStep

Spec == Init /\ [][Next]_vars

-----------------------------------------------------------------------------
(* Properties *)

\* A student whose level nobody set by hand is as many levels above the one
\* it was created at as there are promotions on record that list it, over
\* any sequence of promotions, undos, repeaters, statuses, semesters and
\* deletes -- as long as promotions are undone in the order opposite to
\* theirs and no two overlap (PromotionRun, "so the run can be undone
\* exactly").
LevelAccounts ==
  ~tangled =>
    \A s \in Roster \ edited :
      students[s].level =
        entry[s] + Cardinality({y \in AcademicYears :
                                  runs[y] # NoRun /\ s \in DOMAIN runs[y].moves})

\* A student signs in exactly while the status is active (_switch_login):
\* except after two overlapping changes of that student's status, the second
\* of which writes the status but not a login it had read as already so.
LoginFollowsStatus ==
  \A s \in Roster \ crossed : students[s].login = (students[s].status = "active")

\* Never two active semesters, which no constraint of the table prevents
\* (Semester.is_active), and once there is an active semester there is one for good: the only way to
\* none is a delete that was already past its check when the semester it is
\* for was made active (delete_blockers).
AlwaysOneSemester ==
  [][/\ \A x, y \in ActiveSemesters' : x = y
     /\ ActiveSemesters # {} =>
          \/ ActiveSemesters' # {}
          \/ \E r \in Requests : /\ request[r].op = "delete"
                                /\ request[r].sem \in ActiveSemesters
                                /\ ~request[r].saw.active]_vars

\* The promotion page and the graduation list, two queries written apart,
\* agree for every choice of repeaters: each active student is moved, due,
\* excluded, or reported, exactly once; the due are on the list; and nobody
\* is moved past the programme's final level (plan_promotion,
\* due_to_graduate).
PlanAgreesWithList ==
  \A excluded \in SUBSET Students :
    LET moved == DOMAIN PlanMoves(excluded)
        due == PlanDue(excluded)
    IN  /\ moved \cap due = {}
        /\ PlanOk(excluded) => ActiveStudents \ (moved \cup due) = BadLevels \cup excluded
        /\ due = DueToGraduate \ excluded
        /\ \A s \in moved : PlanMoves(excluded)[s] <= FinalLevel(s)

\* Of all checklists only the active semester's ever offers the promotion,
\* and it does exactly while the promotion page would run it, however
\* semesters were renamed, redated, deleted and promotions undone meanwhile
\* (changeover.checklist, apply_promotion).
ChecklistOffersPromotion ==
  \A x \in Known :
    "promote" \in Steps(x) =>
      ((~StepDone(x, "promote") /\ ~StepBlocked(x, "promote"))
         <=> (semesters[x].active /\ runs[CurrentYear] = NoRun))

\* Whoever works out a promotion, or whether one is due, finds the same
\* (promotion.py, changeover.py).
PromotionIsOnePlan == PlanAgreesWithList /\ ChecklistOffersPromotion
=============================================================================
