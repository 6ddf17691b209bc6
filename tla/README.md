# SUAAMS: TLA+ models, checks and proofs

SUAAMS records class attendance at a university. A student's phone emulates an
NFC card (or scans for a Bluetooth code), a terminal in the lecture room reads
it and relays it, and a Flask server on MySQL keeps the register that lecturers
review. Around that register the server keeps who studies, teaches and heads a
department, the semesters and their promotions, and the timetable; web pages and
the app show figures computed from all of it. This directory holds TLA+ modules
of that system, TLC configurations that check them, and theorems about them that
TLAPS proves.

Paths below are relative to `src/`. `PROJECT.json` maps each definition to the
lines it models.

## 1. Inventory

| Component | Where | State it keeps | Operations | Module |
|---|---|---|---|---|
| Class sessions | `SUAAMS/utils.py`, `api/lecturer.py`, `app.py` | `sessions`: course, date, `is_active` | start, end, sweep of leftovers | ClassSession |
| Check-in | `SUAAMS/api/student.py`, `beacon.py`, `ble_beacon.py` | `attendance`, `enrollments`, `notifications`; stateless signed tokens | mint, NFC submit, BLE submit, register/drop course | CheckIn, AttendanceRegister |
| Hand marks and offline review | `SUAAMS/utils.py` | `attendance`, `offline_checkin_logs` | mark present, accept, reject, accept all | CheckIn |
| Backlog sync | `SUAAMS/api/student.py` | `offline_checkin_logs` | file a batch of taps read offline | CheckIn, TapJourney |
| Terminal rooms | `SUAAMS/terminal_rooms.py` | `terminals`, `ROOM_CHECK` setting | authenticate a reader, room verdict | CheckIn |
| Accounts and devices | `SUAAMS/api/auth.py`, `people_status.py`, `blueprints/admin.py`; `SUAAMS_Mobile/.../auth` | `users`, `students.device_id`, refresh token id; the phone's token pair | login, bind, refresh, logout, unbind, switch off | AccountSession |
| Students, semesters, promotion | `SUAAMS/promotion.py`, `changeover.py`, `people_status.py`, `blueprints/admin.py` | `students`, `semesters`, `promotion_runs`, `changeover_ticks` | create, edit, status, delete; activate; promote, undo; checklist | Changeover |
| Staff and courses | `SUAAMS/blueprints/admin.py`, `people_status.py`, `record_edits.py`, `bulk_upload.py` | `lecturers`, `hods`, `users.role`, `courses`, `course_lecturers` | create, upload, status, promote to HOD, move, remove, delete; course lecturers; course copy | StaffRoster |
| Timetable | `SUAAMS/timetable_publish.py`, `timetable_import.py`, `blueprints/admin.py` | drafts and published slots, `sessions.timetable_id`, what people were told | edit by hand, import, copy last year, save, publish, notify | Timetable |
| Attendance rules and pages | `SUAAMS/utils.py`, `analytics.py`, `dashboard_today.py`, `terminal_status.py`, `api/*`, `blueprints/*` | none of their own | figures, boards and lists over the tables above | ClassRecord, AttendanceFigures, TodayBoard, LecturerScreens |
| Terminal reader | `ESP32_ARDUINO CODE/SUAAMS_HCE/SUAAMS_HCE.ino` | backlog queue in flash; last token, Wi-Fi slot and clock in RAM | read a tap, post it, keep it, flush the backlog, reconnect | TerminalReader, WifiSelect |
| Phone: card emulation | `SUAAMS_Mobile/.../SuaamsHceService.kt` | the beacon being served, its expiry, "tapped" flag | serve, expire, clear | TerminalReader |
| Phone: check-in flow | `SUAAMS_Mobile/suaams/lib/features/student/providers/nfc_provider.dart` | the state of the sheet, timers, polls | mint, serve, poll, time out, retry | not modelled |

How they interact. The phone asks the server to *mint* a 10-second token bound
to (student, session). The terminal reads the token off the emulated card and
posts it; when there is no answer it keeps the token in flash and uploads it
later as *backlog*, which the server only files for the lecturer to review.
Lecturers start and end sessions, mark by hand and review offline taps.
Admins change people, courses, semesters and the timetable from web forms, two
of them at a time if they like. All server handlers share one database and run
on several threads of several processes; the server sets no isolation level, so
MySQL's REPEATABLE READ applies.

What is hard: requests that read, then commit on what they read; a commit that
writes only the columns its handler changed, over whatever came between; the
same tap arriving live, late, twice or from two readers; answers lost on the way
back; classes left open over midnight; power cuts on the terminal; promotions
undone out of order; a preview confirmed after the tables have changed; notices
that overtake each other; and one number computed by many different queries.
`PROJECT.json` lists these hazards at the lines where they bite.

## 2. Modules

### ClassSession
State: `sessions` (the table, by auto-increment id), `today` (the campus date),
`asking` (the start or end request each lecturer has in flight). `Ask` is the
account check made before each request, where MySQL takes the transaction's
snapshot. `FinishStart` and `FinishEnd` are the rest of the handlers, one step
because the course row is locked from `_lock_owned_course` to the commit.
`FailRequest` is any exception, `Sweep` is `close_stale_sessions`, `NewDay` is
midnight. A request's `seen` is what its plain SELECTs return after the lock
(`SeenRunning`): the snapshot, not what the request before it committed.

### CheckIn (extends ClassSession)
The five ways a row reaches the register. Each handler reads in one action
(`SubmitNfc`, `SubmitBle`, `MarkPresent`, `AcceptTap`, `RejectTap`, `SyncTap`)
that leaves in `job[w]` the write thread `w` will commit, and commits in another
(`CommitInsert`, `CommitAccept`, `CommitSettle`, `CommitFile`), where the unique
keys of `attendance` and `offline_checkin_logs` are checked. Between the two
anything may happen. `AcceptAll`/`NextInBatch` are the accept-all loop,
`SendNotification` the notice after the commit, `Abort` an exception or the
death of the thread. `Tick` moves the clock and may cross midnight.

### AttendanceRegister
The abstract promise: one row per (student, session), recorded once and never
replaced; at most one notice, after the row. `CheckIn` implements it
(`RefinesRegister`), mapping `register` to the attendance table and `notices` to
the stored notifications; every other step of `CheckIn` is a stutter.

### TerminalReader
State: `pc` (where the one sequential loop of the sketch is), `cur` (the capture
in hand), `last` (`lastSubmittedToken`/`lastSubmittedAt`), `ram` and `flash`
(`g_backlog` and its saved copy), `synced` (the clock was set), and the phones'
codes in `phone`. `ReadTap` is the read and the same-code check at the end of
`loop`; `QueueOffline`, `StartPost`, `PostNoConnection`, `PostNoAnswer` and
`PostAnswered` are the branches of `submitBeaconToken` by HTTP code; `Enqueue`
is `appendToBacklog`, `Save` is `saveBacklog`; `SendChunk`, `FlushAnswered` and
`FlushNoAnswer` are `flushBacklog`. `PowerCut` may come between any two of them
and restarts with what flash holds. Histories (`told`, `dropped`, `lost`,
`captured`) record what the server answered for, what a full queue dropped, what
was in RAM only when power went, and every capture saved.

### TapJourney (extends TerminalReader)
Each reader step that sends something also moves the server: `waiting` are live
requests the reader no longer waits for, `checked` those `submit_checkin_beacon`
found valid but has not committed, `uploads` the captures the server has yet to
file, each with its verdict once it was looked up and with whether the reader
still waits (`awaited`), `filed` the status `sync_offline_checkin_backlog` gave
each. `ServerChecks` and `ServerCommits`, `ServerLooksUp` and `ServerFiles` are
the reads and the commit of the two handlers and run at any later time, so a
chunk sent again meets its first copy between the two. It answers what neither
side can see alone: what slow mints, the read time, a late commit and a repeated
upload do to a tap, and whether what the reader lets go of is at the server. It
has one student and no lecturer; CheckIn has the same handlers with everybody
else who writes their tables.

### WifiSelect
State: the variables of `wifiStep`/`noteServerReply` (`phase`, `candidates`,
`current`, `ready`, `strikes`, `skippedAt`), a `millis()` that wraps (`ms`), and
the Wi-Fi driver (`dialling`, `link`), a second actor that goes on with what it
was last told. `StartScan`, `ScanDone`, `ScanFailed`, `GiveUpJoin`, `NoticeLink`
are the branches of `wifiStep`; `Answered` and `NoAnswer` are
`noteServerReply(true/false)`; `JoinNext` is `wifiJoinNext`.

### AccountSession
State: the columns that matter of `users` and `students` (`active`, `bound`,
`jti`), the server's threads (`job`), what each phone is signed in with
(`session`) and whether anybody ended that (`entitled`). A phone's request goes
through its reads (`LoginReads`, `RequestReads`), for a student's login the
binding (`LoginBinds`), its commit (`CommitPair`, `CommitLogout`, `CommitFails`)
and its answer (`GetAnswer`); the phone may give up before that (`GiveUp`).
`AdminReads`/`AdminCommits` are switching an account on or off, a student's
leaving, an unbind and a password reset. A commit writes the columns the handler
changed since its reads, as SQLAlchemy does, over whatever came between.

### Changeover
State: `students` (level, status, login, department), `semesters`, `setup` (what
a semester's data confirms), `ticks`, `runs` (one promotion per academic year),
`request` (what each admin's handler has read). `BeginStatus`, `BeginBulkStatus`
and `BeginEdit` lead to one `CommitWrite`, because all three end in the same
UPDATE of the columns that differ from what was read; `BeginPromote`/
`CommitPromote` and `BeginUndo`/`CommitUndo` are `apply_promotion` and
`undo_promotion` with the unique key of `promotion_runs`; `BeginDeleteSemester`/
`CommitDeleteSemester` are the blockers and the delete. `Activate` is one step:
its UPDATE of the others is a single statement. `PlanMoves`, `PlanDue`,
`DueToGraduate`, `Steps` are the pure functions of `promotion.py` and
`changeover.py` as operators.

### StaffRoster
State: `lecturers`, `heads`, `login`, `courses`, `recorded` (logins that something
names, which a delete must not orphan), `request`. Each form is a `Begin...` that
holds the handler's checks and leaves a job, and a `Commit...` that says what the
database lets through: a row gone, a link already there or a key taken rolls
everything back. `Managed` is `_manage_course_lecturer`, `RoleAfterHod` is what
`remove_hod` makes of the login. A copy of courses takes three steps: `BeginCopy`
builds the preview, `ConfirmCopy` is `bulk_upload_confirm` as far as the second
run of `plan_courses` (`PlanOk`), and `CommitCopy` saves what it found, against
nothing but the keys (`PlanTrusted`).

### Timetable
State: `slots` (rows by id, a deleted one is `Gone`), `sessions` with the slot
each is filed under, `teachers`, `registered`, `told` (the schedule of a course
each person was last told), `request`. A request reads and checks, commits, then
tells: three steps. `FitsStored` is `_check_clashes`, `Reissued` the carrying over
of sessions in `publish_drafts`, `Changed` whom `notify_schedule_changes` finds
affected. `CommitDelete` detaches the sessions its read found (`filed`); one filed
since then holds the row by its foreign key. `PutOn`, `TakeOff`, `Register` and
`Drop` are what `_manage_course_lecturer`, `register_course` and `drop_course` do
to the people of a course, with no look at the timetable and no notice; how two
changes of lecturers race is StaffRoster's.

### ClassRecord, AttendanceFigures, TodayBoard, LecturerScreens
ClassRecord is the tables the pages read, one write per step. The other three
hold the pages: each query is an operator written as the code writes it, so the
ways to count attendance (`RegisterRow`, `AnalyticsRow`, `MyRow`,
`CourseFigure`, the eligibility list, the HOD's and the admin's pages), the
ways to find "the class that is on" (mint, Today, board, grid, door) and the
lists of who is present stand side by side. A property equates two of
them, or says exactly where they differ.

### Proof modules
`CheckInProofs` holds the theorems about ClassSession and CheckIn,
`TapJourneyProofs` those about TerminalReader and TapJourney,
`AttendanceViewsProofs` those about the records and the pages;
`WifiSelectProofs`, `AccountSessionProofs`, `ChangeoverProofs`,
`StaffRosterProofs` and `TimetableProofs` are about the module each is named after.

### Histories
Some variables record what happened rather than what the code stores. A property
that is false after two particular handlers overlapped names that case through
one of them instead of leaving the overlap out of the model:

| History | Module | Set when |
|---|---|---|
| `refused` | TapJourney | the server answered for a tap with anything but success |
| `alone` (of a request), `crossed` | ClassSession | no Start of its course committed since the request began; a session was started by a request for which that is false |
| `told`, `dropped`, `lost`, `captured` | TerminalReader | a capture is answered for, pushed out of a full queue, lost with RAM, saved |
| `overlapped` | AccountSession | two requests about one account are at work at once |
| `disturbed` | AccountSession | an answer was lost or a commit failed |
| `entitled` | AccountSession | a phone's session was not ended by its user, an admin or a newer login |
| `entry`, `edited` | Changeover | the level a student was created at; a level was set by hand |
| `crossed` | Changeover | a change of a student's status committed over one it had not read |
| `tangled` | Changeover | two promotions overlapped, or one was undone after a later one moved the same students |
| `raced` | StaffRoster | a request committed about people, departments or courses that another had changed since its reads; for a copy, since the reads of its confirmation |
| `raced` | Timetable | a request wrote courses, or told people of them, after another one had committed since it began |
| `allowed` | StaffRoster | a running course was given to, or extended for, a lecturer who has left or is leaving: no check stands there |
| `stripped` | Timetable | a draft was moved or removed by hand before its publishing |
| `missed` | Timetable | the notice of a change was lost (the process died, or telling failed) |
| `strained` | Timetable | two classes that overlap got a lecturer in common when one was put on a course; a hand edit of either, which is checked, takes the pair off |
| `joined` | Timetable | a person came to a course after the last notice about it |

## 3. Runs

A tick, a day, a token number and a session id are small natural numbers; names
are model values. Every bound is a CONSTANT named in its module.

| Run | Instance | What it shows |
|---|---|---|
| ClassSession_overlaps | 2 courses, 2 requests, 3 sessions, 2 midnights | a course has two running sessions only if two Starts overlapped; an End closes all of them, but for one started while it was under way; an ended class stays ended; a class left open is closed after midnight |
| ClassSession_two_starts | 1 course, 2 requests | **violation**: two Starts make two running sessions |
| CheckIn_races | 1 student, 1 course, 2 sessions, 2 request threads, rooms enforced | register and review log agree; credit is earned; settled taps stay settled; the abstract register is implemented |
| CheckIn_reject_race | 1 student, 1 session, 2 threads | **violation**: a rejected tap with an attendance row |
| TerminalReader_queue | 2 codes, queue of 2, chunks of 1, 3 captures, 1 power cut | nothing vanishes, saved captures stay, the queue is the newest in order, a resting phone is sent once, the queue drains |
| TapJourney_server | 1 code, mints of up to 10 s, 1 capture saved, 2 power cuts | a genuine tap is filed late only by a slow mint; every tap read arrives at the server, was refused there, or is accounted for |
| WifiSelect_strikes | 2 networks, 3 strikes, late joins, a wrapping clock | strikes go to the right network or none; none is set aside early; a dead one joined in time is left. Deadlock is checked |
| AccountSession_races | 2 students, 2 phones, 2 threads, 2 tokens, an admin step, lost answers, failing commits | one account per phone always; off means revoked, only the current token rotates and an account moves only by an unbind, where requests about it do not overlap; only ended sessions end, where no answer is lost |
| Changeover_years | 1 student, 2 semesters, 2 levels, 2 academic years, 2 admins, 2 promotions, 3 changes by hand | levels account for the promotions on record; a login follows the status; promotion page, graduation list and checklist agree; never two active semesters |
| StaffRoster_races | 2 people, 2 departments, 2 courses, 2 admins, 5 requests | logins, roles and the HOD list agree; courses are taught by those who may; nobody loses a class by a new coordinator; a copy starts with active lecturers, but for one who leaves while it is being saved |
| Timetable_term | 2 courses, 2 lecturers, 1 student, 1 room, 2 hours, 2 admins, 3 requests (a change of lecturers or registrations is one), 1 class held, 1 midnight | nothing published twice at one time, but by the cases named; the last notice is what is published for those who were there; nobody is told twice; publishing keeps the history of a class |
| AttendanceViews_agree | 2 students, 2 courses (one of no semester), 2 semesters, 2 rooms, 4 slots, 2 sessions, 2 hours | every page that shows a figure, a class or a list shows the register's |

Why the bounds are enough to meet the cases. Two threads are what a race on one
row takes, and every race here is about one row: one (student, session) key, one
account, one course, one person, one semester. Three sessions let a course have
a stale one, a running one and a new one. Three captures overflow a queue of
two, with chunks of one the queue takes several flushes, and four ticks run past
the end of a code (two) and of the same-code window (three). In TapJourney a
tick is 2.5 s, so the code (10 s), the lag limit (15 s), the window (15 s) and
the app's wait for a mint (10 s) keep their real proportions, and eight ticks
hold a mint that takes all of its wait and a read in the last tick of its code.
One capture is enough for its uploads to race. Wrap is a few ticks above Skip so the counter wraps
often. Two levels and one programme length give a student who can be moved once
and is then due to graduate; two academic years give a promotion, its undo, and
one on top. Two people and two departments are enough for a promotion, a move
and a removal to meet; five requests let two of them overlap after two others
set the scene. One room and two hours force clashes. In AttendanceViews the four
slots of the weekday put a draft beside a published class of the same hour, two
courses in one room at once, and a course that meets twice a day; a threshold of
50 per cent with two classes puts a student exactly on it. The instances of
TapJourney, Changeover, StaffRoster, Timetable and the pages are no more than
that because the theorems about them hold for every size: AttendanceViews, for
one, has a single course in a department, and it is `FiguresAlwaysAgree` that
covers departments of several. Histories and bounded counters
(`MaxReads`, `MaxTokens`, `MaxToken`, `MaxAdmin`, `MaxClock`, `MaxRun`,
`MaxHand`, `MaxBegun`, `MaxStarted`) only stop new work. `CHECK_DEADLOCK FALSE`
is set where a bounded instance, or an idle system, may stop: all but
WifiSelect, whose loop and clock never do. Symmetry is used only where the run
has no liveness property.

### Fairness
- ClassSession: `WF(Sweep)`. The sweep runs before requests of every kind
  (`app.py`), so it runs as long as anybody uses the system. Nothing forces a
  lecturer to press End or a day to pass.
- TerminalReader: `WF` on the steps of the loop, which never waits for anything
  but its own timeouts. `SF(SendChunk)` and `SF(FlushAnswered)` are assumptions
  about the environment: the field is empty, the link comes back and uploads get
  some answer, again and again. Without an answer nothing can drain.
- WifiSelect: `WF(WifiStep)` because the loop calls it each turn, and
  `WF(Answered \/ NoAnswer)` because a ready link is pinged periodically.
- The other modules have no liveness properties and no fairness: an admin who
  never presses a button breaks no promise.

## 4. Proofs

TLAPS checks these for every value of the constants that meets the modules'
assumptions, which TLC evaluates in each run.

**CheckInProofs, class sessions.** `SessionTypeCorrect`; `EndedIsForever`;
`DuplicatesAreCrossed`; `EndsCloseAll`. The last two rest on `SnapshotsHold`: what
runs of a course is in the snapshot of every request about it that no Start has
overtaken, because behind its back sessions only end. A Start that nobody
overtook therefore refuses, or ends, everything that runs; and ids grow
(`IdsInOrder`), so of two sessions that run the newer one is to blame.

**CheckInProofs, the register.** The inductive invariant is `TypeOK /\ TablesAgree /\ JobsSafe`.
`TablesAgree` collects the safety properties of the tables. They are not
inductive: a thread that read before another one's commit writes afterwards.
`JobsSafe` says what each pending write may rely on then: the token it was made
for was minted, its room mark was not refused, a tap it will accept or settle is
on file and not a replay. Jobs stay safe because the tables only grow
(`TablesGrow`). From it: `TypeCorrect`, `ReviewAgreement`, `ReplaysNeverCredited`,
`TapsAreGenuine`, `EnforceHolds`, `CreditsAreEarned`, `SettledIsSettled`.
`Refinement` shows that every step of CheckIn is a step of AttendanceRegister or
a stutter; its extra invariant, `OwedOnce`, is that a row is owed a notice by one
thread at most, and only if none was stored.

**TapJourneyProofs, the reader.** The inductive invariant adds four facts to the
properties: away from a save, flash is what RAM holds (`LoopAgrees`); the queue
in RAM is the end of what was captured, the capture about to be saved included
(`QueuesInOrder`); what left RAM before the save was answered for or dropped
(`Accounted`); a code is shown for at most `Ttl` and was on show when last read
(`CodeEnds`). The properties alone are not inductive: without `Accounted`, `Save`
could overwrite flash with a queue that lost a capture. `HeldPhoneOnce` assumes
`Ttl <= Window`, which the constants of the code meet (10 s, 15 s). Lemmas about
suffixes (`SuffixAppend`, `SuffixTail`, `SuffixSubSeq`) carry the order through
overflow and flush.

**TapJourneyProofs, the journey** builds on it: the reader's steps keep the reader's
invariant, by its lemmas. `LateTapsHadSlowMints` is carried by `ReadsInTime`:
whatever the reader holds, in the hand, in RAM, in flash or on its way, was read
while its code was shown, which the time in a queue does not change; so a read
past the lag limit had a deadline past it (`LateMeansSlow`), and that is true of
a verdict before it is committed (`VerdictsFair`). `TapsAlwaysArrive` joins the
reader's `NothingVanishes` with `ToldArrived` (a tap answered for is credited, on
file or refused). What makes that inductive is `ChunkUnderWay`: while the reader
waits for the answer to a chunk, each capture of it is on file or is being worked
on by the request it waits for, so a 200, which comes after the last record,
finds them all on file, whoever won the unique key. Neither needs a bound on the
delays: where mints take no longer than `MaxLag - Ttl`, no tap is late.

**WifiSelectProofs.** The step that endangers `NamesAreRight` is a join that
succeeds late; `NamedRight` therefore says of what the driver still dials what the
property says of the link. `SetAsideIsEarned` rests on `StrikesEarned`: the
sketch never counts more strikes than requests went unanswered on this link.

**AccountSessionProofs.** `PhonesAreNotShared` needs types only: the commit checks
the key. `OffIsRevoked`, `RotationsAreCurrent` and `MovesAreUnbinds` rest on
`Serial`: an account not in `overlapped` has one request at work on it at most
(`OneByOne`), and what that one read is still in the table (`ReadsHold`). Each
step says what it may touch (`Footprint`), so one lemma carries `Serial` past
all of them. `SessionsEndByIntent` (nobody is signed out unless somebody ended
that session) needs two more facts: a refresh token is in the hands of one phone
(`TokensApart`), and while nothing was lost and no requests overlapped a session
nobody ended is `Current`: its phone holds the token that counts, or an answer
with it is on the way. It assumes that `NoPhone` is no phone (`NoPhoneAssumption`).

**ChangeoverProofs.** `OneSemesterIsActive` is carried by `OneActive`, two active
semesters are the same one: only `Activate` and the first semester make one
active, and both put out the others; only the commit of a delete can take it
away, which is the case the property names. `StudentLogins` needs of a pending
write only what its handler checked (`WriteSound`): a write that leaves a login
alone wants the status it saw, unless another status came in between, and that
student is in `crossed`. `PromotionPlansAgree` goes through the sets of the two
queries for an arbitrary set of repeaters and needs `OneActive`, because
the checklist asks a semester and the page asks the current year.
`ChangeoverTypes` includes that an undo never makes a level the school does not
have. `LevelsAccountForPromotions` keeps the years a student was moved in as a
set: a promotion adds its year, which had no run, and an undo removes it
(`Ledger`). Of each promotion on record, the level it gave a student is the entry
level and the promotions up to it, so undoing the latest gives back the one
before; that the run an undo read is still there when it commits is `PlansStand`,
and an undo out of order is what `tangled` names.

**StaffRosterProofs.** The invariant is `TypeOK /\ Logins /\ Teaching /\ JobsSafe`.
`JobsSafe` has three layers: what a job says of itself (`JobSound`); what no
other request can take from it (`JobStands`: a login once there stays known, so
does a course); and, while nobody committed about the same things (`alone`),
that what was read still holds (`JobFresh`). The lemma `JobsCarry` does the
bookkeeping once for all commits. `LoginsAlwaysAgree` counts heads of a
department with the finite-set library; `NobodyEverLosesAClass` uses that a
`JobFresh` change saw the coordinator it replaces. `CopiesAreAlwaysTaught` uses
`StillActive`, the part of `JobFresh` about copies: the lecturers a confirmation
found active stay so, or are deleted, unless a change of one overtakes it; a
deleted one fails the commit's key.

**TimetableProofs.** The invariant is `IInv`. `AllApart`: two rows that clash are
a draft and the published class it is to replace, or of courses in `raced` or
`stripped`, or a pair in `strained`; without it nothing would hold of the drafts a
publication puts up, which it does not check again. A change of lecturers keeps it
because every clash it makes is a pair it puts in `strained` (`StrainingIs`), and
it overtakes every request that has checked with the lecturers of before.
`ReadsAllHold`: a request nobody overtook commits on rows that are still there,
unchanged. `AllAreTold` and `NoticesStand`: of a
course without a pending notice people know the schedule, and a pending notice
starts from what they were told and ends at what is published; a person who came
since the last notice is in `joined`.
`SessionsHaveTheirClass` is inductive with the types. From it:
`NothingIsDoubleBooked`, `LastWordStands`, `NobodyHearsItTwice`,
`SessionsKeepTheirClass`, `PublicationsShowTheDrafts`. The proof of
`LastWordStands` found that `raced` missed a case four requests are needed for: a
request overtaken between its commit and its notice tells people last of a
schedule that is no longer published. The history now marks a course when an
overtaken request tells of it, too.

`HistoryIsKept` needs one more: times are in order, and two rows of a course that
share an hour are a published class and a draft (`OrderedRows`, `OnePerHour`,
together `TermInv`). The classes due and held of a course are numbers of pairs of
a class and a date. A publication gives each class the one draft of its day and
time, that draft takes over its first day and its sessions, and so the pairs
before and after are renamed one to one (`PairsRenamed`); any other step leaves
the pairs alone. Without `OnePerHour` two drafts could claim one class.
Assumptions: last year's timetable and each imported sheet are finite, last
year's classes end after they start, and a course has a coordinator
(`models.py:290`, not NULL).

**AttendanceViewsProofs.** The invariant is `RecordTypeOK /\ LastRuns /\ FiledRight`:
of the classes of a course only the newest can run, and a class is filed under a
slot of its own course. `TheTapIsOnTheList`, `TheBoardIsTheDay` and
`TheLecturerSeesTheClass` go from there, query by query. `PercentagesFallAtTheEnd`
is that attended / held cannot fall while both may only grow together.
`FiguresAlwaysAgree` relates sums over students, sums over classes and sums over
courses. The folds of the code's loops are turned into the number of marks in a
finite heap of columns (`FoldIsSum`), of which monotonicity, linearity and the
exchange of the two orders of counting (`SumOfFibres`) are lemmas; what the pages
make of them by rounding is settled by integer inequalities (`PointsAgainstTenths`,
`MeanAgainstWhole`, `TenthsBetween`). Assumptions: finitely many students and
courses, a slot ends after it starts, and no two published slots of a course,
semester and hour. The proof found that `RateWithinTheReport` was false of a
department with several courses: see the pages in section 6. The condition
it now states was checked on an instance with a third course as well.

**Only model-checked.** The liveness properties `StaleEventuallyClosed`,
`QueueDrains` and `DeadNetworkLeft`: liveness under fairness is out of the
prover's reach. The two violations are counterexamples. Every other property of
the runs is a theorem.

## 5. Findings

Two runs contradict a sentence of the repository, quoted in `PROJECT.json`.

1. *Two Starts, two sessions* (`utils.py:571`). The lock on the course row makes
   the second Start wait, but its plain SELECT then reads the snapshot taken by
   the account check. A locking read would see the first one's session. What is left
   of the promise is `DuplicatesCrossed`, proved for every size: only Starts that
   overlap make a second session.
2. *Rejected but credited* (`utils.py:755`). Accept and reject of one tap both
   pass the "still pending" check; the reject that commits last leaves an
   attendance row whose tap is marked rejected.

## 6. Disagreements without a run of their own

These were met with the same modules, by checking the named property with other
constants or without its exemption, or follow from a definition.

Taps and the register
- *Slow mint.* The phone counts the life of a code from the arrival of the mint's
  answer (`SuaamsHceService.kt:106-117`), the server from its making; the app
  waits up to ten seconds for the answer (`student_service.dart:198`). A slow
  answer moves a genuine offline read past the lag limit and it is filed as a
  replay (`api/student.py:1476` against the comment at 47-49). The run
  of TapJourney reaches it; `LateOnlyBySlowMint` says that nothing else does it.
- A chunk answered with an error (a rate limit, an exception at one record) leaves
  the reader with all that was not filed yet (`SUAAMS_HCE.ino:951-953`);
  `TapsArrive` counts it as refused.
- An End closes what its snapshot shows, so a session whose Start commits while
  the End is under way stays open (`utils.py:617` against 606-608, "one End must not
  leave the other open"). `EndClosesAll` exempts it.
- A student who drops a course between the enrolment check of a review and its
  commit is credited (`utils.py:767` against 765-766).
- The status poll looks at the newest session at poll time, the mint chose
  earlier (`api/student.py:118` against 117-123). A session may end between the
  liveness check and the commit of the insert (`:431`).
- A replay filed as rejected keeps the unique key, so a later genuine offline tap
  of that student and session is answered as already known (`:1456`).
- An accepted offline tap keeps its wrong-room mark under `enforce`
  (`utils.py:785` against `models.py:495-497`); `EnforceRefusesLive` is therefore
  about live check-ins.
- A tap uploaded while its live request is still committing is filed pending,
  not superseded (`api/student.py:1466-1468` against `SUAAMS_HCE.ino:1399-1400`).
  The review settles it later.

The reader
- A join that succeeds after the sketch gave up leaves the network without a
  name (`SUAAMS_HCE.ino:607`), so strikes are not counted (`:696`) and a network
  without internet is kept (against `:332-333`). `DeadNetworkLeft` is therefore
  about networks joined in time.
- A network set aside once is skipped again after every wrap of `millis()`, 49.7
  days (`SUAAMS_HCE.ino:533`).
- The ping and a retried connection use up the ten seconds of a code, so a late
  post is answered 401 (`:1313`); a 500 for one chunk is an answer, and its
  captures leave the queue (`:952`).
- `ARCHITECTURE.md:37` and `DECISIONS.md:107` say the reader queues 16 taps; the
  code's limit is 100.

Accounts
- *Lost answer.* A refresh whose answer is lost has rotated the token; the retry
  is refused and the phone signs out (`auth_provider.dart:420` against 34-36).
  The same follows a 500 (`auth_service.dart:224` against `:21`).
- Where two requests about one account overlap: two refreshes with one token
  both pass (`auth.py:367` against `:339`); a sign-in that overlaps a switch-off
  leaves a token on the disabled account (`:371` against `people_status.py:6-7`);
  two first logins on two phones both succeed and the later binding stays
  (`:165` against 152-153); a logout sent in the background ends whatever
  session the account has when it arrives (`:400`). `OneAccountPerPhone` holds,
  by the unique key.
- A refresh answer that arrives after a sign-out signs the phone in again
  (`auth_provider.dart:399` against `auth_service.dart:246-248`).

Semesters and people
- Two overlapping changes of one status: the second writes the status but leaves
  a login it had read as already so, and they part (`people_status.py:92`, for
  students and for lecturers).
- A promotion undone after a later one moved the same students takes back
  nothing for them, and the later one's undo takes back one level of two.
  Likewise two overlapping undos followed by a new promotion.
- A semester that follows one whose name has no academic year counts as the first
  of its year (`changeover.py:55`), even within that year: its checklist lists
  graduation, promotion and intake (the promotion as done, once it was). The
  docstring speaks of a year that differs from the one before (51-53).
- A delete of a semester that passed its check before the semester was made
  active leaves none active.
- Two admins can make two HODs of one department: the check precedes the insert
  and no constraint repeats it (`admin.py:2833`).
- A coordinator is assigned without a look at the lecturer's status, so is a
  course in a semester made longer (`allowed` in StaffRoster).
- Two overlapping changes of a course's coordinator drop the one in between.
- A lecturer who leaves after the confirmation of a copy has checked the plan and
  before it is saved is still given the course (`admin.py:662-695`);
  `CopiesAreTaught` names the case.

Timetable
- Two edits by hand that overlap, or a draft moved or removed by hand before its
  publishing, can publish one room twice: publishing does not check again.
- A lecturer put on a course on the Course Lecturers page, or made its
  coordinator, may already have a class at its time: nothing looks at the
  timetable (`admin.py:1561-1592`), so the lecturer is published twice at one time
  until one of the two classes is edited (`strained`; `NoDoubleBooking` names it).
- Who registers for a course or starts to teach it is not told its timetable: the
  next notice is the next change (`joined`).
- A class deleted by hand takes its sessions off the slot as they were read; one
  that a publication has handed to another class meanwhile loses its slot all the
  same, and if a session has been filed since, the delete fails on its foreign key
  (`admin.py:2029-2042`).
- A click repeated on Publish can tell the same people twice; a notice computed
  before another edit's commit may arrive after that edit's own.
- An exception after the commit of a publication is shown as "Nothing changed"
  (`admin.py:2319-2322`).
- A class moved by hand to another course keeps the sessions of the first
  (`Misfiled`).
- Stale comments: deleting a slot is said to fail when sessions exist under it
  (`admin.py:2039-2041`), but the relationship sets their slot to NULL; nothing
  is said to set `Session.timetable_id` (`timetable_import.py:369`), but
  `utils.py:594` does.

Pages
- The board and the door do not decide alike: the board's "not started yet" asks
  for a slot without a session, the door's for the current slot
  (`dashboard_today.py:234-238`, "so the board and the door agree", against
  `terminal_status.py:57-119`). They differ for a class that ended early, is held
  in another room or was left open overnight; `BoardAgreesUnlessOver` says only then.
- A course that meets twice a day shows the status of the morning on some pages;
  a class started again makes an ended row of the slot and a separate live row.
- The absent of a class count every registered student without a record; the
  list to mark by hand leaves out those who are not `active` (`utils.py:240`), so
  the two differ by the suspended ones (`AbsentAreTheMissing`, for any set of
  them).
- After a drop the app's `absent_count` can be negative (`api/lecturer.py:425`,
  `:554`), the portal's is cut at 0 (`blueprints/lecturer.py:213`); a course
  average can exceed 100.
- The dashboard's rate of a department divides all check-ins by all that were
  expected (`dashboard_today.py:183-215`). A course that everybody dropped adds
  its check-ins and expects nothing, so the rate may exceed that of each of its
  courses, and 100.
- The HOD's pages round to whole points, the others to tenths; the eligibility
  list ignores `MIN_SESSIONS` and courses of no semester; the dashboards write
  75 where the configuration has a threshold; the portal's count of classes
  includes running ones.

## 7. Not modelled, and why

The sheet of the phone's check-in flow and its timers write no table; the server
side of its calls is in CheckIn and TapJourney, the code it shows in
TerminalReader. Screens, routing, charts and the audit log keep no state that
could disagree with the tables. Cryptography is abstracted: a token that verifies
is one the server minted. The slot arithmetic of the Bluetooth code is not
modelled. Rate limits are one of the ways an answer can be a refusal. Push
delivery is best effort. Reading spreadsheets, CSV and PDF are functions of one
file; the plans they produce are inputs of Timetable, Changeover and StaffRoster.
Names of courses, rooms and departments, announcements and results are edited in
one row that nothing else copies. Migrations and scripts run by hand.
`PROJECT.json` lists each of these under "components".

## 8. Where the project could go

Everything planned for the server and the reader is done. What is left is
smaller: the phone's sheet composed with the status poll, and the room verdict
with terminals renamed while they post.
