------------------------- MODULE AttendanceRegister -------------------------
(***************************************************************************)
(* What the attendance server promises about its register, whatever way a  *)
(* check-in reaches it: for every student and session one row is recorded  *)
(* at most once, it stays as it was recorded, and the student is told of   *)
(* it at most once, after it was recorded.                                 *)
(*                                                                         *)
(* The promise is the unique key uq_attendance_student_session together    *)
(* with the notification each recording path sends (models.Attendance,     *)
(* push_notifications.send_push_notification).                             *)
(***************************************************************************)
EXTENDS Naturals

CONSTANTS
  Keys,      \* <<student, session id>>
  Rows,      \* what a row can say
  NoRow      \* no row for this key

VARIABLES
  register,  \* the row recorded for each key
  notices    \* how often the student was told of it

vars == <<register, notices>>

Init ==
  /\ register = [k \in Keys |-> NoRow]
  /\ notices = [k \in Keys |-> 0]

Record(k, row) ==
  /\ register[k] = NoRow
  /\ register' = [register EXCEPT ![k] = row]
  /\ UNCHANGED notices

Notify(k) ==
  /\ register[k] # NoRow
  /\ notices[k] = 0
  /\ notices' = [notices EXCEPT ![k] = 1]
  /\ UNCHANGED register

Next ==
  \E k \in Keys :
    \/ \E row \in Rows : Record(k, row)
    \/ Notify(k)

Spec == Init /\ [][Next]_vars
=============================================================================
