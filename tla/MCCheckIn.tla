----------------------------- MODULE MCCheckIn -----------------------------
(* Small instances of CheckIn for TLC: one student, one course, two        *)
(* sessions, two request threads, one lecturer starting and ending classes.*)
EXTENDS CheckIn
=============================================================================
