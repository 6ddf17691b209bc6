--------------------------- MODULE MCClassSession ---------------------------
(* Small instances of ClassSession for TLC: one or two courses, two          *)
(* concurrent lecturer requests, two midnights, three sessions.              *)
EXTENDS ClassSession
=============================================================================
