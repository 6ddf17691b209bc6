---------------------------- MODULE MCTapJourney ----------------------------
(* Small instances of TapJourney for TLC.  A tick is 2.5 seconds: a code     *)
(* lives for four, a read is a replay after six, a held phone is skipped for *)
(* six.                                                                      *)
EXTENDS TapJourney
=============================================================================
