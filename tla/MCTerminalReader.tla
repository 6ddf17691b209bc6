-------------------------- MODULE MCTerminalReader --------------------------
(* Small instances of TerminalReader for TLC: a tick is five seconds, so a   *)
(* code lives for two, and a capture is taken for a replay after three.      *)
EXTENDS TerminalReader
=============================================================================
