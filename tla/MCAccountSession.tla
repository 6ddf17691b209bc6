-------------------------- MODULE MCAccountSession --------------------------
(* Small instances of AccountSession for TLC: accounts (all students), phones*)
(* and request threads are interchangeable.                                 *)
EXTENDS AccountSession, TLC

Symmetry ==
  Permutations(Accounts) \cup Permutations(Phones) \cup Permutations(Threads)
=============================================================================
