---------------------------- MODULE MCChangeover ----------------------------
(* Small instances of Changeover for TLC: students, semesters and request   *)
(* threads are interchangeable.                                             *)
EXTENDS Changeover, TLC

\* Two semesters of one year, one of the next, and one without a year before them;
\* dates that follow each other or overlap.
SmallForms ==
  {[year |-> "y1", start |-> 0, end |-> 1], [year |-> "y2", start |-> 2, end |-> 3],
   [year |-> "y1", start |-> 2, end |-> 3], [year |-> "no year", start |-> 0, end |-> 1]}

Symmetry == Permutations(Students) \cup Permutations(Requests)
              \cup Permutations(Semesters)
=============================================================================
