---------------------------- MODULE MCControlLoop ----------------------------
(***************************************************************************)
(* Small instances of ControlLoop for TLC.                                 *)
(***************************************************************************)
EXTENDS ControlLoop, TLC

\* Runs, goals and plans are interchangeable, and the properties checked with this
\* symmetry are invariants and properties of single steps.
Symmetry == Permutations(Runs) \cup Permutations(Goals) \cup Permutations(Plans)

=============================================================================
