------------------------------ MODULE MCSlices ------------------------------
(***************************************************************************)
(* Small instances of Slices: one object provided by the program.          *)
(***************************************************************************)
EXTENDS Slices, TLC

MCGiven == <<100>>

\* The same list for every session only without spare capacity, or only with.
SpareUnshared == [static |-> {0, 2}, fresh |-> {0}, shared |-> {0}]
SpareShared == [shared |-> {1, 2}]

MCSymmetry == Permutations(Sessions) \cup Permutations(Arrays)

=============================================================================
