------------------------------ MODULE MCServer ------------------------------
(* Instances of Server for TLC. *)
EXTENDS Server, TLC
CONSTANTS a, b
TwoMotes == {a, b}
Symmetry == Permutations(TwoMotes)
Seconds == {0, 1, 3, 4, 7}
TwoValues == {0, 149}
(* as computed in doubles, up to 400 *)
Inexact == {29, 57, 58, 113, 114, 115, 116, 201, 203, 205, 207, 226, 228, 230, 232,
            251, 253, 255}
=============================================================================
