--------------------------- MODULE MCComputation ---------------------------
(* Instances of Computation for TLC. *)
EXTENDS Computation, TLC
CONSTANTS a, b, c
OneMote == {a}
ThreeMotes == {a, b, c}
TwoValues == {1, 2}
(* Motes are interchangeable: no definition orders or names one.            *)
MoteSymmetry == Permutations(Motes)
=============================================================================
