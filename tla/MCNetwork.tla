----------------------------- MODULE MCNetwork -----------------------------
(* An instance of Network for TLC. *)
EXTENDS Network

CONSTANTS root, a, b

(* all three in range of each other *)
Triangle == [m \in Motes |-> Motes \ {m}]
(* a freed parent_t that reads as the root *)
AsRoot == {root}
(* memory before the array of a table that reads as an entry with next hop a *)
AsA == {a}
=============================================================================
