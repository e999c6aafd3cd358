----------------------------- MODULE MCHashMap -----------------------------
(* Small hash maps for model checking HashMap. *)
EXTENDS HashMap

CONSTANTS u, v

(* In a table of 6 slots 0 and 78 start from slot 0 and 26 from slot 2; in  *)
(* one of 13 all three start from slot 0; in one of 27 from three different  *)
(* slots.                                                                   *)
CollidingKeys == {0, 26, 78}
FourKeys == {0, 1, 6, 7}
OneValue == {u}
TwoValues == {u, v}
=============================================================================
