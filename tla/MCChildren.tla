----------------------------- MODULE MCChildren -----------------------------
(* Instances of Children for TLC.  A second has two ticks. *)
EXTENDS Children
CONSTANTS a, b
=============================================================================
