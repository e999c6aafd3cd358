---------------------------- MODULE MCKeepalive ----------------------------
(* Instances of Keepalive for TLC.  A tick of the clock is a second.        *)
EXTENDS Keepalive
CONSTANTS a, b
TwoOthers == {a, b}
=============================================================================
