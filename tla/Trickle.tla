------------------------------ MODULE Trickle ------------------------------
(* The trickle timer of src/mote/trickle-timer.c: T is a uint8_t number of  *)
(* seconds, delays are uint16_t numbers of clock ticks.                     *)
EXTENDS Integers

CONSTANTS
  T_MIN,        \* 2 in the code
  T_MAX,        \* 20 in the code
  CLOCK_SECOND  \* ticks per second, 128 on the Z1

(* Doubling T and multiplying it by CLOCK_SECOND stay within their types.   *)
ASSUME TrickleAssumption ==
  /\ T_MIN \in Nat \ {0}
  /\ T_MAX \in Nat /\ T_MIN <= T_MAX /\ 2 * T_MAX < 256
  /\ CLOCK_SECOND \in Nat \ {0}
  /\ CLOCK_SECOND * T_MAX < 65536

Ts == T_MIN .. T_MAX

(* Mutant of trickle_update: no upper limit. *)
DoubleAlways(T) == (2 * T) % 256

trickle_update(T) ==
  LET new_T == (2 * T) % 256 IN IF new_T > T_MAX THEN T_MAX ELSE new_T

(* Mutant of trickle_random: T/2 plus anything up to T. *)
UpToThreeHalves(T) ==
  {((CLOCK_SECOND * T) \div 2) + random : random \in 0 .. CLOCK_SECOND * T}

(* The delays that trickle_random may return. *)
trickle_random(T) ==
  LET min == ((CLOCK_SECOND * T) \div 2) % 65536
      max == (CLOCK_SECOND * T) % 65536
  IN  {min + random : random \in 0 .. max - min}

LongestDelay == CLOCK_SECOND * T_MAX
=============================================================================
