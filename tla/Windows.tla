------------------------------ MODULE Windows ------------------------------
(***************************************************************************)
(* What is promised of the data a computing mote keeps: for each of at     *)
(* most Room sensor motes, the latest values it sent, without the          *)
(* retransmitted ones, and a valve that opens only on enough of them.  A   *)
(* mote is forgotten only after a silence of more than TIMEOUT_DATA, and   *)
(* refused only when Room others have been heard more recently.            *)
(***************************************************************************)
EXTENDS Integers, Sequences, FiniteSets

CONSTANTS
  Motes, Values, Room, MAX_NB_VALUES, MIN_NB_VALUES_COMPUTE, TIMEOUT_DATA, RETRANSMISSION,
  StartsAnew  \* whether a mote that comes back after the timeout starts an empty window

VARIABLES
  window,   \* the latest values of each mote, oldest first
  age,      \* seconds since the mote was last heard, counted to one past the timeout
  decision  \* what was decided on the last value

Held == {m \in Motes : window[m] # << >>}
Silent == {m \in Held : age[m] > TIMEOUT_DATA}
Continued == IF StartsAnew THEN Held \ Silent ELSE Held

Latest(w) == IF Len(w) <= MAX_NB_VALUES THEN w ELSE Tail(w)

Init ==
  /\ window = [m \in Motes |-> << >>]
  /\ age = [m \in Motes |-> 0]
  /\ decision = "CLOSE_VALVE"

Tick ==
  /\ age' = [m \in Motes |-> IF m \in Held \ Silent THEN age[m] + 1 ELSE age[m]]
  /\ UNCHANGED <<window, decision>>

(* m's window becomes w, and the motes in gone, all silent, are forgotten.  *)
Keep(m, w, gone) ==
  /\ window' = [n \in Motes |-> IF n = m THEN w
                                ELSE IF n \in gone THEN << >> ELSE window[n]]
  /\ age' = [n \in Motes |-> IF n \in gone \cup {m} THEN 0 ELSE age[n]]
Forgettable(m) == SUBSET (Silent \ {m})

(* The valve opens only on enough values. *)
Decide(w) ==
  decision' \in IF Len(w) >= MIN_NB_VALUES_COMPUTE THEN {"OPEN_VALVE", "CLOSE_VALVE"}
                ELSE {"CLOSE_VALVE"}

AppendValue(m, v) ==
  LET w == Latest(Append(window[m], v)) IN
  /\ m \in Continued
  /\ Decide(w)
  /\ \E gone \in Forgettable(m) : Keep(m, w, gone)

IgnoreDuplicate(m, v) ==
  /\ m \in Held \ Silent
  /\ v = window[m][Len(window[m])]
  /\ age[m] < RETRANSMISSION
  /\ decision' = "CLOSE_VALVE"
  /\ \E gone \in Forgettable(m) : Keep(m, window[m], gone)

StartWindow(m, v) ==
  /\ m \notin Continued
  /\ Decide(<<v>>)
  /\ \E gone \in Forgettable(m) :
       /\ Cardinality((Held \ {m}) \ gone) < Room
       /\ Keep(m, <<v>>, gone)

Refuse(m) ==
  /\ m \notin Held
  /\ decision' = "CANNOT_ADD_MOTE"
  /\ Cardinality(Held \ Silent) >= Room
  /\ Keep(m, << >>, Silent)

Next ==
  \/ Tick
  \/ \E m \in Motes :
       \/ Refuse(m)
       \/ \E v \in Values : AppendValue(m, v) \/ IgnoreDuplicate(m, v) \/ StartWindow(m, v)

Spec == Init /\ [][Next]_<<window, age, decision>>
=============================================================================
