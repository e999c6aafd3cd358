----------------------------- MODULE Keepalive -----------------------------
(***************************************************************************)
(* How a mote keeps its parent, in real time: neighbours broadcast DIOs    *)
(* when their trickle timers fire, the mote restarts its parent timer when *)
(* it hears its parent and detaches when the timer fires.  It refines what *)
(* module Dodag leaves open, when timers fire, and leaves out ranks: which *)
(* neighbour is a better parent is a free choice.                          *)
(***************************************************************************)
EXTENDS Trickle

CONSTANTS
  Others,          \* the neighbours
  Root,            \* the root, which may be one of them
  NoParent,        \* what mote.parent reads as before the first parent
  TIMEOUT_PARENT,  \* in clock ticks; 50 s in the code
  MaxLost,         \* bound on the DIOs of a parent lost in a row
  MaxRestarts      \* bound on the restarts of a parent's send timer in a row

ASSUME KeepaliveAssumption ==
  /\ NoParent \notin Others
  /\ TIMEOUT_PARENT \in Nat \ {0}
  /\ MaxLost \in Nat /\ MaxRestarts \in Nat

VARIABLES
  (* of each neighbour *)
  alive,         \* it is in the DODAG, and has not been removed
  T,             \* its trickle timer
  send_timer,    \* ticks until its send timer fires
  (* of the mote *)
  in_dodag,
  parent,
  parent_timer,  \* ticks until it fires, Off if it is stopped
  (* since the parent timer was last started (auxiliary) *)
  lost,          \* DIOs of the parent that the mote missed
  restarts,      \* restarts of the parent's send timer
  changed        \* the mote took another parent, or its parent came back

vars == <<alive, T, send_timer, in_dodag, parent, parent_timer, lost, restarts,
          changed>>
theirs == <<alive, T, send_timer>>

Off == -1
Running == parent_timer # Off

Init ==
  /\ alive = [n \in Others |-> TRUE]
  /\ T = [n \in Others |-> T_MIN]
  /\ send_timer \in [Others -> trickle_random(T_MIN)]
  /\ in_dodag = FALSE
  /\ parent = NoParent
  /\ parent_timer = Off
  /\ lost = 0 /\ restarts = 0 /\ changed = FALSE

-----------------------------------------------------------------------------
(* What the mote does with a DIO from n (broadcast_recv). *)
StartParentTimer ==
  /\ parent_timer' = TIMEOUT_PARENT
  /\ lost' = 0 /\ restarts' = 0 /\ changed' = FALSE

(* Mutant of FromParent: the parent timer runs on. *)
FromParentUnheard(n) ==
  /\ n = parent
  /\ UNCHANGED <<in_dodag, parent, parent_timer, lost, restarts, changed>>

FromParent(n) ==
  /\ n = parent
  /\ StartParentTimer
  /\ UNCHANGED <<in_dodag, parent>>

(* detach and stop_timers.  A detached mote may or may not still read its   *)
(* parent's address in the memory it has freed. *)
Detach ==
  /\ in_dodag' = FALSE
  /\ parent' \in IF in_dodag THEN {parent, NoParent} ELSE {parent}
  /\ parent_timer' = Off
  /\ lost' = 0 /\ restarts' = 0
  /\ UNCHANGED changed

(* The parent's rank has become INFINITE_RANK. *)
FromParentInfinite(n) == n = parent /\ Detach

ParentNew(n) ==
  /\ n # parent
  /\ ~in_dodag
  /\ in_dodag' = TRUE
  /\ parent' = n
  /\ StartParentTimer

(* A better parent: the parent timer is left as it is. *)
ParentChanged(n) ==
  /\ n # parent
  /\ in_dodag
  /\ parent' = n
  /\ changed' = TRUE
  /\ UNCHANGED <<in_dodag, parent_timer, lost, restarts>>

ParentNotChanged(n) ==
  /\ n # parent
  /\ in_dodag
  /\ UNCHANGED <<in_dodag, parent, parent_timer, lost, restarts, changed>>

Received(n) ==
  \/ FromParent(n) \/ FromParentInfinite(n)
  \/ ParentNew(n) \/ ParentChanged(n) \/ ParentNotChanged(n)

Missed(n) ==
  /\ n = parent => lost < MaxLost
  /\ lost' = IF n = parent /\ Running THEN lost + 1 ELSE lost
  /\ UNCHANGED <<in_dodag, parent, parent_timer, restarts, changed>>

-----------------------------------------------------------------------------
(* send_callback at neighbour n *)
SendDIO(n) ==
  /\ alive[n]
  /\ send_timer[n] = 0
  /\ T' = [T EXCEPT ![n] = trickle_update(T[n])]
  /\ \E delay \in trickle_random(T'[n]) : send_timer' = [send_timer EXCEPT ![n] = delay]
  /\ UNCHANGED alive
  /\ Received(n) \/ Missed(n)

(* Neighbour n answers the DIS of some mote. *)
AnswerDIS(n) ==
  /\ alive[n]
  /\ Received(n) \/ Missed(n)
  /\ UNCHANGED theirs

Restarted(n) ==
  /\ n = parent => restarts < MaxRestarts
  /\ restarts' = IF n = parent /\ Running THEN restarts + 1 ELSE restarts
  /\ UNCHANGED <<alive, in_dodag, parent, parent_timer, lost, changed>>

(* reset_timers at neighbour n, when its own rank or its children change.   *)
ResetTimers(n) ==
  /\ alive[n]
  /\ T' = [T EXCEPT ![n] = T_MIN]
  /\ \E delay \in trickle_random(T_MIN) : send_timer' = [send_timer EXCEPT ![n] = delay]
  /\ Restarted(n)

(* The main loop of neighbour n, which may be the root, starts the send     *)
(* timer anew at every event its process gets: a line from the server.      *)
ProcessEvent(n) ==
  /\ alive[n]
  /\ \E delay \in trickle_random(T[n]) : send_timer' = [send_timer EXCEPT ![n] = delay]
  /\ UNCHANGED T
  /\ Restarted(n)

(* children_callback at the root, when a child has timed out: trickle_reset, *)
(* and the send timer runs on. *)
RootChildrenCallback ==
  /\ Root \in Others
  /\ alive[Root]
  /\ T' = [T EXCEPT ![Root] = T_MIN]
  /\ UNCHANGED <<alive, send_timer, in_dodag, parent, parent_timer, lost, restarts, changed>>

(* Neighbour n is removed from the network, or detaches from the DODAG.     *)
Leave(n) ==
  /\ alive[n]
  /\ alive' = [alive EXCEPT ![n] = FALSE]
  /\ UNCHANGED <<T, send_timer, in_dodag, parent, parent_timer, lost, restarts, changed>>

(* Neighbour n joins again. *)
Return(n) ==
  /\ ~alive[n]
  /\ alive' = [alive EXCEPT ![n] = TRUE]
  /\ T' = [T EXCEPT ![n] = T_MIN]
  /\ \E delay \in trickle_random(T_MIN) : send_timer' = [send_timer EXCEPT ![n] = delay]
  /\ changed' = (changed \/ n = parent)
  /\ UNCHANGED <<in_dodag, parent, parent_timer, lost, restarts>>

(* parent_callback: detach and stop_timers, or just the timer's restart.    *)
ParentCallback ==
  /\ parent_timer = 0
  /\ UNCHANGED theirs
  /\ \/ in_dodag /\ Detach
     \/ /\ ~in_dodag
        /\ parent_timer' = TIMEOUT_PARENT
        /\ lost' = 0 /\ restarts' = 0
        /\ UNCHANGED <<in_dodag, parent, changed>>

(* A clock tick, when no timer is due. *)
Tick ==
  /\ \A n \in Others : alive[n] => send_timer[n] > 0
  /\ parent_timer # 0
  /\ send_timer' = [n \in Others |-> IF alive[n] THEN send_timer[n] - 1 ELSE send_timer[n]]
  /\ parent_timer' = IF Running THEN parent_timer - 1 ELSE Off
  /\ UNCHANGED <<alive, T, in_dodag, parent, lost, restarts, changed>>

Next ==
  \/ \E n \in Others :
       SendDIO(n) \/ AnswerDIS(n) \/ ResetTimers(n) \/ ProcessEvent(n)
         \/ Leave(n) \/ Return(n)
  \/ RootChildrenCallback
  \/ ParentCallback
  \/ Tick

Spec == Init /\ [][Next]_vars
-----------------------------------------------------------------------------
TypeOK ==
  /\ alive \in [Others -> BOOLEAN]
  /\ T \in [Others -> Ts]
  /\ send_timer \in [Others -> 0 .. LongestDelay]
  /\ in_dodag \in BOOLEAN
  /\ parent \in Others \cup {NoParent}
  /\ parent_timer \in {Off} \cup 0 .. TIMEOUT_PARENT
  /\ lost \in 0 .. MaxLost
  /\ restarts \in 0 .. MaxRestarts
  /\ changed \in BOOLEAN

-----------------------------------------------------------------------------
Forgiven == (1 + lost + restarts) * LongestDelay

(* The parent's next DIO comes while the parent timer runs, as long as the  *)
(* delays the mote has had to forgive fit in TIMEOUT_PARENT.                *)
NextDIOInTime ==
  in_dodag /\ ~changed /\ alive[parent] =>
    Running /\ (TIMEOUT_PARENT - parent_timer) + send_timer[parent] <= Forgiven

(* A mote detaches by its parent timer only for a reason: its parent has    *)
(* left, so many of its DIOs were lost or put off in a row that together    *)
(* they take TIMEOUT_PARENT, or the timer still counts from another parent  *)
(* or from before its parent left and came back (parent_callback, and the   *)
(* trickle timer that keeps it from firing).                                *)
DetachHasCause ==
  [][ParentCallback /\ in_dodag =>
       \/ ~alive[parent]
       \/ Forgiven >= TIMEOUT_PARENT
       \/ changed]_vars
=============================================================================
