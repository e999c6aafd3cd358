------------------------------ MODULE Children ------------------------------
(***************************************************************************)
(* How the entries of one mote's routing table age, in real time: a DAO    *)
(* puts the time of its arrival in its sender's entry, the children timer  *)
(* deletes the entries that have timed out.  It refines what module        *)
(* Network leaves open, which entries a timeout deletes and when.  Time is *)
(* counted in clock ticks; entries hold seconds.                           *)
(***************************************************************************)
EXTENDS Trickle

CONSTANTS
  Children,          \* the motes that may be below this one
  TIMEOUT_CHILDREN,  \* in seconds; 150 in the code
  MaxTransit,        \* bound on what a DAO needs to climb to this mote
  MaxLost,           \* bound on the DAOs of a child lost in a row
  MaxRestarts,       \* bound on the restarts of a child's DAO timer in a row
  MaxPutOff          \* bound on the time by which a callback is put off

ASSUME ChildrenAssumption ==
  /\ TIMEOUT_CHILDREN \in Nat \ {0}
  /\ MaxTransit \in Nat /\ MaxLost \in Nat /\ MaxRestarts \in Nat /\ MaxPutOff \in Nat

VARIABLES
  is_root,         \* this mote is the root: never outside the DODAG
  in_dodag,
  children_timer,  \* ticks until it fires, Off if it is stopped
  age,             \* age[c]: ticks since the time in c's entry, NoEntry without one
  (* of each child *)
  below,           \* its DAOs come through this mote
  due,             \* ticks until its next DAO should be here
  (* auxiliary *)
  lost,            \* its DAOs that were lost since the last to arrive
  restarts,        \* the restarts of its DAO timer since then
  put_off          \* ticks lost to restarts and stops of children_timer since it fired

vars == <<is_root, in_dodag, children_timer, age, below, due, lost, restarts, put_off>>
theirs == <<below, due, lost, restarts>>
timer == <<is_root, in_dodag, children_timer, put_off>>

Off == -1
NoEntry == -1
Timeout == CLOCK_SECOND * TIMEOUT_CHILDREN

(* Ticks between the arrivals of two DAOs of a child, whose timer is set    *)
(* with one T of those given: the second may travel faster or slower.       *)
Gaps(S) ==
  LET gaps == {delay + late : delay \in UNION {trickle_random(T) : T \in S},
                              late \in -MaxTransit .. MaxTransit}
  IN  {gap \in gaps : gap >= 0}
LongestGap == LongestDelay + MaxTransit

Init ==
  /\ is_root \in BOOLEAN
  /\ in_dodag = is_root
  /\ children_timer = IF is_root THEN Timeout ELSE Off
  /\ age = [c \in Children |-> NoEntry]
  /\ below = [c \in Children |-> FALSE]
  /\ due = [c \in Children |-> 0]
  /\ lost = [c \in Children |-> 0] /\ restarts = [c \in Children |-> 0]
  /\ put_off = 0

-----------------------------------------------------------------------------
(* Mutant of RecvDAO: an entry that is there keeps its time.                *)
RecvDAONewOnly(c) ==
  /\ age' = IF age[c] = NoEntry THEN [age EXCEPT ![c] = 0] ELSE age
  /\ below' = [below EXCEPT ![c] = TRUE]
  /\ \E gap \in Gaps(Ts) : due' = [due EXCEPT ![c] = gap]
  /\ lost' = [lost EXCEPT ![c] = 0] /\ restarts' = [restarts EXCEPT ![c] = 0]
  /\ UNCHANGED timer

(* hashmap_put for a DAO of c, in the DODAG or not.  It may be the first,   *)
(* and come sooner than due: sent twice, or for a new parent. *)
RecvDAO(c) ==
  /\ age' = [age EXCEPT ![c] = 0]
  /\ below' = [below EXCEPT ![c] = TRUE]
  /\ \E gap \in Gaps(Ts) : due' = [due EXCEPT ![c] = gap]
  /\ lost' = [lost EXCEPT ![c] = 0] /\ restarts' = [restarts EXCEPT ![c] = 0]
  /\ UNCHANGED timer

(* A DAO of c is dropped on the way: a connection was still transmitting    *)
(* another message, or gave up. *)
Missed(c) ==
  /\ below[c] /\ due[c] = 0
  /\ lost[c] < MaxLost
  /\ lost' = [lost EXCEPT ![c] = @ + 1]
  /\ \E gap \in Gaps(Ts) : due' = [due EXCEPT ![c] = gap]
  /\ UNCHANGED <<timer, age, below, restarts>>

(* reset_timers at c *)
ResetTimers(c) ==
  /\ below[c]
  /\ restarts[c] < MaxRestarts
  /\ restarts' = [restarts EXCEPT ![c] = @ + 1]
  /\ \E gap \in Gaps({T_MIN}) : due' = [due EXCEPT ![c] = gap]
  /\ UNCHANGED <<timer, age, below, lost>>

(* c is removed, detaches, or gets another way to the root. *)
Leave(c) ==
  /\ below[c]
  /\ below' = [below EXCEPT ![c] = FALSE]
  /\ due' = [due EXCEPT ![c] = 0]
  /\ lost' = [lost EXCEPT ![c] = 0] /\ restarts' = [restarts EXCEPT ![c] = 0]
  /\ UNCHANGED <<timer, age>>

-----------------------------------------------------------------------------
(* Mutants of MayTimeOut and MustTimeOut: entries time out a second early;  *)
(* seconds are compared with ticks. *)
TimesOutEarly == {c \in Children : age[c] + CLOCK_SECOND > Timeout}
TimesOutNever == {c \in Children : age[c] > CLOCK_SECOND * Timeout}

(* hashmap_delete_timeout compares whole seconds: when the time recorded    *)
(* and the present one are cut off to seconds, they differ by more than     *)
(* TIMEOUT_CHILDREN for any of the first entries and all of the second.     *)
MayTimeOut == {c \in Children : age[c] > Timeout}
MustTimeOut == {c \in Children : age[c] >= Timeout + CLOCK_SECOND}

children_callback ==
  /\ children_timer = 0
  /\ children_timer' = Timeout
  /\ put_off' = 0
  /\ IF in_dodag
       THEN \E gone \in SUBSET MayTimeOut :
              /\ MustTimeOut \subseteq gone
              /\ age' = [c \in Children |-> IF c \in gone THEN NoEntry ELSE age[c]]
       ELSE UNCHANGED age
  /\ UNCHANGED <<is_root, in_dodag, theirs>>

(* The root's main loop starts the timer anew at every event of its process *)
(* (the server's lines go to another one, but reach it as well).            *)
ProcessEvent ==
  /\ is_root
  /\ put_off + (Timeout - children_timer) <= MaxPutOff
  /\ put_off' = put_off + (Timeout - children_timer)
  /\ children_timer' = Timeout
  /\ UNCHANGED <<is_root, in_dodag, age, theirs>>

(* detach and stop_timers *)
Detach ==
  /\ in_dodag /\ ~is_root
  /\ in_dodag' = FALSE
  /\ children_timer' = Off
  /\ put_off' = 0
  /\ age' = [c \in Children |-> NoEntry]
  /\ UNCHANGED <<is_root, theirs>>

(* PARENT_NEW *)
Join ==
  /\ ~in_dodag
  /\ in_dodag' = TRUE
  /\ children_timer' = Timeout
  /\ UNCHANGED <<is_root, put_off, age, theirs>>

(* A clock tick, when nothing is due. *)
Tick ==
  /\ \A c \in Children : below[c] => due[c] > 0
  /\ children_timer # 0
  /\ children_timer = Off => put_off < MaxPutOff
  /\ age' = [c \in Children |-> IF age[c] = NoEntry THEN NoEntry ELSE age[c] + 1]
  /\ due' = [c \in Children |-> IF below[c] THEN due[c] - 1 ELSE 0]
  /\ IF children_timer = Off
       THEN put_off' = put_off + 1 /\ UNCHANGED children_timer
       ELSE children_timer' = children_timer - 1 /\ UNCHANGED put_off
  /\ UNCHANGED <<is_root, in_dodag, below, lost, restarts>>

Next ==
  \/ \E c \in Children : RecvDAO(c) \/ Missed(c) \/ ResetTimers(c) \/ Leave(c)
  \/ children_callback
  \/ ProcessEvent
  \/ Detach
  \/ Join
  \/ Tick

Spec == Init /\ [][Next]_vars
-----------------------------------------------------------------------------
Forgiven(c) == (1 + lost[c] + restarts[c]) * LongestGap

TypeOK ==
  /\ is_root \in BOOLEAN /\ in_dodag \in BOOLEAN
  /\ children_timer \in {Off} \cup 0 .. Timeout
  /\ age \in [Children -> {NoEntry} \cup Nat]
  /\ below \in [Children -> BOOLEAN]
  /\ due \in [Children -> 0 .. LongestGap]
  /\ lost \in [Children -> 0 .. MaxLost]
  /\ restarts \in [Children -> 0 .. MaxRestarts]
  /\ put_off \in 0 .. MaxPutOff

(* An entry whose mote is still below is renewed in time: it is never older *)
(* than the delays of the trickle timer, lost DAOs and restarts explain     *)
(* (DAO_callback, trickle_random, hashmap_put's time).                      *)
RenewedInTime ==
  \A c \in Children :
    below[c] /\ age[c] # NoEntry => age[c] + due[c] <= Forgiven(c)

(* The children timer takes a mote out of the routing table only for a      *)
(* reason: it is no longer below, or so many of its DAOs were lost or put   *)
(* off in a row that together they take TIMEOUT_CHILDREN                    *)
(* (hashmap_delete_timeout and the trickle timer).                          *)
ForgottenHasCause ==
  [][\A c \in Children :
       children_callback /\ age[c] # NoEntry /\ age'[c] = NoEntry =>
         ~below[c] \/ Forgiven(c) > Timeout]_vars

(* README.md:27 says that a child is erased after TIMEOUT_CHILDREN seconds. *)
(* It may take more than twice as long, and as much longer as the root's    *)
(* main loop puts the timer off: entries of silent motes do not stay for    *)
(* ever only because events of the root's process are rare.                 *)
OldEntriesGo ==
  \A c \in Children : age[c] <= 2 * Timeout + CLOCK_SECOND + put_off
=============================================================================
