-------------------------- MODULE KeepaliveProofs --------------------------
(***************************************************************************)
(* Proofs about the trickle timer and about Keepalive: the type invariant, *)
(* and that a mote detaches by its parent timer only for a reason, for any *)
(* timer values within the C types and any number of neighbours.           *)
(***************************************************************************)
EXTENDS Keepalive, TLAPS

(* Doubling T in a uint8_t keeps it between T_MIN and T_MAX                 *)
(* (trickle_update).                                                        *)
LEMMA UpdateInRange ==
  ASSUME NEW t \in Ts
  PROVE  trickle_update(t) \in Ts
BY TrickleAssumption DEF Ts, trickle_update

(* A delay computed in uint16_t arithmetic is never longer than T_MAX       *)
(* seconds (trickle_random).                                                *)
LEMMA DelayInRange ==
  ASSUME NEW t \in Ts, NEW d \in trickle_random(t)
  PROVE  d \in 0 .. LongestDelay
<1> DEFINE ticks == CLOCK_SECOND * t
<1>1. t \in Nat /\ CLOCK_SECOND \in Nat /\ T_MAX \in Nat /\ t <= T_MAX
  BY TrickleAssumption DEF Ts
<1>2. ticks \in Nat /\ ticks <= CLOCK_SECOND * T_MAX
  BY <1>1, SMT
<1>3. ticks < 65536
  BY <1>2, TrickleAssumption
<1> HIDE DEF ticks
<1>4. ticks \div 2 \in Nat /\ ticks \div 2 <= ticks
  BY <1>2
<1>5. (ticks \div 2) % 65536 = ticks \div 2 /\ ticks % 65536 = ticks
  BY <1>2, <1>3, <1>4
<1>6. d \in {((ticks \div 2) % 65536) + random :
              random \in 0 .. (ticks % 65536) - ((ticks \div 2) % 65536)}
  BY DEF trickle_random, ticks
<1>7. PICK random \in 0 .. ticks - (ticks \div 2) : d = (ticks \div 2) + random
  BY <1>5, <1>6
<1>8. d \in Nat /\ d <= ticks
  BY <1>2, <1>4, <1>7
<1> QED BY <1>1, <1>2, <1>8 DEF LongestDelay

LEMMA LongestDelayNat == LongestDelay \in Nat
BY TrickleAssumption DEF LongestDelay

-----------------------------------------------------------------------------
LEMMA TypeInit == Init => TypeOK
<1> SUFFICES ASSUME Init PROVE TypeOK
  OBVIOUS
<1>1. T_MIN \in Ts
  BY TrickleAssumption DEF Ts
<1>2. send_timer \in [Others -> 0 .. LongestDelay]
  BY <1>1, DelayInRange DEF Init
<1>3. T \in [Others -> Ts] /\ alive \in [Others -> BOOLEAN]
  BY <1>1 DEF Init
<1>4. lost \in 0 .. MaxLost /\ restarts \in 0 .. MaxRestarts
  BY KeepaliveAssumption DEF Init
<1> QED BY <1>2, <1>3, <1>4 DEF Init, TypeOK

LEMMA ReceivedType ==
  ASSUME TypeOK, NEW n \in Others, Received(n)
  PROVE  /\ in_dodag' \in BOOLEAN
         /\ parent' \in Others \cup {NoParent}
         /\ parent_timer' \in {Off} \cup 0 .. TIMEOUT_PARENT
         /\ lost' \in 0 .. MaxLost
         /\ restarts' \in 0 .. MaxRestarts
         /\ changed' \in BOOLEAN
<1>0. 0 \in 0 .. MaxLost /\ 0 \in 0 .. MaxRestarts
      /\ TIMEOUT_PARENT \in 0 .. TIMEOUT_PARENT
  BY KeepaliveAssumption
<1>1. CASE FromParent(n)
  BY <1>0, <1>1 DEF FromParent, StartParentTimer, TypeOK
<1>2. CASE ParentNew(n)
  BY <1>0, <1>2 DEF ParentNew, StartParentTimer, TypeOK
<1>3. CASE ParentChanged(n)
  BY <1>0, <1>3 DEF ParentChanged, TypeOK
<1>4. CASE ParentNotChanged(n)
  BY <1>4 DEF ParentNotChanged, TypeOK
<1>5. CASE FromParentInfinite(n)
  BY <1>0, <1>5 DEF FromParentInfinite, Detach, TypeOK
<1> QED BY <1>1, <1>2, <1>3, <1>4, <1>5 DEF Received

LEMMA MissedType ==
  ASSUME TypeOK, NEW n \in Others, Missed(n)
  PROVE  /\ in_dodag' \in BOOLEAN
         /\ parent' \in Others \cup {NoParent}
         /\ parent_timer' \in {Off} \cup 0 .. TIMEOUT_PARENT
         /\ lost' \in 0 .. MaxLost
         /\ restarts' \in 0 .. MaxRestarts
         /\ changed' \in BOOLEAN
BY KeepaliveAssumption DEF TypeOK, Missed

LEMMA RestartedType ==
  ASSUME TypeOK, NEW n \in Others, Restarted(n)
  PROVE  /\ alive' \in [Others -> BOOLEAN]
         /\ in_dodag' \in BOOLEAN
         /\ parent' \in Others \cup {NoParent}
         /\ parent_timer' \in {Off} \cup 0 .. TIMEOUT_PARENT
         /\ lost' \in 0 .. MaxLost
         /\ restarts' \in 0 .. MaxRestarts
         /\ changed' \in BOOLEAN
BY KeepaliveAssumption DEF TypeOK, Restarted

LEMMA TypeStep == TypeOK /\ [Next]_vars => TypeOK'
<1> SUFFICES ASSUME TypeOK, [Next]_vars PROVE TypeOK'
  OBVIOUS
<1>0. T_MIN \in Ts
  BY TrickleAssumption DEF Ts
<1>1. ASSUME NEW n \in Others, SendDIO(n) PROVE TypeOK'
  <2>1. T' \in [Others -> Ts]
    BY <1>1, UpdateInRange DEF SendDIO, TypeOK
  <2>2. send_timer' \in [Others -> 0 .. LongestDelay]
    BY <1>1, <2>1, DelayInRange DEF SendDIO, TypeOK
  <2>3. alive' \in [Others -> BOOLEAN]
    BY <1>1 DEF SendDIO, TypeOK
  <2> QED BY <1>1, <2>1, <2>2, <2>3, ReceivedType, MissedType DEF SendDIO, TypeOK
<1>2. ASSUME NEW n \in Others, AnswerDIS(n) PROVE TypeOK'
  BY <1>2, ReceivedType, MissedType DEF AnswerDIS, theirs, TypeOK
<1>3. ASSUME NEW n \in Others, ResetTimers(n) PROVE TypeOK'
  <2>1. T' \in [Others -> Ts]
    BY <1>0, <1>3 DEF ResetTimers, TypeOK
  <2>2. send_timer' \in [Others -> 0 .. LongestDelay]
    BY <1>0, <1>3, DelayInRange DEF ResetTimers, TypeOK
  <2> QED BY <1>3, <2>1, <2>2, RestartedType DEF ResetTimers, TypeOK
<1>4. ASSUME NEW n \in Others, ProcessEvent(n) PROVE TypeOK'
  <2>1. T[n] \in Ts /\ T' \in [Others -> Ts]
    BY <1>4 DEF ProcessEvent, TypeOK
  <2>2. send_timer' \in [Others -> 0 .. LongestDelay]
    BY <1>4, <2>1, DelayInRange DEF ProcessEvent, TypeOK
  <2> QED BY <1>4, <2>1, <2>2, RestartedType DEF ProcessEvent, TypeOK
<1>5. ASSUME NEW n \in Others, Leave(n) PROVE TypeOK'
  BY <1>5 DEF Leave, TypeOK
<1>9. ASSUME NEW n \in Others, Return(n) PROVE TypeOK'
  <2>1. T' \in [Others -> Ts] /\ alive' \in [Others -> BOOLEAN]
    BY <1>0, <1>9 DEF Return, TypeOK
  <2>2. send_timer' \in [Others -> 0 .. LongestDelay]
    BY <1>0, <1>9, DelayInRange DEF Return, TypeOK
  <2>3. changed' \in BOOLEAN
    BY <1>9 DEF Return, TypeOK
  <2> QED BY <1>9, <2>1, <2>2, <2>3 DEF Return, TypeOK
<1>10. CASE RootChildrenCallback
  <2>1. T' \in [Others -> Ts]
    BY <1>0, <1>10 DEF RootChildrenCallback, TypeOK
  <2> QED BY <1>10, <2>1 DEF RootChildrenCallback, TypeOK
<1>6. CASE ParentCallback
  <2>1. 0 \in 0 .. MaxLost /\ 0 \in 0 .. MaxRestarts
        /\ TIMEOUT_PARENT \in 0 .. TIMEOUT_PARENT
    BY KeepaliveAssumption
  <2>2. /\ in_dodag' \in BOOLEAN
        /\ parent' \in Others \cup {NoParent}
        /\ parent_timer' \in {Off} \cup 0 .. TIMEOUT_PARENT
    BY <1>6, <2>1 DEF ParentCallback, Detach, TypeOK
  <2> QED BY <1>6, <2>1, <2>2 DEF ParentCallback, Detach, theirs, TypeOK
<1>7. CASE Tick
  <2>1. \A n \in Others : (IF alive[n] THEN send_timer[n] - 1 ELSE send_timer[n])
                            \in 0 .. LongestDelay
    BY <1>7, LongestDelayNat DEF Tick, TypeOK
  <2>2. send_timer' \in [Others -> 0 .. LongestDelay]
    BY <1>7, <2>1 DEF Tick, TypeOK
  <2>3. parent_timer' \in {Off} \cup 0 .. TIMEOUT_PARENT
    BY <1>7, KeepaliveAssumption DEF Tick, TypeOK, Running, Off
  <2> QED BY <1>7, <2>2, <2>3 DEF Tick, TypeOK
<1>8. CASE UNCHANGED vars
  BY <1>8 DEF vars, TypeOK
<1> QED BY <1>1, <1>2, <1>3, <1>4, <1>5, <1>6, <1>7, <1>8, <1>9, <1>10 DEF Next

(* Keepalive's variables keep their types: T stays between T_MIN and T_MAX  *)
(* and no timer is set further ahead than its longest delay (trickle_update,*)
(* trickle_random).                                                         *)
THEOREM TypeCorrect == Spec => []TypeOK
BY TypeInit, TypeStep, PTL DEF Spec

-----------------------------------------------------------------------------
(* The parent of a mote in the DODAG is a neighbour, and its timer runs.    *)
Watched ==
  in_dodag => parent \in Others /\ Running

(* What one more lost DIO, or one more restart, forgives. *)
LEMMA ForgiveOneMore ==
  ASSUME NEW k \in Nat
  PROVE  /\ k * LongestDelay \in Nat
         /\ (k + 1) * LongestDelay = k * LongestDelay + LongestDelay
         /\ LongestDelay <= (1 + k) * LongestDelay
<1>1. LongestDelay \in Nat
  BY LongestDelayNat
<1>2. ASSUME NEW d \in Nat
      PROVE  /\ k * d \in Nat
             /\ (k + 1) * d = k * d + d
             /\ d <= (1 + k) * d
  BY <1>2, SMT
<1> QED BY <1>1, <1>2

LEMMA CountOneMore ==
  ASSUME NEW l1 \in Nat, NEW r1 \in Nat, NEW l2 \in Nat, NEW r2 \in Nat,
         l2 + r2 = l1 + r1 + 1
  PROVE  1 + l1 + r1 \in Nat /\ 1 + l2 + r2 = (1 + l1 + r1) + 1
OBVIOUS

LEMMA WatchedStep == TypeOK /\ Watched /\ [Next]_vars => Watched'
<1> SUFFICES ASSUME TypeOK, Watched, [Next]_vars PROVE Watched'
  OBVIOUS
<1> USE KeepaliveAssumption DEF Watched, Running, Off
<1>1. ASSUME NEW n \in Others, Received(n) PROVE Watched'
  <2>1. CASE FromParent(n)
    BY <2>1 DEF FromParent, StartParentTimer
  <2>2. CASE ParentNew(n)
    BY <2>2 DEF ParentNew, StartParentTimer
  <2>3. CASE ParentChanged(n)
    BY <2>3 DEF ParentChanged
  <2>4. CASE ParentNotChanged(n)
    BY <2>4 DEF ParentNotChanged
  <2>5. CASE FromParentInfinite(n)
    BY <2>5 DEF FromParentInfinite, Detach
  <2> QED BY <1>1, <2>1, <2>2, <2>3, <2>4, <2>5 DEF Received
<1>2. ASSUME NEW n \in Others, Missed(n) PROVE Watched'
  BY <1>2 DEF Missed
<1>3. ASSUME NEW n \in Others, Restarted(n) PROVE Watched'
  BY <1>3 DEF Restarted
<1>4. ASSUME NEW n \in Others, Leave(n) \/ Return(n) PROVE Watched'
  BY <1>4 DEF Leave, Return
<1>8. CASE RootChildrenCallback
  BY <1>8 DEF RootChildrenCallback
<1>5. CASE ParentCallback
  BY <1>5 DEF ParentCallback, Detach
<1>6. CASE Tick
  BY <1>6 DEF Tick, TypeOK
<1>7. CASE UNCHANGED vars
  BY <1>7 DEF vars
<1> QED BY <1>1, <1>2, <1>3, <1>4, <1>5, <1>6, <1>7, <1>8
        DEF Next, SendDIO, AnswerDIS, ResetTimers, ProcessEvent

(* A DIO that the mote receives starts the timer anew, and forgives the     *)
(* delay until the next one.                                                *)
LEMMA ReceivedInTime ==
  ASSUME TypeOK, TypeOK', Watched, NextDIOInTime, NEW n \in Others, Received(n),
         alive' = alive,
         \A m \in Others \ {n} : send_timer'[m] = send_timer[m]
  PROVE  NextDIOInTime'
<1> SUFFICES ASSUME in_dodag', ~changed', alive'[parent']
             PROVE  Running' /\ (TIMEOUT_PARENT - parent_timer') + send_timer'[parent'] <= Forgiven'
  BY DEF NextDIOInTime
<1>1. ASSUME parent' = n, StartParentTimer
      PROVE  Running' /\ (TIMEOUT_PARENT - parent_timer') + send_timer'[parent'] <= Forgiven'
  <2>1. send_timer'[n] \in 0 .. LongestDelay
    BY DEF TypeOK
  <2>2. Forgiven' = LongestDelay
    BY <1>1, LongestDelayNat DEF StartParentTimer, Forgiven, LongestDelay
  <2> QED BY <1>1, <2>1, <2>2, KeepaliveAssumption, LongestDelayNat
          DEF StartParentTimer, Running, Off
<1>2. CASE FromParent(n)
  BY <1>1, <1>2 DEF FromParent
<1>3. CASE ParentNew(n)
  BY <1>1, <1>3 DEF ParentNew
<1>4. CASE ParentChanged(n)
  BY <1>4 DEF ParentChanged
<1>5. CASE ParentNotChanged(n)
  BY <1>5 DEF ParentNotChanged, NextDIOInTime, Running, Forgiven, LongestDelay, Watched
<1>6. CASE FromParentInfinite(n)
  BY <1>6 DEF FromParentInfinite, Detach
<1> QED BY <1>2, <1>3, <1>4, <1>5, <1>6 DEF Received

OneMore(n) ==
  IF n = parent /\ Running
    THEN lost' + restarts' = lost + restarts + 1
    ELSE UNCHANGED <<lost, restarts>>

(* A DIO that the mote misses is forgiven, and so is a restart.             *)
LEMMA MissedInTime ==
  ASSUME TypeOK, TypeOK', Watched, NextDIOInTime, NEW n \in Others,
         alive' = alive, UNCHANGED <<in_dodag, parent, parent_timer, changed>>,
         \A m \in Others \ {n} : send_timer'[m] = send_timer[m],
         OneMore(n)
  PROVE  NextDIOInTime'
<1> SUFFICES ASSUME in_dodag, ~changed, alive[parent]
             PROVE  Running /\ (TIMEOUT_PARENT - parent_timer) + send_timer'[parent] <= Forgiven'
  BY DEF NextDIOInTime, Running
<1>1. parent \in Others /\ Running
  BY DEF Watched
<1>2. (TIMEOUT_PARENT - parent_timer) + send_timer[parent] <= Forgiven
  BY DEF NextDIOInTime
<1>3. CASE n # parent
  BY <1>1, <1>2, <1>3 DEF OneMore, Forgiven, LongestDelay
<1>4. CASE n = parent
  <2> DEFINE k == 1 + lost + restarts
  <2>0. lost \in Nat /\ restarts \in Nat /\ lost' \in Nat /\ restarts' \in Nat
    BY KeepaliveAssumption DEF TypeOK
  <2>1. k \in Nat /\ 1 + lost' + restarts' = k + 1
    <3>1. lost' + restarts' = lost + restarts + 1
      BY <1>1, <1>4 DEF OneMore
    <3> QED BY <2>0, <3>1, CountOneMore
  <2>2. Forgiven' = (k + 1) * LongestDelay
    <3>1. Forgiven' = (1 + lost' + restarts') * LongestDelay
      BY DEF Forgiven, LongestDelay
    <3> QED BY <2>1, <3>1
  <2> HIDE DEF k
  <2>3. Forgiven = k * LongestDelay
    BY DEF Forgiven, k
  <2>4. k * LongestDelay \in Nat /\ (k + 1) * LongestDelay = k * LongestDelay + LongestDelay
    BY <2>1, ForgiveOneMore
  <2>5. send_timer'[parent] <= LongestDelay /\ send_timer'[parent] \in Int
    BY <1>1, LongestDelayNat DEF TypeOK
  <2>6. send_timer[parent] >= 0 /\ send_timer[parent] \in Int
        /\ parent_timer \in Int /\ TIMEOUT_PARENT \in Int
    BY <1>1, LongestDelayNat, KeepaliveAssumption DEF TypeOK, Off
  <2> QED BY <1>1, <1>2, <2>2, <2>3, <2>4, <2>5, <2>6, LongestDelayNat
<1> QED BY <1>3, <1>4

LEMMA InTimeStep ==
  TypeOK /\ TypeOK' /\ Watched /\ NextDIOInTime /\ [Next]_vars => NextDIOInTime'
<1> SUFFICES ASSUME TypeOK, TypeOK', Watched, NextDIOInTime, [Next]_vars
             PROVE  NextDIOInTime'
  OBVIOUS
<1>1. ASSUME NEW n \in Others, SendDIO(n) PROVE NextDIOInTime'
  <2>1. alive' = alive /\ \A m \in Others \ {n} : send_timer'[m] = send_timer[m]
    BY <1>1 DEF SendDIO, TypeOK
  <2>2. CASE Received(n)
    BY <2>1, <2>2, ReceivedInTime
  <2>3. CASE Missed(n)
    BY <2>1, <2>3, MissedInTime, KeepaliveAssumption DEF Missed, OneMore, TypeOK
  <2> QED BY <1>1, <2>2, <2>3 DEF SendDIO
<1>2. ASSUME NEW n \in Others, AnswerDIS(n) PROVE NextDIOInTime'
  <2>1. alive' = alive /\ \A m \in Others \ {n} : send_timer'[m] = send_timer[m]
    BY <1>2 DEF AnswerDIS, theirs
  <2>2. CASE Received(n)
    BY <2>1, <2>2, ReceivedInTime
  <2>3. CASE Missed(n)
    BY <2>1, <2>3, MissedInTime, KeepaliveAssumption DEF Missed, OneMore, TypeOK
  <2> QED BY <1>2, <2>2, <2>3 DEF AnswerDIS
<1>3. ASSUME NEW n \in Others, ResetTimers(n) \/ ProcessEvent(n) PROVE NextDIOInTime'
  <2>1. Restarted(n) /\ \A m \in Others \ {n} : send_timer'[m] = send_timer[m]
    BY <1>3 DEF ResetTimers, ProcessEvent, TypeOK
  <2> QED BY <2>1, MissedInTime, KeepaliveAssumption DEF Restarted, OneMore, TypeOK
<1>4. ASSUME NEW n \in Others, Leave(n) PROVE NextDIOInTime'
  <2>1. \A m \in Others : alive'[m] => alive[m]
    BY <1>4 DEF Leave, TypeOK
  <2> QED BY <1>4, <2>1 DEF Leave, NextDIOInTime, Watched, Running, Forgiven, LongestDelay
<1>8. ASSUME NEW n \in Others, Return(n) PROVE NextDIOInTime'
  <2>1. /\ UNCHANGED <<in_dodag, parent, parent_timer, lost, restarts>>
        /\ \A m \in Others \ {n} : alive'[m] = alive[m] /\ send_timer'[m] = send_timer[m]
        /\ ~changed' => ~changed /\ parent # n
    BY <1>8 DEF Return, TypeOK
  <2> QED BY <2>1 DEF NextDIOInTime, Watched, Running, Forgiven, LongestDelay
<1>9. CASE RootChildrenCallback
  BY <1>9 DEF RootChildrenCallback, NextDIOInTime, Running, Forgiven, LongestDelay
<1>5. CASE ParentCallback
  BY <1>5 DEF ParentCallback, Detach, NextDIOInTime, Watched
<1>6. CASE Tick
  <2> SUFFICES ASSUME in_dodag, ~changed, alive[parent]
               PROVE  /\ Running'
                      /\ (TIMEOUT_PARENT - parent_timer') + send_timer'[parent] <= Forgiven
    BY <1>6 DEF Tick, NextDIOInTime, Forgiven, LongestDelay
  <2>1. parent \in Others /\ Running
    BY DEF Watched
  <2>2. (TIMEOUT_PARENT - parent_timer) + send_timer[parent] <= Forgiven
    BY DEF NextDIOInTime
  <2>3. send_timer'[parent] = send_timer[parent] - 1 /\ send_timer[parent] \in Int
    BY <1>6, <2>1, LongestDelayNat DEF Tick, TypeOK
  <2>4. parent_timer' = parent_timer - 1 /\ parent_timer \in Nat /\ parent_timer # 0
    BY <1>6, <2>1, KeepaliveAssumption DEF Tick, TypeOK, Running, Off
  <2> QED BY <2>2, <2>3, <2>4, KeepaliveAssumption DEF Running, Off
<1>7. CASE UNCHANGED vars
  BY <1>7 DEF vars, NextDIOInTime, Running, Forgiven, LongestDelay
<1> QED BY <1>1, <1>2, <1>3, <1>4, <1>5, <1>6, <1>7, <1>8, <1>9 DEF Next

LEMMA KeepaliveInvariant == Spec => [](TypeOK /\ Watched /\ NextDIOInTime)
<1>1. Init => Watched /\ NextDIOInTime
  BY DEF Init, Watched, NextDIOInTime
<1> QED BY <1>1, TypeInit, TypeStep, WatchedStep, InTimeStep, PTL DEF Spec

(* The parent's next DIO is due before the parent timer fires, as long as   *)
(* the delays forgiven so far fit in it (send_callback, parent_callback).   *)
THEOREM InTime == Spec => []NextDIOInTime
BY KeepaliveInvariant, PTL

(* A mote detaches by its parent timer only if its parent has left, has     *)
(* been silent for TIMEOUT_PARENT in lost or restarted delays, or is not    *)
(* the one the timer was started for or left since (parent_callback).       *)
THEOREM NoDetachWithoutCause == Spec => DetachHasCause
<1> DEFINE HasCause == ~alive[parent] \/ Forgiven >= TIMEOUT_PARENT \/ changed
<1>1. TypeOK /\ Watched /\ NextDIOInTime => [ParentCallback /\ in_dodag => HasCause]_vars
  <2> SUFFICES ASSUME TypeOK, Watched, NextDIOInTime, ParentCallback, in_dodag,
                      alive[parent], ~changed
               PROVE  Forgiven >= TIMEOUT_PARENT
    OBVIOUS
  <2>1. parent \in Others /\ parent_timer = 0
    BY DEF Watched, ParentCallback
  <2>2. TIMEOUT_PARENT + send_timer[parent] <= Forgiven
    BY <2>1, KeepaliveAssumption DEF NextDIOInTime
  <2>3. send_timer[parent] \in Nat
    BY <2>1, LongestDelayNat DEF TypeOK
  <2>4. Forgiven \in Int
    BY LongestDelayNat, KeepaliveAssumption DEF TypeOK, Forgiven
  <2> QED BY <2>2, <2>3, <2>4, KeepaliveAssumption
<1> QED BY <1>1, KeepaliveInvariant, PTL DEF DetachHasCause

(* A mote detaches by its parent timer only if its parent has left since, is *)
(* not the one the timer was started for, or if two of its DIOs in a row     *)
(* were lost or put off (parent_callback).                                   *)
DetachAfterTwo ==
  [][ParentCallback /\ in_dodag =>
       ~alive[parent] \/ lost + restarts >= 2 \/ changed]_vars

(* With the times of the code, 50 s against intervals of at most 20 s        *)
(* (TIMEOUT_PARENT in routing.h, T_MAX in trickle-timer.h), a single lost    *)
(* DIO or a single restart of the parent's send timer is always forgiven.    *)
THEOREM OneIsForgiven ==
  ASSUME 2 * LongestDelay < TIMEOUT_PARENT
  PROVE  Spec => DetachAfterTwo
<1> DEFINE HasCause == ~alive[parent] \/ Forgiven >= TIMEOUT_PARENT \/ changed
           Twice == ~alive[parent] \/ lost + restarts >= 2 \/ changed
<1>1. TypeOK /\ [ParentCallback /\ in_dodag => HasCause]_vars
        => [ParentCallback /\ in_dodag => Twice]_vars
  <2> SUFFICES ASSUME TypeOK, Forgiven >= TIMEOUT_PARENT, lost + restarts < 2
               PROVE  FALSE
    BY LongestDelayNat, KeepaliveAssumption DEF TypeOK
  <2>1. lost + restarts \in {0, 1}
    BY KeepaliveAssumption DEF TypeOK
  <2>2. 1 + lost + restarts = 1 \/ 1 + lost + restarts = 2
    BY <2>1, KeepaliveAssumption DEF TypeOK
  <2>3. Forgiven = LongestDelay \/ Forgiven = 2 * LongestDelay
    BY <2>2, LongestDelayNat DEF Forgiven
  <2> QED BY <2>3, LongestDelayNat, KeepaliveAssumption
<1> QED BY <1>1, NoDetachWithoutCause, TypeCorrect, PTL DEF DetachHasCause, DetachAfterTwo
=============================================================================
