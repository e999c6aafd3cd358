--------------------------- MODULE ChildrenProofs ---------------------------
(***************************************************************************)
(* Proofs about Children: the type invariant, that entries are renewed in  *)
(* time and time out only for a reason, and that old ones go, for any      *)
(* timer values within the C types and any number of children.             *)
(***************************************************************************)
EXTENDS Children, TLAPS

LEMMA TimesNat ==
  /\ LongestDelay \in Nat /\ LongestGap \in Nat
  /\ Timeout \in Nat \ {0} /\ CLOCK_SECOND \in Nat \ {0}
<1>1. ASSUME NEW k \in Nat \ {0}, NEW t \in Nat \ {0} PROVE k * t \in Nat \ {0}
  BY <1>1, SMT
<1>2. ASSUME NEW k \in Nat, NEW t \in Nat PROVE k * t \in Nat
  BY <1>2, SMT
<1>3. LongestDelay \in Nat
  BY <1>2, TrickleAssumption DEF LongestDelay
<1> QED BY <1>1, <1>3, TrickleAssumption, ChildrenAssumption DEF LongestGap, Timeout

(* A delay of the DAO timer is never longer than T_MAX seconds              *)
(* (trickle_random in uint16_t arithmetic).                                 *)
LEMMA DelayInRange ==
  ASSUME NEW t \in Ts, NEW d \in trickle_random(t)
  PROVE  d \in 0 .. LongestDelay
<1> DEFINE ticks == CLOCK_SECOND * t
           half == ticks \div 2
<1>1. t \in Nat /\ CLOCK_SECOND \in Nat /\ T_MAX \in Nat /\ t <= T_MAX
  BY TrickleAssumption DEF Ts
<1>2. ticks \in Nat /\ ticks <= CLOCK_SECOND * T_MAX
  BY <1>1, SMT
<1>3. PICK random \in 0 .. (ticks % 65536) - (half % 65536) :
        d = (half % 65536) + random
  BY DEF trickle_random
<1>4. ticks <= LongestDelay /\ ticks < 65536 /\ LongestDelay \in Nat
  BY <1>2, TimesNat, TrickleAssumption DEF LongestDelay
<1> HIDE DEF ticks
<1>5. half \in Nat /\ half <= ticks
  BY <1>2
<1>6. half % 65536 = half /\ ticks % 65536 = ticks
  BY <1>2, <1>4, <1>5
<1> HIDE DEF half
<1> QED BY <1>2, <1>3, <1>4, <1>5, <1>6

(* No two DAOs of a child are further apart than LongestGap.                *)
LEMMA GapInRange ==
  ASSUME NEW S \in SUBSET Ts, NEW gap \in Gaps(S)
  PROVE  gap \in 0 .. LongestGap
<1>1. PICK delay \in UNION {trickle_random(T) : T \in S},
           late \in -MaxTransit .. MaxTransit :
        gap = delay + late /\ gap >= 0
  BY DEF Gaps
<1>2. delay \in 0 .. LongestDelay
  BY <1>1, DelayInRange
<1> QED BY <1>1, <1>2, TimesNat, ChildrenAssumption DEF LongestGap

LEMMA SomeTs == Ts \in SUBSET Ts /\ {T_MIN} \in SUBSET Ts
BY TrickleAssumption DEF Ts

-----------------------------------------------------------------------------
LEMMA TypeInit == Init => TypeOK
BY TimesNat, ChildrenAssumption DEF Init, TypeOK, Off, NoEntry

LEMMA TypeStep == TypeOK /\ [Next]_vars => TypeOK'
<1> SUFFICES ASSUME TypeOK, [Next]_vars PROVE TypeOK'
  OBVIOUS
<1> USE DEF TypeOK
<1>1. ASSUME NEW c \in Children, RecvDAO(c) PROVE TypeOK'
  <2>1. due' \in [Children -> 0 .. LongestGap]
    BY <1>1, SomeTs, GapInRange DEF RecvDAO
  <2> QED BY <1>1, <2>1, ChildrenAssumption DEF RecvDAO, timer
<1>2. ASSUME NEW c \in Children, Missed(c) PROVE TypeOK'
  <2>1. due' \in [Children -> 0 .. LongestGap]
    BY <1>2, SomeTs, GapInRange DEF Missed
  <2>2. lost' \in [Children -> 0 .. MaxLost]
    BY <1>2, ChildrenAssumption DEF Missed
  <2> QED BY <1>2, <2>1, <2>2 DEF Missed, timer
<1>3. ASSUME NEW c \in Children, ResetTimers(c) PROVE TypeOK'
  <2>1. due' \in [Children -> 0 .. LongestGap]
    BY <1>3, SomeTs, GapInRange DEF ResetTimers
  <2>2. restarts' \in [Children -> 0 .. MaxRestarts]
    BY <1>3, ChildrenAssumption DEF ResetTimers
  <2> QED BY <1>3, <2>1, <2>2 DEF ResetTimers, timer
<1>4. ASSUME NEW c \in Children, Leave(c) PROVE TypeOK'
  BY <1>4, TimesNat, ChildrenAssumption DEF Leave, timer
<1>5. CASE children_callback
  <2>1. age' \in [Children -> {NoEntry} \cup Nat]
    BY <1>5 DEF children_callback
  <2> QED BY <1>5, <2>1, TimesNat, ChildrenAssumption DEF children_callback, theirs
<1>6. CASE ProcessEvent
  <2>1. CASE children_timer = Off
    BY <1>6, <2>1, TimesNat, ChildrenAssumption DEF ProcessEvent, theirs, Off
  <2>2. CASE children_timer \in 0 .. Timeout
    BY <1>6, <2>2, TimesNat, ChildrenAssumption DEF ProcessEvent, theirs
  <2> QED BY <2>1, <2>2
<1>7. CASE Detach
  <2>1. is_root' = is_root /\ in_dodag' = FALSE /\ UNCHANGED theirs
    BY <1>7 DEF Detach
  <2>2. /\ age' \in [Children -> {NoEntry} \cup Nat]
        /\ children_timer' = Off /\ put_off' \in 0 .. MaxPutOff
    BY <1>7, ChildrenAssumption DEF Detach
  <2> QED BY <2>1, <2>2 DEF theirs
<1>8. CASE Join
  BY <1>8, TimesNat DEF Join, theirs
<1>9. CASE Tick
  <2>1. age' \in [Children -> {NoEntry} \cup Nat]
    BY <1>9 DEF Tick
  <2>2. due' \in [Children -> 0 .. LongestGap]
    BY <1>9, TimesNat DEF Tick
  <2>3. children_timer' \in {Off} \cup 0 .. Timeout /\ put_off' \in 0 .. MaxPutOff
    BY <1>9, TimesNat, ChildrenAssumption DEF Tick, Off
  <2> QED BY <1>9, <2>1, <2>2, <2>3 DEF Tick
<1>10. CASE UNCHANGED vars
  BY <1>10 DEF vars
<1> QED BY <1>1, <1>2, <1>3, <1>4, <1>5, <1>6, <1>7, <1>8, <1>9, <1>10 DEF Next

(* The variables of Children keep their types: no DAO is ever due later     *)
(* than the longest delay and transit (trickle_random, DAO_callback).       *)
THEOREM TypeCorrect == Spec => []TypeOK
BY TypeInit, TypeStep, PTL DEF Spec

-----------------------------------------------------------------------------
(* What one more lost DAO, or one more restart, forgives. *)
LEMMA ForgiveOneMore ==
  ASSUME NEW k \in Nat
  PROVE  /\ k * LongestGap \in Nat
         /\ (k + 1) * LongestGap = k * LongestGap + LongestGap
<1>1. ASSUME NEW d \in Nat
      PROVE  k * d \in Nat /\ (k + 1) * d = k * d + d
  BY <1>1, SMT
<1> QED BY <1>1, TimesNat

(* A DAO of c is lost or put off: the next is due one gap from now at most. *)
LEMMA OneMoreGap ==
  ASSUME TypeOK, TypeOK', RenewedInTime, NEW c \in Children,
         lost'[c] + restarts'[c] = lost[c] + restarts[c] + 1,
         \A k \in Children \ {c} :
           due'[k] = due[k] /\ lost'[k] = lost[k] /\ restarts'[k] = restarts[k],
         UNCHANGED <<timer, age, below>>
  PROVE  RenewedInTime'
<1> SUFFICES ASSUME NEW k \in Children, below[k], age[k] # NoEntry
             PROVE  age[k] + due'[k] <= Forgiven(k)'
  BY DEF RenewedInTime
<1>1. age[k] + due[k] <= Forgiven(k)
  BY DEF RenewedInTime
<1>2. CASE k # c
  BY <1>1, <1>2 DEF Forgiven, LongestGap, LongestDelay
<1>3. CASE k = c
  <2> DEFINE n == 1 + lost[c] + restarts[c]
  <2>1. n \in Nat /\ 1 + lost'[c] + restarts'[c] = n + 1
    BY DEF TypeOK
  <2>2. Forgiven(c)' = n * LongestGap + LongestGap /\ n * LongestGap \in Nat
    BY <2>1, ForgiveOneMore DEF Forgiven, LongestGap, LongestDelay
  <2>3. age[c] <= n * LongestGap
    BY <1>1, <1>3, <2>2, TimesNat DEF TypeOK, Forgiven, NoEntry
  <2>4. due'[c] <= LongestGap /\ due'[c] \in Nat /\ age[c] \in Nat
    BY <1>3, TimesNat DEF TypeOK
  <2> HIDE DEF n
  <2> QED BY <1>3, <2>2, <2>3, <2>4, TimesNat
<1> QED BY <1>2, <1>3

LEMMA RenewedStep == TypeOK /\ RenewedInTime /\ [Next]_vars => RenewedInTime'
<1> SUFFICES ASSUME TypeOK, RenewedInTime, [Next]_vars PROVE RenewedInTime'
  OBVIOUS
<1>0. TypeOK'
  BY TypeStep
<1> USE DEF TypeOK
<1>1. ASSUME NEW c \in Children, RecvDAO(c) PROVE RenewedInTime'
  <2> SUFFICES ASSUME NEW k \in Children, below'[k], age'[k] # NoEntry
               PROVE  age'[k] + due'[k] <= Forgiven(k)'
    BY DEF RenewedInTime
  <2>1. CASE k = c
    <3>1. age'[c] = 0 /\ lost'[c] = 0 /\ restarts'[c] = 0
      BY <1>1 DEF RecvDAO
    <3>2. Forgiven(c)' = LongestGap
      <4>1. ASSUME NEW d \in Nat PROVE (1 + 0 + 0) * d = d
        BY <4>1, SMT
      <4> QED BY <3>1, <4>1, TimesNat DEF Forgiven, LongestGap, LongestDelay
    <3>3. due'[c] <= LongestGap /\ due'[c] \in Nat
      BY <1>0, TimesNat
    <3> QED BY <2>1, <3>1, <3>2, <3>3
  <2>2. CASE k # c
    <3>1. /\ below[k] /\ age'[k] = age[k] /\ due'[k] = due[k]
          /\ lost'[k] = lost[k] /\ restarts'[k] = restarts[k]
      BY <1>1, <2>2 DEF RecvDAO
    <3> QED BY <3>1 DEF RenewedInTime, Forgiven, LongestGap, LongestDelay
  <2> QED BY <2>1, <2>2
<1>2. ASSUME NEW c \in Children, Missed(c) PROVE RenewedInTime'
  <2>1. /\ lost'[c] = lost[c] + 1 /\ restarts'[c] = restarts[c]
        /\ \A k \in Children \ {c} :
             due'[k] = due[k] /\ lost'[k] = lost[k] /\ restarts'[k] = restarts[k]
        /\ UNCHANGED <<timer, age, below>>
    BY <1>2 DEF Missed
  <2> QED BY <1>0, <2>1, OneMoreGap
<1>3. ASSUME NEW c \in Children, ResetTimers(c) PROVE RenewedInTime'
  <2>1. /\ lost'[c] = lost[c] /\ restarts'[c] = restarts[c] + 1
        /\ \A k \in Children \ {c} :
             due'[k] = due[k] /\ lost'[k] = lost[k] /\ restarts'[k] = restarts[k]
        /\ UNCHANGED <<timer, age, below>>
    BY <1>3 DEF ResetTimers
  <2> QED BY <1>0, <2>1, OneMoreGap
<1>4. ASSUME NEW c \in Children, Leave(c) PROVE RenewedInTime'
  BY <1>4 DEF Leave, timer, RenewedInTime, Forgiven, LongestGap, LongestDelay
<1>5. CASE children_callback
  BY <1>5 DEF children_callback, theirs, RenewedInTime, Forgiven, LongestGap, LongestDelay
<1>6. CASE ProcessEvent
  BY <1>6 DEF ProcessEvent, theirs, RenewedInTime, Forgiven, LongestGap, LongestDelay
<1>7. CASE Detach
  BY <1>7 DEF Detach, theirs, RenewedInTime
<1>8. CASE Join
  BY <1>8 DEF Join, theirs, RenewedInTime, Forgiven, LongestGap, LongestDelay
<1>9. CASE Tick
  <2> SUFFICES ASSUME NEW k \in Children, below'[k], age'[k] # NoEntry
               PROVE  age'[k] + due'[k] <= Forgiven(k)'
    BY DEF RenewedInTime
  <2>1. below[k] /\ due'[k] = due[k] - 1 /\ age[k] # NoEntry /\ age'[k] = age[k] + 1
    BY <1>9 DEF Tick
  <2>2. Forgiven(k)' = Forgiven(k)
    BY <1>9 DEF Tick, Forgiven, LongestGap, LongestDelay
  <2>3. age[k] + due[k] <= Forgiven(k)
    BY <2>1 DEF RenewedInTime
  <2>4. age'[k] + due'[k] = age[k] + due[k]
    BY <2>1, TimesNat DEF NoEntry
  <2> QED BY <2>2, <2>3, <2>4
<1>10. CASE UNCHANGED vars
  BY <1>10 DEF vars, RenewedInTime, Forgiven, LongestGap, LongestDelay
<1> QED BY <1>1, <1>2, <1>3, <1>4, <1>5, <1>6, <1>7, <1>8, <1>9, <1>10 DEF Next

LEMMA RenewedAlways == Spec => [](TypeOK /\ RenewedInTime)
<1>1. Init => TypeOK /\ RenewedInTime
  BY TypeInit DEF Init, RenewedInTime
<1>2. (TypeOK /\ RenewedInTime) /\ [Next]_vars => (TypeOK /\ RenewedInTime)'
  BY TypeStep, RenewedStep
<1> QED BY <1>1, <1>2, PTL DEF Spec

(* Whatever timer values, number of children and losses, the entry of a     *)
(* mote that is still below is no older than lost DAOs and restarts explain *)
(* (DAO_callback, hashmap_put).                                             *)
THEOREM Renewed == Spec => []RenewedInTime
BY RenewedAlways, PTL

(* The children timer deletes an entry only for a reason                    *)
(* (children_callback, hashmap_delete_timeout).                             *)
THEOREM NotForgottenWithoutCause == Spec => ForgottenHasCause
<1>1. ASSUME TypeOK, RenewedInTime, [Next]_vars
      PROVE  [\A c \in Children :
                children_callback /\ age[c] # NoEntry /\ age'[c] = NoEntry =>
                  ~below[c] \/ Forgiven(c) > Timeout]_vars
  <2> SUFFICES ASSUME NEW c \in Children, children_callback,
                      age[c] # NoEntry, age'[c] = NoEntry, below[c]
               PROVE  Forgiven(c) > Timeout
    OBVIOUS
  <2>1. age[c] > Timeout
    BY DEF children_callback, MayTimeOut
  <2>2. age[c] + due[c] <= Forgiven(c)
    BY <1>1 DEF RenewedInTime
  <2>3. age[c] \in Nat /\ due[c] \in Nat
    BY <1>1, TimesNat DEF TypeOK
  <2>4. Forgiven(c) \in Nat
    <3>1. 1 + lost[c] + restarts[c] \in Nat
      BY <1>1 DEF TypeOK
    <3> QED BY <3>1, ForgiveOneMore DEF Forgiven
  <2> QED BY <2>1, <2>2, <2>3, <2>4, TimesNat
<1> QED BY <1>1, RenewedAlways, PTL DEF Spec, ForgottenHasCause

-----------------------------------------------------------------------------
(* The children timer takes a mote that is still below out of the routing   *)
(* table only after k of its DAOs in a row were lost or put off             *)
(* (children_callback). *)
ForgottenAfter(k) ==
  [][\A c \in Children :
       children_callback /\ age[c] # NoEntry /\ age'[c] = NoEntry =>
         ~below[c] \/ lost[c] + restarts[c] >= k]_vars

(* All but the last of as many DAOs as fit in TIMEOUT_CHILDREN are          *)
(* forgiven.  In the code that is 150 s (hashmap.h), against intervals of   *)
(* at most 20 s (T_MAX): six in a row, for DAOs that climb within 1.4 s.    *)
THEOREM ManyAreForgiven ==
  ASSUME NEW k \in Nat, k * LongestGap <= Timeout
  PROVE  Spec => ForgottenAfter(k)
<1>1. ASSUME TypeOK, NEW c \in Children, Forgiven(c) > Timeout
      PROVE  lost[c] + restarts[c] >= k
  <2>1. PICK n \in Nat : n = 1 + lost[c] + restarts[c]
    BY <1>1 DEF TypeOK
  <2>2. LongestGap \in Nat /\ Timeout \in Nat
    BY TimesNat
  <2>3. \A g \in Nat : n <= k => n * g <= k * g
    BY <2>1
  <2>4. ~(n <= k)
    BY <1>1, <2>1, <2>2, <2>3 DEF Forgiven
  <2> QED BY <1>1, <2>1, <2>4 DEF TypeOK
<1>2. TypeOK /\ [\A c \in Children :
                   children_callback /\ age[c] # NoEntry /\ age'[c] = NoEntry =>
                     ~below[c] \/ Forgiven(c) > Timeout]_vars
        => [\A c \in Children :
              children_callback /\ age[c] # NoEntry /\ age'[c] = NoEntry =>
                ~below[c] \/ lost[c] + restarts[c] >= k]_vars
  BY <1>1
<1> QED BY <1>2, NotForgottenWithoutCause, TypeCorrect, PTL DEF ForgottenHasCause, ForgottenAfter

-----------------------------------------------------------------------------
(* How long the children timer has been running. *)
Elapsed == IF children_timer = Off THEN 0 ELSE Timeout - children_timer

(* The timer runs in the DODAG only.  Entries are as old as what survived   *)
(* its last callback, and the time since. *)
TimerInDodag ==
  /\ in_dodag <=> children_timer # Off
  /\ is_root => in_dodag
OldInv ==
  /\ TypeOK
  /\ TimerInDodag
  /\ \A c \in Children : age[c] <= Timeout + CLOCK_SECOND + put_off + Elapsed

LEMMA OldStep == OldInv /\ [Next]_vars => OldInv'
<1> SUFFICES ASSUME OldInv, [Next]_vars PROVE OldInv'
  OBVIOUS
<1>0. TypeOK /\ TypeOK'
  BY TypeStep DEF OldInv
<1> DEFINE Bound == Timeout + CLOCK_SECOND + put_off + Elapsed
<1>a. /\ put_off \in Nat /\ put_off' \in Nat
      /\ children_timer \in {Off} \cup 0 .. Timeout
      /\ children_timer' \in {Off} \cup 0 .. Timeout
      /\ \A c \in Children : age[c] \in {NoEntry} \cup Nat
  BY <1>0, ChildrenAssumption DEF TypeOK
<1>b. Elapsed \in Nat /\ Elapsed' \in Nat
  BY <1>a, TimesNat DEF Elapsed, Off, Timeout
<1>c. Bound \in Nat /\ Bound' \in Nat /\ Timeout' = Timeout
  BY <1>a, <1>b, TimesNat DEF Timeout
<1>d. \A c \in Children : age[c] <= Bound
  BY DEF OldInv
<1> SUFFICES TimerInDodag' /\ \A c \in Children : age'[c] <= Bound'
  BY <1>0 DEF OldInv
<1>1. ASSUME NEW c \in Children, RecvDAO(c)
      PROVE  TimerInDodag' /\ \A k \in Children : age'[k] <= Bound'
  <2>1. UNCHANGED timer /\ Bound' = Bound
    BY <1>1 DEF RecvDAO, timer, Elapsed, Timeout
  <2>2. \A k \in Children : age'[k] \in {0, age[k]}
    BY <1>1, <1>0 DEF RecvDAO, TypeOK
  <2> QED BY <2>1, <2>2, <1>c, <1>d DEF OldInv, TimerInDodag, timer
<1>2. ASSUME UNCHANGED <<timer, age>>
      PROVE  TimerInDodag' /\ \A k \in Children : age'[k] <= Bound'
  <2>1. Bound' = Bound
    BY <1>2 DEF timer, Elapsed, Timeout
  <2> QED BY <1>2, <2>1, <1>d DEF OldInv, TimerInDodag, timer
<1>5. CASE children_callback
  <2>1. TimerInDodag' /\ in_dodag
    BY <1>5, TimesNat DEF OldInv, TimerInDodag, children_callback, Off
  <2>2. Bound' = Timeout + CLOCK_SECOND
    BY <1>5, TimesNat DEF children_callback, Elapsed, Off, Timeout
  <2>3. ASSUME NEW k \in Children PROVE age'[k] <= Timeout + CLOCK_SECOND
    <3>1. CASE age'[k] = NoEntry
      BY <3>1, TimesNat DEF NoEntry
    <3>2. CASE age'[k] # NoEntry
      <4>1. age'[k] = age[k] /\ k \notin MustTimeOut
        BY <1>5, <2>1, <3>2 DEF children_callback
      <4> QED BY <4>1, <1>a, TimesNat DEF MustTimeOut, NoEntry
    <3> QED BY <3>1, <3>2
  <2> QED BY <2>1, <2>2, <2>3
<1>6. CASE ProcessEvent
  <2>1. children_timer # Off /\ Elapsed = Timeout - children_timer
    BY <1>6 DEF OldInv, TimerInDodag, ProcessEvent, Elapsed
  <2>2. put_off' = put_off + Elapsed /\ Elapsed' = 0
    BY <1>6, <2>1, TimesNat DEF ProcessEvent, Elapsed, Off, Timeout
  <2>3. Bound' = Bound
    BY <2>2, <1>a, <1>b, TimesNat DEF Timeout
  <2>4. TimerInDodag'
    BY <1>6, <2>1, TimesNat DEF OldInv, TimerInDodag, ProcessEvent, Off
  <2> QED BY <1>6, <2>3, <2>4, <1>d DEF ProcessEvent
<1>7. CASE Detach
  <2>1. \A k \in Children : age'[k] = NoEntry
    BY <1>7 DEF Detach
  <2>2. TimerInDodag'
    BY <1>7 DEF Detach, TimerInDodag
  <2> QED BY <2>1, <2>2, <1>c DEF NoEntry
<1>8. CASE Join
  <2>1. Elapsed = 0 /\ Elapsed' = 0 /\ put_off' = put_off
    BY <1>8, TimesNat DEF Join, OldInv, TimerInDodag, Elapsed, Off, Timeout
  <2>2. Bound' = Bound
    BY <2>1 DEF Timeout
  <2>3. TimerInDodag'
    BY <1>8, TimesNat DEF Join, TimerInDodag, Off
  <2> QED BY <1>8, <2>2, <2>3, <1>d DEF Join, theirs
<1>9. CASE Tick
  <2>1. Bound' = Bound + 1 /\ TimerInDodag'
    <3>1. CASE children_timer = Off
      BY <1>9, <3>1, <1>a, TimesNat DEF Tick, OldInv, TimerInDodag, Elapsed, Off, Timeout
    <3>2. CASE children_timer # Off
      <4>1. children_timer \in Nat \ {0} /\ children_timer' = children_timer - 1
            /\ put_off' = put_off
        BY <1>9, <3>2, <1>a, TimesNat DEF Tick
      <4>2. Elapsed' = Elapsed + 1
        BY <4>1, <3>2, TimesNat DEF Elapsed, Off, Timeout
      <4> QED BY <1>9, <3>2, <4>1, <4>2, <1>a, <1>b, TimesNat
              DEF Tick, OldInv, TimerInDodag, Off, Timeout
    <3> QED BY <3>1, <3>2
  <2>2. ASSUME NEW k \in Children PROVE age'[k] = NoEntry \/ age'[k] = age[k] + 1
    BY <1>9 DEF Tick
  <2> QED BY <2>1, <2>2, <1>a, <1>c, <1>d DEF NoEntry
<1>10. CASE UNCHANGED vars
  BY <1>2, <1>10 DEF vars, timer
<1> QED BY <1>1, <1>2, <1>5, <1>6, <1>7, <1>8, <1>9, <1>10
        DEF Next, Missed, ResetTimers, Leave

(* An entry that is not renewed is deleted after little more than twice     *)
(* TIMEOUT_CHILDREN, and as much later as the children timer is put off     *)
(* (root-mote.c:194-203, hashmap_delete_timeout).                           *)
THEOREM OldOnesGo == Spec => []OldEntriesGo
<1>1. Init => OldInv
  <2> SUFFICES ASSUME Init PROVE OldInv
    OBVIOUS
  <2>1. put_off = 0 /\ Elapsed = 0 /\ \A c \in Children : age[c] = -1
    BY TimesNat DEF Init, Elapsed, NoEntry, Off
  <2>2. TimerInDodag
    BY TimesNat DEF Init, TimerInDodag, Off
  <2> QED BY <2>1, <2>2, TypeInit, TimesNat DEF OldInv
<1>2. OldInv => OldEntriesGo
  <2> SUFFICES ASSUME OldInv, NEW c \in Children
               PROVE  age[c] <= 2 * Timeout + CLOCK_SECOND + put_off
    BY DEF OldEntriesGo
  <2>1. Elapsed \in 0 .. Timeout
    BY TimesNat DEF OldInv, TypeOK, Elapsed, Off
  <2>2. age[c] \in Int /\ put_off \in Nat
    BY ChildrenAssumption DEF OldInv, TypeOK, NoEntry
  <2> QED BY <2>1, <2>2, TimesNat DEF OldInv
<1> QED BY <1>1, <1>2, OldStep, PTL DEF Spec
=============================================================================
