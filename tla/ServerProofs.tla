---------------------------- MODULE ServerProofs ----------------------------
(***************************************************************************)
(* Proofs about Server, for any motes, values and limits, up to the        *)
(* exceptions that end the program and beyond: the type invariant, that    *)
(* its two dictionaries agree, that only a silent mote or values of a      *)
(* single second end the program, when OPEN is sent, and that the lists    *)
(* implement module Windows.                                               *)
(***************************************************************************)
EXTENDS Server, Arithmetic

Pairs == [x : 0 .. MaxTime, y : Values]

(* list holds the values of a mote that was last heard at time t.           *)
Agree(list, t) ==
  /\ list = << >> <=> t = Never
  /\ \A j \in DOMAIN list :
       /\ list[j].x <= t
       /\ j > 1 => list[j - 1].x <= list[j].x

(* No packet comes from the future. *)
IInv ==
  /\ TypeOK
  /\ DictionariesAgree
  /\ \A m \in Motes : last_received[m] <= now

-----------------------------------------------------------------------------
LEMMA PairTime ==
  ASSUME NEW s \in Seq(Pairs), NEW j \in 1 .. Len(s)
  PROVE  s[j].x \in Int
<1>1. s[j] \in Pairs
  OBVIOUS
<1> QED BY <1>1, ServerAssumption DEF Pairs

LEMMA SeqFacts ==
  ASSUME NEW s \in Seq(Pairs)
  PROVE  DOMAIN s = 1 .. Len(s) /\ Len(s) \in Nat
OBVIOUS

(* Making room keeps a list's order (values_list[1:]). *)
LEMMA LatestAgrees ==
  ASSUME NEW list \in Seq(Pairs), NEW t \in 0 .. MaxTime, Len(list) <= MAX_VALUES,
         Agree(list, t)
  PROVE  /\ Latest(list) \in Seq(Pairs) /\ Len(Latest(list)) < MAX_VALUES
         /\ \A j \in 1 .. Len(Latest(list)) :
              /\ Latest(list)[j].x <= t
              /\ j > 1 => Latest(list)[j - 1].x <= Latest(list)[j].x
<1>1. CASE Len(list) >= MAX_VALUES
  <2> DEFINE l == Latest(list)
  <2>1. list # << >> /\ l = Tail(list)
    BY <1>1, ServerAssumption DEF Latest
  <2>2. l \in Seq(Pairs) /\ Len(l) = Len(list) - 1
    BY <2>1
  <2>3. \A j \in 1 .. Len(l) : l[j] = list[j + 1]
    BY <2>1, <2>2
  <2> HIDE DEF l
  <2>4. ASSUME NEW j \in 1 .. Len(l)
        PROVE  l[j].x <= t /\ (j > 1 => l[j - 1].x <= l[j].x)
    <3>1. j + 1 \in DOMAIN list /\ (j + 1) - 1 = j
      BY <2>2
    <3>2. list[j + 1].x <= t /\ list[(j + 1) - 1].x <= list[j + 1].x
      BY <3>1, j + 1 > 1 DEF Agree
    <3>3. j > 1 => l[j - 1] = list[j]
      <4> SUFFICES ASSUME j > 1 PROVE l[j - 1] = list[j]
        OBVIOUS
      <4>1. j - 1 \in 1 .. Len(l) /\ (j - 1) + 1 = j
        BY <2>2
      <4> QED BY <4>1, <2>3
    <3> QED BY <2>3, <3>1, <3>2, <3>3
  <2> QED BY <1>1, <2>2, <2>4, ServerAssumption DEF l
<1>2. CASE ~(Len(list) >= MAX_VALUES)
  BY <1>2, ServerAssumption DEF Latest, Agree
<1> QED BY <1>1, <1>2

(* handle_received_data: the list of m after a packet *)
LEMMA ListAgrees ==
  ASSUME IInv, NEW m \in Motes, NEW v \in Values
  PROVE  /\ ListAfter(m, v) \in Seq(Pairs) /\ Len(ListAfter(m, v)) <= MAX_VALUES
         /\ Agree(ListAfter(m, v), now)
<1> DEFINE list == values[m]
           t == last_received[m]
<1>1. /\ list \in Seq(Pairs) /\ Len(list) <= MAX_VALUES
      /\ t \in {Never} \cup 0 .. MaxTime /\ now \in 0 .. MaxTime
      /\ Agree(list, t) /\ t <= now
  BY DEF IInv, TypeOK, DictionariesAgree, Agree, Pairs
<1>2. CASE IsDuplicate(list, v)
  <2>1. list # << >> /\ ListAfter(m, v) = list
    BY <1>2 DEF IsDuplicate, ListAfter
  <2>2. \A j \in DOMAIN list : list[j].x \in Int
    BY <1>1, PairTime, SeqFacts
  <2>3. t \in Int /\ t <= now /\ now # Never
    BY <1>1, ServerAssumption DEF Never
  <2>4. \A j \in DOMAIN list : list[j].x <= now
    <3>1. \A j \in DOMAIN list : list[j].x <= t
      BY <1>1 DEF Agree
    <3> HIDE DEF list, t
    <3> QED BY <1>1, <2>2, <2>3, <3>1
  <2> QED BY <1>1, <2>1, <2>3, <2>4 DEF Agree
<1>3. CASE ~IsDuplicate(list, v)
  <2> DEFINE l == Latest(list)
             new == [x |-> now, y |-> v]
  <2>1. ListAfter(m, v) = Append(l, new)
    BY <1>3 DEF ListAfter, WithValue
  <2>2. /\ l \in Seq(Pairs) /\ Len(l) < MAX_VALUES
        /\ \A j \in 1 .. Len(l) : l[j].x <= now /\ (j > 1 => l[j - 1].x <= l[j].x)
    <3>1. CASE t = Never
      <4>1. list = << >>
        BY <1>1, <3>1 DEF Agree
      <4> QED BY <4>1, <1>1, ServerAssumption DEF Latest
    <3>2. CASE t # Never
      <4>1. t \in 0 .. MaxTime /\ t <= now
        BY <1>1, <3>2
      <4>2. /\ l \in Seq(Pairs) /\ Len(l) < MAX_VALUES
            /\ \A j \in 1 .. Len(l) : l[j].x <= t /\ (j > 1 => l[j - 1].x <= l[j].x)
        BY <4>1, <1>1, LatestAgrees
      <4>3. \A j \in 1 .. Len(l) : l[j].x \in Int
        BY <4>2, PairTime
      <4>4. \A j \in 1 .. Len(l) : l[j].x <= now
        BY <4>1, <4>2, <4>3, <1>1
      <4> QED BY <4>2, <4>4
    <3> QED BY <3>1, <3>2
  <2>3. new \in Pairs
    BY <1>1 DEF Pairs
  <2> HIDE DEF l, new
  <2>4. /\ Append(l, new) \in Seq(Pairs)
        /\ Len(Append(l, new)) = Len(l) + 1
        /\ \A j \in 1 .. Len(l) : Append(l, new)[j] = l[j]
        /\ Append(l, new)[Len(l) + 1] = new
    BY <2>2, <2>3
  <2>5. Agree(Append(l, new), now)
    <3> DEFINE a == Append(l, new)
    <3>1. a # << >> /\ now # Never /\ DOMAIN a = 1 .. Len(l) + 1 /\ Len(l) \in Nat
      <4>1. Len(l) \in Nat /\ DOMAIN a = 1 .. Len(l) + 1
        BY <2>4, <2>2, SeqFacts
      <4>2. Len(l) + 1 \in DOMAIN a
        BY <4>1
      <4> QED BY <4>1, <4>2, <1>1 DEF Never
    <3>2. a[Len(l) + 1].x = now
      BY <2>4 DEF new
    <3> HIDE DEF a
    <3>3. ASSUME NEW j \in DOMAIN a
          PROVE  a[j].x <= now /\ (j > 1 => a[j - 1].x <= a[j].x)
      <4>1. CASE j \in 1 .. Len(l)
        <5>1. a[j] = l[j] /\ (j > 1 => j - 1 \in 1 .. Len(l) /\ a[j - 1] = l[j - 1])
          BY <4>1, <2>4, <3>1 DEF a
        <5>2. l[j].x \in Int
          BY <4>1, <2>2, PairTime
        <5> QED BY <4>1, <5>1, <5>2, <2>2, <1>1
      <4>2. CASE j = Len(l) + 1
        <5>1. j > 1 => j - 1 \in 1 .. Len(l) /\ a[j - 1] = l[j - 1]
          BY <4>2, <2>4, <3>1 DEF a
        <5> QED BY <4>2, <5>1, <2>2, <3>2, <1>1
      <4> QED BY <3>1, <3>3, <4>1, <4>2
    <3> QED BY <3>1, <3>3 DEF Agree, a
  <2> QED BY <2>1, <2>2, <2>4, <2>5, ServerAssumption
<1> QED BY <1>2, <1>3

-----------------------------------------------------------------------------
LEMMA InitInv == Init => IInv
<1> SUFFICES ASSUME Init PROVE IInv
  OBVIOUS
<1>1. << >> \in Seq(Pairs) /\ Len(<< >>) = 0
  OBVIOUS
<1>2. TypeOK
  <2>1. values \in [Motes -> Seq(Pairs)] /\ \A m \in Motes : Len(values[m]) <= MAX_VALUES
    BY <1>1, ServerAssumption DEF Init
  <2>2. now \in 0 .. MaxTime
    BY ServerAssumption DEF Init
  <2>3. last_received \in [Motes -> {Never} \cup 0 .. MaxTime]
    BY DEF Init
  <2> QED BY <2>1, <2>2, <2>3 DEF Init, TypeOK, Pairs
<1>3. DictionariesAgree
  BY DEF Init, DictionariesAgree
<1> QED BY <1>2, <1>3 DEF Init, IInv, Never

(* Each mote's entry after a packet of m: renewed, deleted or as it was.    *)
LEMMA ReceiveEntries ==
  ASSUME IInv, NEW m \in Motes, NEW v \in Values, Packet(m, v)
  PROVE  /\ values' \in [Motes -> Seq(Pairs)]
         /\ last_received' \in [Motes -> {Never} \cup 0 .. MaxTime]
         /\ \A k \in Motes :
              \/ k = m /\ values'[k] = ListAfter(m, v) /\ last_received'[k] = now
              \/ values'[k] = << >> /\ last_received'[k] = Never
              \/ values'[k] = values[k] /\ last_received'[k] = last_received[k]
<1> DEFINE new_values == [values EXCEPT ![m] = ListAfter(m, v)]
<1>1. /\ values \in [Motes -> Seq(Pairs)]
      /\ last_received \in [Motes -> {Never} \cup 0 .. MaxTime]
      /\ now \in 0 .. MaxTime
  BY DEF IInv, TypeOK, Pairs
<1>2. ListAfter(m, v) \in Seq(Pairs)
  BY ListAgrees
<1>3. << >> \in Seq(Pairs)
  OBVIOUS
<1>4. \/ Clear(m, new_values)
      \/ values' = new_values /\ last_received' = [last_received EXCEPT ![m] = now]
  BY DEF Packet, Receive, ReceiveAndDivideByZero
<1>5. CASE values' = new_values /\ last_received' = [last_received EXCEPT ![m] = now]
  BY <1>1, <1>2, <1>5
<1>6. ASSUME NEW n \in SilentFor(m, TIMEOUT),
             values' = [new_values EXCEPT ![n] = << >>],
             last_received' = [last_received EXCEPT ![m] = now, ![n] = Never]
      PROVE  /\ values' \in [Motes -> Seq(Pairs)]
             /\ last_received' \in [Motes -> {Never} \cup 0 .. MaxTime]
             /\ \A k \in Motes :
                  \/ k = m /\ values'[k] = ListAfter(m, v) /\ last_received'[k] = now
                  \/ values'[k] = << >> /\ last_received'[k] = Never
                  \/ values'[k] = values[k] /\ last_received'[k] = last_received[k]
  <2>1. n \in Motes /\ n # m
    BY DEF SilentFor
  <2> QED BY <1>1, <1>2, <1>3, <1>6, <2>1
<1> QED BY <1>4, <1>5, <1>6 DEF Clear

LEMMA InvStep == IInv /\ [Next]_vars => IInv'
<1> SUFFICES ASSUME IInv, [Next]_vars PROVE IInv'
  OBVIOUS
<1>0. \A m \in Motes : Agree(values[m], last_received[m])
  BY DEF IInv, DictionariesAgree, Agree
<1>1. CASE Tick
  <2>1. now' \in 0 .. MaxTime /\ now' = now + 1
    BY <1>1, ServerAssumption DEF Tick, IInv, TypeOK
  <2>2. \A m \in Motes : last_received[m] <= now'
    BY <2>1, ServerAssumption DEF IInv, TypeOK, Never
  <2> QED BY <1>1, <2>1, <2>2 DEF Tick, IInv, TypeOK, DictionariesAgree
<1>2. ASSUME NEW m \in Motes, NEW v \in Values, Packet(m, v) PROVE IInv'
  <2>1. now' = now
    BY <1>2 DEF Packet, Receive, ReceiveAndDivideByZero
  <2>2. /\ Len(ListAfter(m, v)) <= MAX_VALUES
        /\ Agree(ListAfter(m, v), now)
    BY ListAgrees
  <2>3. \A k \in Motes : Agree(values[k], last_received[k])'
    <3>1. Agree(<< >>, Never)
      BY DEF Agree
    <3> SUFFICES ASSUME NEW k \in Motes PROVE Agree(values'[k], last_received'[k])
      BY DEF Agree
    <3> QED BY <1>0, <1>2, <2>2, <3>1, ReceiveEntries
  <2>4. DictionariesAgree'
    BY <2>3 DEF Agree, DictionariesAgree
  <2>5. ASSUME NEW k \in Motes
        PROVE  Len(values'[k]) <= MAX_VALUES /\ last_received'[k] <= now'
    <3>1. Len(<< >>) <= MAX_VALUES /\ Never <= now /\ now <= now
      BY ServerAssumption DEF IInv, TypeOK, Never
    <3>2. Len(values[k]) <= MAX_VALUES /\ last_received[k] <= now
      BY DEF IInv, TypeOK
    <3>3. \/ k = m /\ values'[k] = ListAfter(m, v) /\ last_received'[k] = now
          \/ values'[k] = << >> /\ last_received'[k] = Never
          \/ values'[k] = values[k] /\ last_received'[k] = last_received[k]
      BY <1>2, ReceiveEntries
    <3> QED BY <2>1, <2>2, <3>1, <3>2, <3>3
  <2>6. running' \in BOOLEAN
    BY <1>2 DEF Packet, Receive, ReceiveAndDivideByZero, Clear, IInv, TypeOK
  <2>7. sent' \in BOOLEAN
    <3>1. \/ sent' = (ComputesSlope(m, v) /\ AboveThreshold(ListAfter(m, v)))
          \/ sent' = FALSE
      BY <1>2 DEF Packet, Receive, ReceiveAndDivideByZero
    <3>2. (ComputesSlope(m, v) /\ AboveThreshold(ListAfter(m, v))) \in BOOLEAN
      BY Zenon
    <3> QED BY <3>1, <3>2
  <2>8. /\ values' \in [Motes -> Seq(Pairs)]
        /\ last_received' \in [Motes -> {Never} \cup 0 .. MaxTime]
    BY <1>2, ReceiveEntries
  <2> QED BY <2>1, <2>4, <2>5, <2>6, <2>7, <2>8 DEF IInv, TypeOK, Pairs
<1>3. CASE UNCHANGED vars
  BY <1>3 DEF vars, IInv, TypeOK, DictionariesAgree
<1> QED BY <1>1, <1>2, <1>3 DEF Next

(* The inductive invariant, of handle_received_data and                     *)
(* clear_timed_out_motes (server.py:16-40, 76-84).                          *)
THEOREM Invariant == Spec => []IInv
BY InitInv, InvStep, PTL DEF Spec

(* No list of values is ever longer than its limit (server.py:30-35).       *)
THEOREM TypeCorrect == Spec => []TypeOK
<1>1. IInv => TypeOK
  BY DEF IInv
<1> QED BY <1>1, Invariant, PTL

(* The server's two dictionaries always have the same motes, and the times  *)
(* in a list never decrease (server.py:16-40, 76-84; Packet.py:14).         *)
THEOREM Agreement == Spec => []DictionariesAgree
<1>1. IInv => DictionariesAgree
  BY DEF IInv
<1> QED BY <1>1, Invariant, PTL

-----------------------------------------------------------------------------
(* The slope of a list: its sums are integers. *)
LEMMA SlopeOf ==
  ASSUME NEW list \in Seq(Pairs)
  PROVE  LET n == Len(list)
             x == [j \in 1 .. n |-> list[j].x]
             xx == [j \in 1 .. n |-> list[j].x * list[j].x]
         IN  /\ x \in [1 .. n -> Int] /\ xx \in [1 .. n -> Int]
             /\ LeastSquares(list).den = Total(x, n) * Total(x, n) - n * Total(xx, n)
             /\ LeastSquares(list).num \in Int
             /\ LeastSquares(list).den \in Int
<1> DEFINE n == Len(list)
           x == [j \in 1 .. n |-> list[j].x]
           y == [j \in 1 .. n |-> list[j].y]
           xy == [j \in 1 .. n |-> list[j].x * list[j].y]
           xx == [j \in 1 .. n |-> list[j].x * list[j].x]
<1>1. n \in Nat /\ n \in 0 .. n
  OBVIOUS
<1>2. \A j \in 1 .. n : list[j].x \in Int /\ list[j].y \in Int
  <2>1. \A j \in 1 .. n : list[j] \in Pairs
    OBVIOUS
  <2>2. \A p \in Pairs : p.x \in Int /\ p.y \in Values
    BY ServerAssumption DEF Pairs
  <2>3. Values \subseteq Int
    BY ServerAssumption
  <2> HIDE DEF n
  <2> QED BY <2>1, <2>2, <2>3
<1>3. \A j \in 1 .. n : list[j].x * list[j].y \in Int /\ list[j].x * list[j].x \in Int
  BY <1>2
<1>4. /\ x \in [1 .. n -> Int] /\ y \in [1 .. n -> Int]
      /\ xy \in [1 .. n -> Int] /\ xx \in [1 .. n -> Int]
  BY <1>2, <1>3
<1>5. /\ Total(x, n) = SumFunction(x) /\ Total(y, n) = SumFunction(y)
      /\ Total(xy, n) = SumFunction(xy) /\ Total(xx, n) = SumFunction(xx)
  <2>1. /\ x = [j \in 1 .. n |-> x[j]] /\ y = [j \in 1 .. n |-> y[j]]
        /\ xy = [j \in 1 .. n |-> xy[j]] /\ xx = [j \in 1 .. n |-> xx[j]]
    OBVIOUS
  <2> HIDE DEF n, x, y, xy, xx
  <2> QED BY <2>1 DEF Total
<1>6. LeastSquares(list) = Regression(n, SumFunction(x), SumFunction(y), SumFunction(xy), SumFunction(xx))
  BY DEF LeastSquares
<1> HIDE DEF n, x, y, xy, xx
<1>7. LeastSquares(list) =
        Regression(n, Total(x, n), Total(y, n), Total(xy, n), Total(xx, n))
  BY <1>5, <1>6
<1>8. Total(x, n) \in Int
  BY <1>1, <1>4, TotalType
<1>9. Total(y, n) \in Int
  BY <1>1, <1>4, TotalType
<1>10. Total(xy, n) \in Int
  BY <1>1, <1>4, TotalType
<1>11. Total(xx, n) \in Int
  BY <1>1, <1>4, TotalType
<1>12. /\ LeastSquares(list).den = Total(x, n) * Total(x, n) - n * Total(xx, n)
       /\ LeastSquares(list).num = Total(x, n) * Total(y, n) - n * Total(xy, n)
  BY <1>7 DEF Regression
<1>13. LeastSquares(list).num \in Int /\ LeastSquares(list).den \in Int
  BY <1>1, <1>8, <1>9, <1>10, <1>11, <1>12
<1> QED BY <1>4, <1>12, <1>13 DEF n, x, xx

(* The denominator is zero exactly if all times are the same. *)
LEMMA DividesUnlessSame ==
  ASSUME NEW list \in Seq(Pairs), Len(list) > 0
  PROVE  /\ LeastSquares(list).num \in Int
         /\ LeastSquares(list).den \in Int
         /\ LeastSquares(list).den = 0 <=> SameTime(list)
<1> DEFINE n == Len(list)
           x == [j \in 1 .. n |-> list[j].x]
           xx == [j \in 1 .. n |-> list[j].x * list[j].x]
<1>1. /\ x \in [1 .. n -> Int] /\ xx \in [1 .. n -> Int]
      /\ LeastSquares(list).den = Total(x, n) * Total(x, n) - n * Total(xx, n)
      /\ LeastSquares(list).num \in Int
      /\ LeastSquares(list).den \in Int
  BY SlopeOf
<1>2. \A j \in 1 .. n : xx[j] = x[j] * x[j]
  OBVIOUS
<1>3. n \in Nat /\ 1 \in 1 .. n
  OBVIOUS
<1>4. SameTime(list) <=> \A j \in 1 .. n : x[j] = x[1]
  BY <1>3 DEF SameTime
<1> HIDE DEF n, x, xx
<1>5. CASE \E j \in 1 .. n : x[j] # x[1]
  <2>1. Total(x, n) * Total(x, n) - n * Total(xx, n) < 0
    BY <1>1, <1>2, <1>3, <1>5, Spread
  <2> QED BY <1>1, <1>4, <1>5, <2>1
<1>6. CASE \A j \in 1 .. n : x[j] = x[1]
  <2>1. x[1] \in Int
    BY <1>1, <1>3
  <2>2. Total(x, n) * Total(x, n) - n * Total(xx, n) = 0
    BY <1>1, <1>2, <1>3, <1>6, <2>1, NoSpread
  <2> QED BY <1>1, <1>4, <1>6, <2>2
<1> QED BY <1>5, <1>6

(* After a packet of m its list is that of handle_received_data. *)
LEMMA ListStored ==
  ASSUME IInv, NEW m \in Motes, NEW v \in Values, Packet(m, v)
  PROVE  values'[m] = ListAfter(m, v) /\ values'[m] \in Seq(Pairs)
<1> DEFINE list == ListAfter(m, v)
<1>1. values \in [Motes -> Seq(Pairs)] /\ list \in Seq(Pairs)
  BY ListAgrees DEF IInv, TypeOK, Pairs
<1>2. values' = [values EXCEPT ![m] = list] \/
        \E n \in Motes \ {m} : values' = [[values EXCEPT ![m] = list] EXCEPT ![n] = << >>]
  BY DEF Packet, Receive, ReceiveAndDivideByZero, Clear, SilentFor
<1> HIDE DEF list
<1>3. values'[m] = list
  BY <1>1, <1>2
<1> QED BY <1>1, <1>3 DEF list

(* Enough values are at least one. *)
LEMMA EnoughIsSome ==
  ASSUME NEW list \in Seq(Pairs), EnoughValues(list)
  PROVE  Len(list) > 0 /\ Len(list) > MIN_VALUES
BY ServerAssumption DEF EnoughValues

-----------------------------------------------------------------------------
LEMMA EndsStep ==
  ASSUME IInv, NEW m \in Motes, NEW v \in Values, Packet(m, v), ~running'
  PROVE  \/ \E n \in Motes : last_received[n] # Never /\ now - last_received[n] >= TIMEOUT
         \/ Len(values'[m]) > MIN_VALUES /\ SameTime(values'[m])
<1>1. CASE Receive(m, v)
  <2>1. \E n \in SilentFor(m, TIMEOUT) : TRUE
    BY <1>1 DEF Receive, Clear
  <2> QED BY <2>1 DEF SilentFor
<1>2. CASE ReceiveAndDivideByZero(m, v)
  <2>1. EnoughValues(values'[m]) /\ LeastSquares(values'[m]).den = 0
    BY <1>2, ListStored DEF ReceiveAndDivideByZero, ComputesSlope
  <2> QED BY <2>1, ListStored, EnoughIsSome, DividesUnlessSame
<1> QED BY <1>1, <1>2 DEF Packet

(* The server ends by itself only when it finds a mote that was silent for  *)
(* too long, or when all the values of a mote came in one second: for any   *)
(* values, times and limits (server.py:24-38, 76-84, 93-102).               *)
THEOREM EndsOnlyWithCause == Spec => EndsWithCause
<1>1. IInv => [\A m \in Motes, v \in Values : Packet(m, v) /\ ~running' =>
                 \/ \E n \in Motes : last_received[n] # Never /\ now - last_received[n] >= TIMEOUT
                 \/ Len(values'[m]) > MIN_VALUES /\ SameTime(values'[m])]_vars
  BY EndsStep
<1> QED BY <1>1, Invariant, PTL DEF EndsWithCause

-----------------------------------------------------------------------------
(* What a cut in doubles does to a whole number of hundredths: at most one  *)
(* is lost, and it stays on its side of a threshold that is not positive.   *)
LEMMA CutAgainBounds ==
  ASSUME NEW k \in Int
  PROVE  /\ CutAgain(k) \in Int
         /\ CutAgain(k) >= k - 1
         /\ CutAgain(k) > 100 * THRESHOLD => k > 100 * THRESHOLD
         /\ THRESHOLD <= 0 => (k > 100 * THRESHOLD => CutAgain(k) > 100 * THRESHOLD)
<1>1. THRESHOLD \in Int /\ Short \subseteq Nat \ {0, 1}
  BY ServerAssumption
<1>2. ASSUME -k \in Short PROVE k # 100 * THRESHOLD
  <2>1. (-k) % 100 # 0
    BY <1>2, ServerAssumption
  <2>2. PICK t \in Int : t = -THRESHOLD
    BY <1>1
  <2>3. (100 * t) % 100 = 0
    BY <2>2
  <2>4. k = 100 * THRESHOLD => -k = 100 * t
    BY <1>1, <2>2
  <2> QED BY <2>1, <2>3, <2>4
<1>3. CASE k \in Short
  <2>1. CutAgain(k) = k - 1 /\ k \in Nat /\ k >= 2
    BY <1>1, <1>3 DEF CutAgain
  <2> QED BY <1>1, <2>1
<1>4. CASE k \notin Short /\ -k \in Short
  <2>1. CutAgain(k) = k + 1
    BY <1>4 DEF CutAgain
  <2> QED BY <1>1, <1>2, <1>4, <2>1
<1>5. CASE k \notin Short /\ -k \notin Short
  BY <1>5 DEF CutAgain
<1> QED BY <1>3, <1>4, <1>5

(* The comparison of the cut slope with the threshold *)
LEMMA CutSlopeBounds ==
  ASSUME NEW num \in Int, NEW den \in Int \ {0}
  PROVE  LET cut == CutSlope([num |-> num, den |-> den])
             AtLeastHundredths(h) ==
               CutAtLeast([num |-> 100 * num, den |-> den], 100 * THRESHOLD + h)
         IN  /\ cut > 100 * THRESHOLD => AtLeastHundredths(1)
             /\ AtLeastHundredths(3) => cut > 100 * THRESHOLD
             /\ THRESHOLD <= 0 /\ AtLeastHundredths(1) => cut > 100 * THRESHOLD
<1>1. PICK p \in Int, T \in Int : p = 100 * num /\ T = 100 * THRESHOLD
  BY ServerAssumption
<1>2. PICK k \in Int : k = Quotient(p, den)
  BY QuotientCuts
<1>3. \A h \in Int : k >= T + h <=> CutAtLeast([num |-> p, den |-> den], T + h)
  BY <1>1, <1>2, QuotientCuts
<1>4. PICK f : f = IF k * den = 100 * num THEN CutAgain(k) ELSE k
  OBVIOUS
<1>5. CutSlope([num |-> num, den |-> den]) = CutAgain(f)
  BY <1>1, <1>2, <1>4 DEF CutSlope
<1>6. /\ f \in Int /\ f >= k - 1
      /\ f > T => k > T
      /\ THRESHOLD <= 0 => (k > T => f > T)
  <2>1. /\ CutAgain(k) \in Int /\ CutAgain(k) >= k - 1
        /\ CutAgain(k) > T => k > T
        /\ THRESHOLD <= 0 => (k > T => CutAgain(k) > T)
    BY <1>1, CutAgainBounds
  <2>2. f = CutAgain(k) \/ f = k
    BY <1>4
  <2> QED BY <2>1, <2>2
<1>7. /\ CutAgain(f) \in Int /\ CutAgain(f) >= f - 1
      /\ CutAgain(f) > T => f > T
      /\ THRESHOLD <= 0 => (f > T => CutAgain(f) > T)
  BY <1>1, <1>6, CutAgainBounds
<1>8. PICK c \in Int : c = CutAgain(f)
  BY <1>7
<1>9. /\ c > T => k >= T + 1
      /\ k >= T + 3 => c > T
      /\ THRESHOLD <= 0 /\ k >= T + 1 => c > T
  BY <1>6, <1>7, <1>8
<1> QED BY <1>1, <1>3, <1>5, <1>8, <1>9

LEMMA OpensStep ==
  ASSUME IInv, NEW m \in Motes, NEW v \in Values, Packet(m, v)
  PROVE  LET slope == LeastSquares(values'[m])
             Due(hundredths) ==
               /\ ~IsDuplicate(values[m], v)
               /\ Len(values'[m]) > MIN_VALUES /\ ~SameTime(values'[m])
               /\ CutAtLeast([num |-> 100 * slope.num, den |-> slope.den],
                             100 * THRESHOLD + hundredths)
         IN  /\ sent' => Due(1)
             /\ Due(IF THRESHOLD > 0 THEN 3 ELSE 1) => sent'
<1> DEFINE list == ListAfter(m, v)
           slope == LeastSquares(list)
           Reaches(h) == CutAtLeast([num |-> 100 * slope.num, den |-> slope.den],
                                    100 * THRESHOLD + h)
           dup == IsDuplicate(values[m], v)
<1>1. values'[m] = list /\ list \in Seq(Pairs)
  BY ListStored
<1>2. CASE Len(list) > MIN_VALUES /\ ~SameTime(list)
  <2>1. Len(list) > 0
    BY <1>2, <1>1, ServerAssumption
  <2>2. slope.num \in Int /\ slope.den \in Int \ {0}
    BY <1>1, <1>2, <2>1, DividesUnlessSame
  <2>3. sent' <=> ~dup /\ AboveThreshold(list)
    <3>1. ~ReceiveAndDivideByZero(m, v)
      BY <2>2 DEF ReceiveAndDivideByZero
    <3>2. sent' = (ComputesSlope(m, v) /\ AboveThreshold(list))
      BY <3>1 DEF Packet, Receive
    <3>3. ComputesSlope(m, v) <=> ~dup
      BY <1>2 DEF ComputesSlope, EnoughValues
    <3> QED BY <3>2, <3>3
  <2>4. PICK num \in Int, den \in Int \ {0} : num = slope.num /\ den = slope.den
    BY <2>2
  <2>5. slope = [num |-> num, den |-> den]
    BY <2>4 DEF LeastSquares, Regression
  <2> HIDE DEF list, slope, dup
  <2>6. /\ CutSlope(slope) > 100 * THRESHOLD => Reaches(1)
        /\ Reaches(3) => CutSlope(slope) > 100 * THRESHOLD
        /\ THRESHOLD <= 0 /\ Reaches(1) => CutSlope(slope) > 100 * THRESHOLD
    BY <2>4, <2>5, CutSlopeBounds
  <2>7. AboveThreshold(list) <=> CutSlope(slope) > 100 * THRESHOLD
    BY DEF AboveThreshold, slope
  <2> HIDE DEF Reaches
  <2>8. /\ sent' => ~dup /\ Reaches(1)
        /\ ~dup /\ Reaches(IF THRESHOLD > 0 THEN 3 ELSE 1) => sent'
    <3>1. THRESHOLD > 0 \/ THRESHOLD <= 0
      BY ServerAssumption
    <3> QED BY <2>3, <2>6, <2>7, <3>1
  <2> QED BY <1>1, <1>2, <2>8 DEF Reaches, slope, dup
<1>3. CASE ~(Len(list) > MIN_VALUES /\ ~SameTime(list))
  <2>1. ~sent'
    <3> SUFFICES ASSUME sent' PROVE FALSE
      OBVIOUS
    <3>1. Receive(m, v) /\ ComputesSlope(m, v)
      BY DEF Packet, Receive, ReceiveAndDivideByZero
    <3>2. EnoughValues(list) /\ LeastSquares(list).den # 0
      BY <3>1 DEF Receive, ComputesSlope
    <3> HIDE DEF list
    <3> QED BY <1>1, <1>3, <3>2, EnoughIsSome, DividesUnlessSame
  <2> QED BY <1>1, <1>3, <2>1
<1> QED BY <1>2, <1>3

(* For any threshold, the server sends OPEN only on a slope that is above   *)
(* it by a hundredth, and does on one that is above it by three, by one if  *)
(* the threshold is not positive (server.py:27-50, 87-104).                 *)
THEOREM Opens == Spec => OpensOnSlope
<1>1. IInv => [\A m \in Motes, v \in Values : Packet(m, v) =>
       LET slope == LeastSquares(values'[m])
           Due(hundredths) ==
             /\ ~IsDuplicate(values[m], v)
             /\ Len(values'[m]) > MIN_VALUES /\ ~SameTime(values'[m])
             /\ CutAtLeast([num |-> 100 * slope.num, den |-> slope.den],
                           100 * THRESHOLD + hundredths)
       IN  /\ sent' => Due(1)
           /\ Due(IF THRESHOLD > 0 THEN 3 ELSE 1) => sent']_vars
  BY OpensStep
<1> QED BY <1>1, Invariant, PTL DEF OpensOnSlope

-----------------------------------------------------------------------------
(* The values of a list, which module Windows takes for a window.           *)
Win(list) == [j \in DOMAIN list |-> list[j].y]

LEMMA WinSeq ==
  ASSUME NEW list \in Seq(Pairs)
  PROVE  /\ Win(list) \in Seq(Values) /\ Len(Win(list)) = Len(list)
         /\ Win(list) = << >> <=> list = << >>
         /\ \A j \in 1 .. Len(list) : Win(list)[j] = list[j].y
<1>1. DOMAIN list = 1 .. Len(list) /\ Len(list) \in Nat
  BY SeqFacts
<1>2. \A j \in 1 .. Len(list) : list[j].y \in Values
  <2>1. \A j \in 1 .. Len(list) : list[j] \in Pairs
    OBVIOUS
  <2> QED BY <2>1 DEF Pairs
<1>3. Win(list) \in [1 .. Len(list) -> Values]
  BY <1>1, <1>2 DEF Win
<1>4. Win(list) \in Seq(Values) /\ Len(Win(list)) = Len(list)
  BY <1>1, <1>3
<1>5. Win(list) = << >> <=> list = << >>
  <2>1. Win(list) = << >> <=> Len(Win(list)) = 0
    BY <1>4
  <2>2. list = << >> <=> Len(list) = 0
    OBVIOUS
  <2> QED BY <1>4, <2>1, <2>2
<1> QED BY <1>1, <1>4, <1>5 DEF Win

LEMMA WinAppend ==
  ASSUME NEW list \in Seq(Pairs), NEW p \in Pairs
  PROVE  Win(Append(list, p)) = Append(Win(list), p.y)
<1>1. Append(list, p) \in Seq(Pairs) /\ Len(Append(list, p)) = Len(list) + 1 /\ p.y \in Values
  BY DEF Pairs
<1>2. /\ Win(list) \in Seq(Values) /\ Len(Win(list)) = Len(list)
      /\ \A j \in 1 .. Len(list) : Win(list)[j] = list[j].y
  BY WinSeq
<1>3. /\ Win(Append(list, p)) \in Seq(Values) /\ Len(Win(Append(list, p))) = Len(list) + 1
      /\ \A j \in 1 .. Len(list) + 1 : Win(Append(list, p))[j] = Append(list, p)[j].y
  BY <1>1, WinSeq
<1>4. \A j \in 1 .. Len(list) + 1 : Append(list, p)[j].y = Append(Win(list), p.y)[j]
  BY <1>1, <1>2
<1> QED BY <1>1, <1>2, <1>3, <1>4

LEMMA WinTail ==
  ASSUME NEW list \in Seq(Pairs), list # << >>
  PROVE  Win(Tail(list)) = Tail(Win(list))
<1>1. Tail(list) \in Seq(Pairs) /\ Len(Tail(list)) = Len(list) - 1 /\ Len(list) \in Nat
  OBVIOUS
<1>2. /\ Win(list) \in Seq(Values) /\ Len(Win(list)) = Len(list) /\ Win(list) # << >>
      /\ \A j \in 1 .. Len(list) : Win(list)[j] = list[j].y
  BY WinSeq
<1>3. /\ Win(Tail(list)) \in Seq(Values) /\ Len(Win(Tail(list))) = Len(list) - 1
      /\ \A j \in 1 .. Len(list) - 1 : Win(Tail(list))[j] = Tail(list)[j].y
  BY <1>1, WinSeq
<1>4. /\ Tail(Win(list)) \in Seq(Values) /\ Len(Tail(Win(list))) = Len(list) - 1
      /\ \A j \in 1 .. Len(list) - 1 : Tail(Win(list))[j] = Win(list)[j + 1]
  BY <1>2
<1>5. \A j \in 1 .. Len(list) - 1 : Tail(list)[j] = list[j + 1] /\ j + 1 \in 1 .. Len(list)
  BY <1>1
<1> QED BY <1>2, <1>3, <1>4, <1>5

(* The server makes room before it appends, the abstract window after. *)
LEMMA WinLatest ==
  ASSUME NEW list \in Seq(Pairs), NEW p \in Pairs, Len(list) <= MAX_VALUES
  PROVE  Win(Append(Latest(list), p)) = W!Latest(Append(Win(list), p.y))
<1>1. Win(list) \in Seq(Values) /\ Len(Win(list)) = Len(list) /\ Len(list) \in Nat
  BY WinSeq
<1>2. p.y \in Values /\ MAX_VALUES \in Nat \ {0}
  BY ServerAssumption DEF Pairs
<1>3. Len(Append(Win(list), p.y)) = Len(list) + 1
  BY <1>1, <1>2
<1>4. CASE Len(list) >= MAX_VALUES
  <2>1. Latest(list) = Tail(list) /\ list # << >> /\ Win(list) # << >>
    BY <1>4, <1>1, <1>2 DEF Latest
  <2>2. Win(Append(Tail(list), p)) = Append(Tail(Win(list)), p.y)
    <3>1. Tail(list) \in Seq(Pairs)
      BY <2>1
    <3> QED BY <3>1, <2>1, WinAppend, WinTail
  <2>3. Tail(Append(Win(list), p.y)) = Append(Tail(Win(list)), p.y)
    BY <1>1, <1>2, <2>1
  <2> QED BY <1>2, <1>3, <1>4, <2>1, <2>2, <2>3 DEF W!Latest
<1>5. CASE ~(Len(list) >= MAX_VALUES)
  BY <1>1, <1>2, <1>3, <1>5, WinAppend DEF Latest, W!Latest
<1> QED BY <1>4, <1>5

(* What the mapping of module Windows makes of the dictionaries. *)
LEMMA Mapped ==
  ASSUME IInv
  PROVE  /\ W!Held = {m \in Motes : values[m] # << >>}
         /\ W!Silent = {m \in Motes : values[m] # << >> /\ now - last_received[m] >= TIMEOUT}
         /\ W!Continued = W!Held
         /\ \A m \in Motes : values[m] \in Seq(Pairs)
         /\ \A m \in Motes : values[m] # << >> <=> last_received[m] # Never
         /\ \A m \in Motes : last_received[m] \in Int
         /\ now \in Nat
<1>1. /\ \A m \in Motes : values[m] \in Seq(Pairs)
      /\ \A m \in Motes : values[m] # << >> <=> last_received[m] # Never
      /\ \A m \in Motes : last_received[m] \in Int
      /\ now \in Nat
  <2>1. values \in [Motes -> Seq(Pairs)] /\ last_received \in [Motes -> {Never} \cup 0 .. MaxTime]
    BY DEF IInv, TypeOK, Pairs
  <2>2. \A m \in Motes : values[m] # << >> <=> last_received[m] # Never
    BY DEF IInv, DictionariesAgree
  <2>3. Never \in Int /\ MaxTime \in Nat
    BY ServerAssumption DEF Never
  <2>4. now \in Nat
    BY <2>3 DEF IInv, TypeOK
  <2> QED BY <2>1, <2>2, <2>3, <2>4
<1>2. \A m \in Motes : Win(values[m]) = << >> <=> values[m] = << >>
  BY <1>1, WinSeq
<1>3. W!Held = {m \in Motes : values[m] # << >>}
  BY <1>2 DEF W!Held, Win, Window
<1>4. \A m \in Motes : values[m] # << >> =>
        (Age(m) > TIMEOUT - 1 <=> now - last_received[m] >= TIMEOUT)
  BY <1>1, ServerAssumption DEF Age
<1>5. W!Silent = {m \in Motes : values[m] # << >> /\ now - last_received[m] >= TIMEOUT}
  BY <1>3, <1>4 DEF W!Silent, Ages
<1>6. W!Continued = W!Held
  BY DEF W!Continued
<1> QED BY <1>1, <1>3, <1>5, <1>6

LEMMA TickMapped ==
  ASSUME IInv, Tick
  PROVE  W!Tick
<1>1. now' = now + 1 /\ UNCHANGED <<values, last_received, sent>>
  BY DEF Tick
<1>2. ASSUME NEW m \in Motes
      PROVE  Age(m)' = IF m \in W!Held \ W!Silent THEN Age(m) + 1 ELSE Age(m)
  <2>1. /\ values[m] # << >> <=> last_received[m] # Never
        /\ last_received[m] \in Int /\ now \in Nat /\ TIMEOUT \in Nat \ {0}
        /\ m \in W!Held \ W!Silent <=>
             last_received[m] # Never /\ ~(now - last_received[m] >= TIMEOUT)
    BY Mapped, ServerAssumption
  <2>2. last_received'[m] = last_received[m]
    BY <1>1
  <2>3. last_received[m] <= now
    BY DEF IInv
  <2> QED BY <1>1, <2>1, <2>2, <2>3 DEF Age
<1>3. Window' = Window
  BY <1>1 DEF Window
<1> QED BY <1>1, <1>2, <1>3 DEF W!Tick, Ages

(* What clear_timed_out_motes does is to forget at most one silent mote.    *)
LEMMA ClearMapped ==
  ASSUME IInv, NEW m \in Motes, NEW list \in Seq(Pairs), now' = now,
         \/ Clear(m, [values EXCEPT ![m] = list])
         \/ /\ values' = [values EXCEPT ![m] = list]
            /\ last_received' = [last_received EXCEPT ![m] = now]
  PROVE  \E gone \in W!Forgettable(m) : W!Keep(m, Win(list), gone)
<1>1. /\ values = [n \in Motes |-> values[n]]
      /\ last_received = [n \in Motes |-> last_received[n]]
      /\ now \in Nat /\ TIMEOUT \in Nat \ {0}
  BY ServerAssumption DEF IInv, TypeOK
<1>2. ASSUME NEW gone \in SUBSET (Motes \ {m}),
             values' = [n \in Motes |-> IF n = m THEN list
                                        ELSE IF n \in gone THEN << >> ELSE values[n]],
             last_received' = [n \in Motes |-> IF n = m THEN now
                                        ELSE IF n \in gone THEN Never ELSE last_received[n]]
      PROVE  W!Keep(m, Win(list), gone)
  <2>1. \A n \in Motes : Win(values'[n]) = IF n = m THEN Win(list)
                                ELSE IF n \in gone THEN << >> ELSE Win(values[n])
    <3>1. Win(<< >>) = << >>
      <4>1. << >> \in Seq(Pairs)
        OBVIOUS
      <4> QED BY <4>1, WinSeq
    <3> QED BY <3>1, <1>2
  <2>2. \A n \in Motes : Age(n)' = IF n \in gone \cup {m} THEN 0 ELSE Age(n)
    <3> SUFFICES ASSUME NEW n \in Motes
                 PROVE  Age(n)' = IF n \in gone \cup {m} THEN 0 ELSE Age(n)
      OBVIOUS
    <3>1. CASE n = m
      <4>1. last_received'[n] = now /\ now # Never /\ now - now = 0 /\ ~(0 > TIMEOUT)
        BY <3>1, <1>1, <1>2 DEF Never
      <4> QED BY <3>1, <4>1 DEF Age
    <3>2. CASE n # m /\ n \in gone
      <4>1. last_received'[n] = Never
        BY <3>2, <1>2
      <4> QED BY <3>2, <4>1 DEF Age
    <3>3. CASE n # m /\ n \notin gone
      <4>1. last_received'[n] = last_received[n]
        BY <3>3, <1>2
      <4> QED BY <3>3, <4>1 DEF Age
    <3> QED BY <3>1, <3>2, <3>3
  <2>3. /\ [n \in Motes |-> Win(values'[n])]
             = [n \in Motes |-> IF n = m THEN Win(list)
                                ELSE IF n \in gone THEN << >> ELSE Win(values[n])]
        /\ [n \in Motes |-> Age(n)'] = [n \in Motes |-> IF n \in gone \cup {m} THEN 0 ELSE Age(n)]
    BY <2>1, <2>2
  <2> QED BY <2>3 DEF W!Keep, Win, Window, Ages
<1>3. CASE values' = [values EXCEPT ![m] = list] /\ last_received' = [last_received EXCEPT ![m] = now]
  <2>1. {} \in W!Forgettable(m)
    BY DEF W!Forgettable
  <2>2. W!Keep(m, Win(list), {})
    <3>1. values' = [n \in Motes |-> IF n = m THEN list
                                        ELSE IF n \in {} THEN << >> ELSE values[n]]
      BY <1>3, <1>1
    <3>2. last_received' = [n \in Motes |-> IF n = m THEN now
                                        ELSE IF n \in {} THEN Never ELSE last_received[n]]
      BY <1>3, <1>1
    <3> QED BY <3>1, <3>2, <1>2
  <2> QED BY <2>1, <2>2
<1>4. ASSUME NEW o \in SilentFor(m, TIMEOUT),
             values' = [[values EXCEPT ![m] = list] EXCEPT ![o] = << >>],
             last_received' = [last_received EXCEPT ![m] = now, ![o] = Never]
      PROVE  \E gone \in W!Forgettable(m) : W!Keep(m, Win(list), gone)
  <2>1. o \in Motes \ {m} /\ last_received[o] # Never /\ now - last_received[o] >= TIMEOUT
    BY DEF SilentFor
  <2>2. {o} \in W!Forgettable(m)
    <3>1. values[o] # << >>
      BY <2>1, Mapped
    <3>2. o \in W!Silent
      BY <2>1, <3>1, Mapped
    <3> QED BY <2>1, <3>2 DEF W!Forgettable
  <2>3. W!Keep(m, Win(list), {o})
    <3>1. values' = [n \in Motes |-> IF n = m THEN list
                                        ELSE IF n \in {o} THEN << >> ELSE values[n]]
      BY <1>4, <2>1, <1>1
    <3>2. last_received' = [n \in Motes |-> IF n = m THEN now
                                        ELSE IF n \in {o} THEN Never ELSE last_received[n]]
      BY <1>4, <2>1, <1>1
    <3> QED BY <3>1, <3>2, <2>1, <1>2
  <2> QED BY <2>2, <2>3
<1> QED BY <1>3, <1>4 DEF Clear

LEMMA SameCardinality == \A S : W!Cardinality(S) = Cardinality(S)
BY DEF W!Cardinality, Cardinality

(* receive_packet: a value that is new, a first value, or one sent twice.   *)
LEMMA ReceiveMapped ==
  ASSUME IsFiniteSet(Motes), IInv, NEW m \in Motes, NEW v \in Values, Packet(m, v)
  PROVE  W!Next
<1>0. PICK list, after : list = values[m] /\ after = ListAfter(m, v)
  OBVIOUS
<1>1. /\ last_received[m] <= now /\ now' = now
      /\ sent' => ~IsDuplicate(list, v) /\ Len(after) > MIN_VALUES
      /\ sent' \in BOOLEAN
      /\ \/ Clear(m, [values EXCEPT ![m] = after])
         \/ /\ values' = [values EXCEPT ![m] = after]
            /\ last_received' = [last_received EXCEPT ![m] = now]
  <2>1. sent' \in BOOLEAN
    BY InvStep DEF Next, IInv, TypeOK
  <2> QED BY <1>0, <2>1
          DEF Packet, Receive, ReceiveAndDivideByZero, ComputesSlope, EnoughValues, IInv
<1>2. /\ list \in Seq(Pairs) /\ Len(list) <= MAX_VALUES
      /\ list # << >> <=> last_received[m] # Never
      /\ last_received[m] \in Int /\ now \in Nat
      /\ after \in Seq(Pairs)
  BY <1>0, <1>1, Mapped, ListAgrees DEF IInv, TypeOK
<1>3. PICK gone \in W!Forgettable(m) : W!Keep(m, Win(after), gone)
  BY <1>1, <1>2, ClearMapped
<1>4. MIN_VALUES \in Nat \ {0} /\ TIMEOUT \in Nat \ {0} /\ RETRANSMISSION \in 0 .. TIMEOUT
  BY ServerAssumption
<1>5. Win(list) \in Seq(Values) /\ Len(Win(list)) = Len(list) /\ Len(list) \in Nat
  BY <1>2, WinSeq
<1>6. CASE IsDuplicate(list, v)
  <2>1. /\ list # << >> /\ after = list /\ v = list[Len(list)].y
        /\ now - RETRANSMISSION < list[Len(list)].x
        /\ sent' = FALSE
    BY <1>0, <1>1, <1>6 DEF IsDuplicate, ListAfter
  <2>2. Len(list) \in 1 .. Len(list)
    BY <2>1, <1>2, <1>5
  <2>3. list[Len(list)].x \in Int /\ list[Len(list)].x <= last_received[m]
    <3>1. list[Len(list)].x \in Int
      BY <2>2, <1>2, PairTime
    <3>2. Len(list) \in DOMAIN list
      BY <2>2, <1>2, SeqFacts
    <3> QED BY <1>0, <3>1, <3>2 DEF IInv, DictionariesAgree
  <2>4. now - last_received[m] < RETRANSMISSION /\ ~(now - last_received[m] >= TIMEOUT)
    BY <1>2, <1>4, <2>1, <2>3
  <2>5. m \in W!Held \ W!Silent
    BY <1>0, <2>1, <2>4, Mapped
  <2>6. v = Win(list)[Len(Win(list))]
    BY <1>2, <1>5, <2>1, <2>2, WinSeq
  <2>7. Age(m) < RETRANSMISSION
    BY <1>2, <1>4, <2>1, <2>4 DEF Age
  <2>8. W!IgnoreDuplicate(m, v)
    <3>1. W!Keep(m, Win(list), gone)
      BY <1>3, <2>1
    <3>2. Window[m] = Win(list)
      BY <1>0 DEF Window, Win
    <3>3. v = Win(list)[Len(Win(list))] /\ sent' = FALSE
      BY <2>1, <2>6
    <3> QED BY <3>1, <3>2, <3>3, <2>5, <2>7 DEF W!IgnoreDuplicate, W!Keep, Ages
  <2> QED BY <2>8 DEF W!Next
<1>7. CASE ~IsDuplicate(list, v)
  <2> DEFINE p == [x |-> now, y |-> v]
  <2>0. PICK w : w = W!Latest(Append(Win(list), v))
    OBVIOUS
  <2>1. p \in Pairs /\ p.y = v
    BY DEF IInv, TypeOK, Pairs
  <2>2. after = Append(Latest(list), p)
    BY <1>0, <1>7 DEF ListAfter, WithValue
  <2>3. Win(after) = w
    BY <1>2, <2>0, <2>1, <2>2, WinLatest
  <2>4. W!Decide(w)
    <3>1. sent' => Len(after) > MIN_VALUES
      BY <1>1
    <3>2. Len(w) = Len(after) /\ Len(after) \in Nat
      BY <1>2, <2>3, WinSeq
    <3>3. sent' => Len(w) >= MIN_VALUES
      BY <3>1, <3>2, <1>4
    <3> QED BY <3>3 DEF W!Decide
  <2>5. W!Keep(m, w, gone)
    BY <1>3, <2>3
  <2>6. CASE list # << >>
    <3>1. m \in W!Continued
      BY <1>0, <2>6, Mapped
    <3>2. Window[m] = Win(list)
      BY <1>0 DEF Window, Win
    <3>3. W!AppendValue(m, v)
      BY <2>0, <2>4, <2>5, <3>1, <3>2 DEF W!AppendValue, W!Decide, W!Keep
    <3> QED BY <3>3 DEF W!Next
  <2>7. CASE list = << >>
    <3>1. m \notin W!Continued
      BY <1>0, <2>7, Mapped
    <3>2. w = <<v>>
      <4>1. Win(list) = << >>
        BY <2>7, <1>2, WinSeq
      <4>2. Append(Win(list), v) = <<v>> /\ Len(<<v>>) = 1
        BY <4>1
      <4> QED BY <2>0, <4>2, ServerAssumption DEF W!Latest
    <3>3. Cardinality((W!Held \ {m}) \ gone) < Cardinality(Motes)
      <4>1. (W!Held \ {m}) \ gone \subseteq Motes \ {m}
        BY Mapped
      <4>2. IsFiniteSet(Motes \ {m}) /\ Cardinality(Motes \ {m}) = Cardinality(Motes) - 1
        BY FS_RemoveElement
      <4>3. /\ Cardinality((W!Held \ {m}) \ gone) <= Cardinality(Motes \ {m})
            /\ IsFiniteSet((W!Held \ {m}) \ gone)
        BY <4>1, <4>2, FS_Subset
      <4>4. /\ Cardinality(Motes) \in Nat /\ Cardinality(Motes \ {m}) \in Nat
            /\ Cardinality((W!Held \ {m}) \ gone) \in Nat
        BY <4>2, <4>3, FS_CardinalityType
      <4> QED BY <4>2, <4>3, <4>4
    <3>4. W!StartWindow(m, v)
      BY <2>4, <2>5, <3>1, <3>2, <3>3, SameCardinality DEF W!StartWindow
    <3> QED BY <3>4 DEF W!Next
  <2> QED BY <2>6, <2>7
<1> QED BY <1>6, <1>7

(* For any finite set of motes the server keeps the latest values of each   *)
(* mote, without the retransmitted ones, forgets only silent motes, also in *)
(* the exception that ends it, and sends OPEN only on enough values         *)
(* (server.py:16-50, 76-84). *)
THEOREM Implements == IsFiniteSet(Motes) => (Spec => ImplementsWindows)
<1>1. SUFFICES ASSUME IsFiniteSet(Motes) PROVE Spec => ImplementsWindows
  OBVIOUS
<1>2. Init => W!Init
  <2> SUFFICES ASSUME Init PROVE W!Init
    OBVIOUS
  <2>1. \A m \in Motes : values[m] = << >> /\ Age(m) = 0
    BY DEF Init, Age
  <2>2. Win(<< >>) = << >>
    <3>1. << >> \in Seq(Pairs)
      OBVIOUS
    <3> QED BY <3>1, WinSeq
  <2>3. [m \in Motes |-> Win(values[m])] = [m \in Motes |-> << >>]
    BY <2>1, <2>2
  <2>4. [m \in Motes |-> Age(m)] = [m \in Motes |-> 0] /\ sent = FALSE
    BY <2>1 DEF Init
  <2> QED BY <2>3, <2>4 DEF W!Init, Win, Window, Ages
<1>3. IInv /\ [Next]_vars =>
        [W!Next]_<<Window, Ages, IF sent THEN "OPEN_VALVE" ELSE "CLOSE_VALVE">>
  <2>1. IInv /\ Tick => W!Next
    BY TickMapped DEF W!Next
  <2>2. ASSUME IInv, NEW m \in Motes, NEW v \in Values, Packet(m, v) PROVE W!Next
    BY <1>1, <2>2, ReceiveMapped
  <2>3. UNCHANGED vars =>
          UNCHANGED <<Window, Ages, IF sent THEN "OPEN_VALVE" ELSE "CLOSE_VALVE">>
    BY DEF vars, Age, Ages, Window
  <2> QED BY <2>1, <2>2, <2>3 DEF Next
<1> QED BY <1>2, <1>3, Invariant, PTL DEF Spec, ImplementsWindows, W!Spec
=============================================================================
