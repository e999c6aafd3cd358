------------------------------- MODULE Server -------------------------------
(***************************************************************************)
(* The server behind the border router (src/server/server.py): it keeps    *)
(* the latest values of every mote whose DATA reaches the root, and sends  *)
(* OPEN messages.                                                          *)
(***************************************************************************)
EXTENDS Slopes, FiniteSets

CONSTANTS
  Motes,           \* the sensor motes whose DATA the root prints
  Values,          \* air quality values
  MAX_VALUES,      \* the 30 values of the buffer
  MIN_VALUES,      \* the 10 values for a relevant slope
  THRESHOLD,       \* the third argument, 0 by default
  TIMEOUT,         \* 30 minutes
  RETRANSMISSION,  \* the 15 s of the duplicate test
  Short,           \* hundredths k for which int(k / 100 * 100), in doubles, is k - 1
  MaxTime,         \* bound on the clock
  Arrivals         \* bound on when packets come: only in these seconds

ASSUME ServerAssumption ==
  /\ Values \subseteq Nat
  /\ MAX_VALUES \in Nat \ {0} /\ MIN_VALUES \in 1 .. MAX_VALUES
  /\ THRESHOLD \in Int
  /\ TIMEOUT \in Nat \ {0} /\ RETRANSMISSION \in 0 .. TIMEOUT
  /\ Short \subseteq Nat \ {0, 1} /\ \A k \in Short : k % 100 # 0
  /\ MaxTime \in Nat

VARIABLES
  values,         \* of each mote, its (time, data) pairs, << >> if it has no entry
  last_received,  \* of each mote, the time of its last packet, Never if it has no entry
  running,        \* FALSE once an exception has ended the program
  now,            \* round(time.time()), the time of a packet read now
  sent            \* whether the last packet made the server send OPEN

vars == <<values, last_received, running, now, sent>>

Never == -1

Init ==
  /\ values = [m \in Motes |-> << >>]
  /\ last_received = [m \in Motes |-> Never]
  /\ running = TRUE
  /\ now = 0
  /\ sent = FALSE

Tick ==
  /\ running
  /\ now < MaxTime
  /\ now' = now + 1
  /\ UNCHANGED <<values, last_received, running, sent>>

-----------------------------------------------------------------------------
(* Mutant of IsDuplicate: however long ago the value came. *)
IsRepeated(list, v) == list # << >> /\ v = list[Len(list)].y

IsDuplicate(list, v) ==
  /\ list # << >>
  /\ v = list[Len(list)].y
  /\ now - RETRANSMISSION < list[Len(list)].x

(* Mutant of Latest: one value too many is kept. *)
LatestAndOne(list) == IF Len(list) > MAX_VALUES THEN Tail(list) ELSE list

Latest(list) == IF Len(list) >= MAX_VALUES THEN Tail(list) ELSE list
WithValue(list, v) == Append(Latest(list), [x |-> now, y |-> v])

(* int(x * 100) / 100 of x = k / 100, in hundredths *)
CutAgain(k) == IF k \in Short THEN k - 1 ELSE IF -k \in Short THEN k + 1 ELSE k

(* least_squares_slope cuts the slope to hundredths, compute_slope once     *)
(* more, and the first cut may already take one from a slope that is an     *)
(* exact hundredth. *)
CutSlope(f) ==
  LET k == Quotient(100 * f.num, f.den)
  IN  CutAgain(IF k * f.den = 100 * f.num THEN CutAgain(k) ELSE k)

(* compute_slope and its comparison *)
AboveThreshold(list) == CutSlope(LeastSquares(list)) > 100 * THRESHOLD

(* Mutant of EnoughValues: the ten values of the comment are enough.        *)
MinimumOfValues(list) == Len(list) >= MIN_VALUES

EnoughValues(list) == Len(list) > MIN_VALUES

(* handle_received_data *)
ListAfter(m, v) ==
  IF IsDuplicate(values[m], v) THEN values[m] ELSE WithValue(values[m], v)

ComputesSlope(m, v) ==
  ~IsDuplicate(values[m], v) /\ EnoughValues(ListAfter(m, v))

(* clear_timed_out_motes, once m has been heard: a mote that timed out is   *)
(* deleted from the dictionaries, the iteration over one of them then       *)
(* raises RuntimeError.  It compares with the unrounded time: at TIMEOUT    *)
(* itself a mote may have timed out or not. *)
SilentFor(m, seconds) ==
  {n \in Motes \ {m} : last_received[n] # Never /\ now - last_received[n] >= seconds}

(* Mutant of Clear: the values of a mote that timed out stay.               *)
ClearTimesOnly(m, new_values) ==
  /\ values' = new_values
  /\ \/ /\ SilentFor(m, TIMEOUT + 1) = {}
        /\ last_received' = [last_received EXCEPT ![m] = now]
        /\ UNCHANGED running
     \/ \E n \in SilentFor(m, TIMEOUT) :
        /\ last_received' = [last_received EXCEPT ![m] = now, ![n] = Never]
        /\ running' = FALSE

Clear(m, new_values) ==
  \/ /\ SilentFor(m, TIMEOUT + 1) = {}
     /\ values' = new_values
     /\ last_received' = [last_received EXCEPT ![m] = now]
     /\ UNCHANGED running
  \/ \E n \in SilentFor(m, TIMEOUT) :
     /\ values' = [new_values EXCEPT ![n] = << >>]
     /\ last_received' = [last_received EXCEPT ![m] = now, ![n] = Never]
     /\ running' = FALSE

(* receive_packet gets a DATA line.  Several packets may have the same      *)
(* time. *)
Receive(m, v) ==
  LET list == ListAfter(m, v) IN
  /\ running /\ now \in Arrivals
  /\ ComputesSlope(m, v) => LeastSquares(list).den # 0
  /\ sent' = (ComputesSlope(m, v) /\ AboveThreshold(list))
  /\ Clear(m, [values EXCEPT ![m] = list])
  /\ UNCHANGED now

(* As Receive, but least_squares_slope raises ZeroDivisionError. *)
ReceiveAndDivideByZero(m, v) ==
  LET list == ListAfter(m, v) IN
  /\ running /\ now \in Arrivals
  /\ ComputesSlope(m, v) /\ LeastSquares(list).den = 0
  /\ values' = [values EXCEPT ![m] = list]
  /\ last_received' = [last_received EXCEPT ![m] = now]
  /\ running' = FALSE
  /\ sent' = FALSE
  /\ UNCHANGED now

Packet(m, v) == Receive(m, v) \/ ReceiveAndDivideByZero(m, v)

Next == Tick \/ \E m \in Motes, v \in Values : Packet(m, v)

Spec == Init /\ [][Next]_vars
-----------------------------------------------------------------------------
TypeOK ==
  /\ values \in [Motes -> Seq([x : 0 .. MaxTime, y : Values])]
  /\ \A m \in Motes : Len(values[m]) <= MAX_VALUES
  /\ last_received \in [Motes -> {Never} \cup 0 .. MaxTime]
  /\ running \in BOOLEAN
  /\ now \in 0 .. MaxTime
  /\ sent \in BOOLEAN

(* The two dictionaries have the same motes, and a mote's values are in the *)
(* order of their times, none later than its last packet (server.py:16-40,  *)
(* 76-84; Packet.py:14). *)
DictionariesAgree ==
  \A m \in Motes :
    /\ values[m] = << >> <=> last_received[m] = Never
    /\ \A j \in DOMAIN values[m] :
         /\ values[m][j].x <= last_received[m]
         /\ j > 1 => values[m][j - 1].x <= values[m][j].x

(* The program ends by itself only when it finds a mote that was silent for *)
(* TIMEOUT, or when more than MIN_VALUES values of a mote all came in the   *)
(* same second: as soon as two of a mote's times differ its slope can be    *)
(* divided, whatever the duplicates and values dropped                      *)
(* (server.py:24-38, 76-84, 93-102; Packet.py:14). *)
SameTime(list) == \A j \in DOMAIN list : list[j].x = list[1].x
EndsWithCause ==
  [][\A m \in Motes, v \in Values : Packet(m, v) /\ ~running' =>
       \/ \E n \in Motes : last_received[n] # Never /\ now - last_received[n] >= TIMEOUT
       \/ Len(values'[m]) > MIN_VALUES /\ SameTime(values'[m])]_vars

(* The server sends OPEN only if the packet was no duplicate, the mote has  *)
(* more than MIN_VALUES values (with ten none is sent) of more than one     *)
(* second, and their slope is above the threshold by a hundredth at least,  *)
(* as what is below that is cut off.  It does send OPEN then if the         *)
(* threshold is not positive; above a positive one the cuts in doubles may  *)
(* swallow two hundredths more (server.py:27-50, 87-104).                   *)
OpensOnSlope ==
  [][\A m \in Motes, v \in Values : Packet(m, v) =>
       LET slope == LeastSquares(values'[m])
           Due(hundredths) ==
             /\ ~IsDuplicate(values[m], v)
             /\ Len(values'[m]) > MIN_VALUES /\ ~SameTime(values'[m])
             /\ CutAtLeast([num |-> 100 * slope.num, den |-> slope.den],
                           100 * THRESHOLD + hundredths)
       IN  /\ sent' => Due(1)
           /\ Due(IF THRESHOLD > 0 THEN 3 ELSE 1) => sent']_vars

Age(m) ==
  IF last_received[m] = Never THEN 0
  ELSE IF now - last_received[m] > TIMEOUT THEN TIMEOUT ELSE now - last_received[m]

Window == [m \in Motes |-> [j \in DOMAIN values[m] |-> values[m][j].y]]
Ages == [m \in Motes |-> Age(m)]
W == INSTANCE Windows WITH
       Room <- Cardinality(Motes),
       StartsAnew <- FALSE,
       MAX_NB_VALUES <- MAX_VALUES,
       MIN_NB_VALUES_COMPUTE <- MIN_VALUES,
       TIMEOUT_DATA <- TIMEOUT - 1,
       window <- Window,
       age <- Ages,
       decision <- IF sent THEN "OPEN_VALVE" ELSE "CLOSE_VALVE"

(* The server keeps the latest values of each mote as a computation mote    *)
(* does, without the retransmitted ones, forgets only silent motes (but not *)
(* the values of one that comes back), and sends OPEN only on enough values *)
(* (server.py:16-50, 76-84). *)
ImplementsWindows == W!Spec
=============================================================================
