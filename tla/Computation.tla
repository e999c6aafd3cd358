---------------------------- MODULE Computation ----------------------------
(***************************************************************************)
(* The data a computation mote keeps of the sensor motes it computes for,  *)
(* and its decision to open a valve (src/mote/computation.c).              *)
(***************************************************************************)
EXTENDS Slopes

CONSTANTS
  Motes,                  \* the sensor motes whose DATA reaches this mote
  NoAddr,                 \* the address of a slot never used, 0.0
  Values,                 \* air quality values, at most 500 in the code
  MAX_NB_COMPUTED,        \* 5 in the code
  MAX_NB_VALUES,          \* 30 in the code
  MIN_NB_VALUES_COMPUTE,  \* 10 in the code
  SLOPE_THRESHOLD,        \* 0 in the code
  TIMEOUT_DATA,           \* 300 s in the code
  RETRANSMISSION          \* the 15 s of the duplicate test

ASSUME ComputationAssumption ==
  /\ NoAddr \notin Motes
  /\ Values \subseteq 0 .. 500
  /\ MAX_NB_COMPUTED \in Nat \ {0}
  /\ MAX_NB_VALUES \in Nat \ {0}
  /\ MIN_NB_VALUES_COMPUTE \in 1 .. MAX_NB_VALUES
  /\ SLOPE_THRESHOLD \in Int
  /\ TIMEOUT_DATA \in Nat
  /\ RETRANSMISSION \in 0 .. TIMEOUT_DATA

VARIABLES
  motes,  \* computed_motes
  ret     \* what the last add_and_check_valve returned

vars == <<motes, ret>>

Slots == 0 .. MAX_NB_COMPUTED - 1
Indices == 0 .. MAX_NB_VALUES - 1

(* computed_mote_t, with the time since timestamp, counted to one second    *)
(* past the timeout, in place of the timestamp.                             *)
ComputedMotes ==
  [addr : Motes \cup {NoAddr}, age : 0 .. TIMEOUT_DATA + 1, in_use : BOOLEAN,
   values : [Indices -> Values \cup {0}],
   first_value_index : Indices, first_free_value_index : Indices]

Init ==
  /\ motes = [i \in Slots |->
       [addr |-> NoAddr, age |-> TIMEOUT_DATA + 1, in_use |-> FALSE,
        values |-> [j \in Indices |-> 0],
        first_value_index |-> 0, first_free_value_index |-> 0]]
  /\ ret = "CLOSE_VALVE"

Tick ==
  /\ motes' = [i \in Slots |->
       [motes[i] EXCEPT !.age = IF @ > TIMEOUT_DATA THEN @ ELSE @ + 1]]
  /\ UNCHANGED ret

-----------------------------------------------------------------------------
(* indexFind scans the slots in order for address a, and returns at the     *)
(* first one that holds it, unless that is the first unused one.            *)
TimedOut(i) == motes[i].age > TIMEOUT_DATA
Unused(i) == ~motes[i].in_use \/ TimedOut(i)

(* Mutant of Returns: a slot that timed out is not looked at.               *)
ReturnsInUse(a, i) == motes[i].addr = a /\ motes[i].in_use

Returns(a, i) ==
  /\ motes[i].addr = a
  /\ motes[i].in_use \/ \E j \in 0 .. i - 1 : Unused(j)
ReturnsFirst(a, i) == Returns(a, i) /\ \A j \in 0 .. i - 1 : ~Returns(a, j)
ScansAll(a) == \A i \in Slots : ~Returns(a, i)

FirstUnused(i) == Unused(i) /\ \A j \in 0 .. i - 1 : ~Unused(j)

IndexFound(a, i) == ReturnsFirst(a, i) \/ (ScansAll(a) /\ FirstUnused(i))
BufferFull(a) == ScansAll(a) /\ \A i \in Slots : ~Unused(i)

(* The slots that the scan passes are swept: no longer in use if they timed *)
(* out. *)
Swept(a, found) ==
  [i \in Slots |->
     IF TimedOut(i) /\ (ScansAll(a) \/ i <= found)
       THEN [motes[i] EXCEPT !.in_use = FALSE] ELSE motes[i]]

-----------------------------------------------------------------------------
(* A slot's values, oldest first; equal indices mean a full buffer.         *)
CountValues(e) == (e.first_free_value_index + MAX_NB_VALUES - e.first_value_index) % MAX_NB_VALUES
NbValues(e) == IF CountValues(e) = 0 THEN MAX_NB_VALUES ELSE CountValues(e)
Stored(e) ==
  [j \in 1 .. NbValues(e) |-> e.values[(e.first_value_index + j - 1) % MAX_NB_VALUES]]

(* The fraction that slope_value computes: only the last term of sum_xy and *)
(* of sum_xx counts. *)
Fraction(w) ==
  LET n == Len(w)
      last == n - 1
  IN  Regression(n, SumFunction([j \in 1 .. n |-> j - 1]), SumFunction(w),
                 last * w[n], last * last)

slope_value(w) == Quotient(Quotient(100 * Fraction(w).num, Fraction(w).den), 100)

(* A slope that divides by zero, or whose hundredfold does not fit in the   *)
(* 16 bits of an int, is converted to any int.                              *)
SlopeFits(w) ==
  LET hundredths == Quotient(100 * Fraction(w).num, Fraction(w).den)
  IN  Fraction(w).den # 0 /\ -32768 <= hundredths /\ hundredths <= 32767
MayOpen(w) == SlopeFits(w) => slope_value(w) >= SLOPE_THRESHOLD
MayClose(w) == SlopeFits(w) => slope_value(w) < SLOPE_THRESHOLD

-----------------------------------------------------------------------------
IsDuplicate(e, v) ==
  /\ e.values[(e.first_free_value_index + MAX_NB_VALUES - 1) % MAX_NB_VALUES] = v
  /\ e.age < RETRANSMISSION

(* The slot in use, its oldest value dropped if it is full. *)
MakeRoom(e) ==
  IF e.first_value_index = e.first_free_value_index
    THEN [e EXCEPT !.first_value_index = (@ + 1) % MAX_NB_VALUES] ELSE e

(* Mutant of NewMote: the indices of the slot's last owner remain.          *)
NewMoteOldIndices(e, a) == [e EXCEPT !.in_use = TRUE, !.addr = a]

NewMote(e, a) ==
  [e EXCEPT !.in_use = TRUE, !.addr = a,
            !.first_value_index = 0, !.first_free_value_index = 0]

(* Mutant of AddValue: the index runs out of the buffer. *)
AddValueBeyond(e, v) ==
  [e EXCEPT !.age = 0,
            !.values[e.first_free_value_index] = v,
            !.first_free_value_index = @ + 1]

AddValue(e, v) ==
  [e EXCEPT !.age = 0,
            !.values[e.first_free_value_index] = v,
            !.first_free_value_index = (@ + 1) % MAX_NB_VALUES]

(* Mutant of EnoughValues: a buffer that was full has no part in it.        *)
CountedValues(was, e) == CountValues(e) >= MIN_NB_VALUES_COMPUTE

EnoughValues(was, e) ==
  \/ was.in_use /\ was.first_value_index = was.first_free_value_index
  \/ CountValues(e) >= MIN_NB_VALUES_COMPUTE

(* What add_and_check_valve stores in the slot it found. *)
Filled(was, a, v) == AddValue(IF was.in_use THEN MakeRoom(was) ELSE NewMote(was, a), v)

Decision(was, e) ==
  \/ ret' = "OPEN_VALVE" /\ EnoughValues(was, e) /\ MayOpen(Stored(e))
  \/ ret' = "CLOSE_VALVE" /\ (EnoughValues(was, e) => MayClose(Stored(e)))

CannotAdd(a, v) ==
  /\ BufferFull(a)
  /\ motes' = Swept(a, 0)
  /\ ret' = "CANNOT_ADD_MOTE"

SkipDuplicate(a, v, i) ==
  /\ IndexFound(a, i)
  /\ Swept(a, i)[i].in_use /\ IsDuplicate(motes[i], v)
  /\ motes' = [Swept(a, i) EXCEPT ![i].age = 0]
  /\ ret' = "CLOSE_VALVE"

Store(a, v, i) ==
  /\ IndexFound(a, i)
  /\ ~(Swept(a, i)[i].in_use /\ IsDuplicate(motes[i], v))
  /\ LET was == Swept(a, i)[i] IN
     /\ motes' = [Swept(a, i) EXCEPT ![i] = Filled(was, a, v)]
     /\ Decision(was, Filled(was, a, v))

(* add_and_check_valve *)
Data(a, v) ==
  CannotAdd(a, v) \/ \E i \in Slots : SkipDuplicate(a, v, i) \/ Store(a, v, i)

Next == Tick \/ \E a \in Motes, v \in Values : Data(a, v)

Spec == Init /\ [][Next]_vars
-----------------------------------------------------------------------------
TypeOK ==
  /\ motes \in [Slots -> ComputedMotes]
  /\ ret \in {"OPEN_VALVE", "CLOSE_VALVE", "CANNOT_ADD_MOTE"}

(* A sensor mote has at most one slot, even counting the slots it has left  *)
(* behind: indexFind never returns a free slot to a mote that has another,  *)
(* in whatever order motes time out, return and take each other's slots     *)
(* (computation.c:16-42). *)
OneSlotPerMote ==
  \A i, j \in Slots :
    i # j /\ motes[i].addr # NoAddr => motes[i].addr # motes[j].addr

Holding(m) == {i \in Slots : motes[i].in_use /\ motes[i].addr = m}
Slot(m) == CHOOSE i \in Holding(m) : TRUE
Window == [m \in Motes |-> IF Holding(m) = {} THEN << >> ELSE Stored(motes[Slot(m)])]
Ages == [m \in Motes |-> IF Holding(m) = {} THEN 0 ELSE motes[Slot(m)].age]
W == INSTANCE Windows WITH
       Room <- MAX_NB_COMPUTED,
       StartsAnew <- TRUE,
       window <- Window,
       age <- Ages,
       decision <- ret

(* The circular buffers and the lazy sweep keep the latest values of each   *)
(* mote, mix up no two motes, forget only silent ones, refuse a mote only   *)
(* when all slots hold motes heard within TIMEOUT_DATA, and open a valve    *)
(* only on enough values (computation.c:16-42, 74-117).                     *)
ImplementsWindows == W!Spec

(* Whether the new values w of a mote open its valve: they are enough, but  *)
(* the value that fills the buffer never is, and their slope, cut to an     *)
(* integer, reaches the threshold.                                          *)
Opens(a, w) ==
  /\ IF Len(w) = MAX_NB_VALUES THEN Len(Window[a]) = MAX_NB_VALUES
                               ELSE Len(w) >= MIN_NB_VALUES_COMPUTE
  /\ CutAtLeast(Fraction(w), SLOPE_THRESHOLD)

(* Where the slope fits in an int, the valve is opened exactly when it      *)
(* should: what the circular indices of the slot say of its old and new     *)
(* values, and the two cuts of the slope, decide nothing else               *)
(* (computation.c:49-69, 83-116). *)
OpensExactly ==
  [][\A a \in Motes, v \in Values, i \in Slots :
       Store(a, v, i) /\ SlopeFits(Stored(motes'[i])) =>
         (ret' = "OPEN_VALVE" <=> Opens(a, Stored(motes'[i])))]_vars

-----------------------------------------------------------------------------
(* What the comments say, and the code does not do. *)

(* Whether the values against 0 .. n-1 rise by at least the threshold       *)
Rises(w) ==
  LET slope == LeastSquares([j \in DOMAIN w |-> [x |-> j - 1, y |-> w[j]]])
  IN  slope.num <= SLOPE_THRESHOLD * slope.den

(* "the slope of the least square regression of the data values"            *)
(* (README.md:40) decides whether the valve opens.                          *)
OpensOnRise ==
  [][\A a \in Motes, v \in Values, i \in Slots :
       Store(a, v, i) /\ ret' = "OPEN_VALVE" => Rises(Stored(motes'[i]))]_vars

=============================================================================
