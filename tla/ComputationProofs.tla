------------------------- MODULE ComputationProofs -------------------------
(***************************************************************************)
(* Proofs about Computation, for any number of motes, slots and values:    *)
(* the type invariant, with every index inside its buffer, that a sensor   *)
(* mote never has two slots, that the circular buffers implement module    *)
(* Windows, and exactly when a valve is opened. *)
(***************************************************************************)
EXTENDS Computation, Arithmetic

LEMMA NextIndex ==
  ASSUME NEW j \in Indices
  PROVE  (j + 1) % MAX_NB_VALUES \in Indices
BY ComputationAssumption DEF Indices

LEMMA AddrsOfSwept ==
  ASSUME NEW a, NEW found, TypeOK, NEW i \in Slots
  PROVE  /\ Swept(a, found) \in [Slots -> ComputedMotes]
         /\ Swept(a, found)[i].addr = motes[i].addr
<1>1. \A s \in Slots : [motes[s] EXCEPT !.in_use = FALSE] \in ComputedMotes
  BY DEF TypeOK, ComputedMotes
<1>2. motes[i] \in ComputedMotes
  BY DEF TypeOK
<1>3. [motes[i] EXCEPT !.in_use = FALSE].addr = motes[i].addr
  BY <1>2 DEF ComputedMotes
<1> QED BY <1>1, <1>2, <1>3 DEF Swept, TypeOK

(* A value is stored inside the buffer, and both indices stay inside it.    *)
LEMMA AddValueType ==
  ASSUME NEW e \in ComputedMotes, NEW v \in Values
  PROVE  AddValue(e, v) \in ComputedMotes /\ AddValue(e, v).addr = e.addr
<1>1. e.first_free_value_index \in Indices /\ 0 \in 0 .. TIMEOUT_DATA + 1
  BY ComputationAssumption DEF ComputedMotes
<1>2. [e.values EXCEPT ![e.first_free_value_index] = v] \in [Indices -> Values \cup {0}]
  BY <1>1 DEF ComputedMotes
<1> QED BY <1>1, <1>2, NextIndex DEF AddValue, ComputedMotes

LEMMA FilledType ==
  ASSUME NEW was \in ComputedMotes, NEW a \in Motes, NEW v \in Values
  PROVE  /\ Filled(was, a, v) \in ComputedMotes
         /\ Filled(was, a, v).addr = IF was.in_use THEN was.addr ELSE a
<1> DEFINE e == IF was.in_use THEN MakeRoom(was) ELSE NewMote(was, a)
<1>0. 0 \in Indices /\ 0 \in 0 .. TIMEOUT_DATA + 1
  BY ComputationAssumption DEF Indices
<1>1. was.first_value_index \in Indices /\ was.in_use \in BOOLEAN
  BY DEF ComputedMotes
<1>2. MakeRoom(was) \in ComputedMotes /\ MakeRoom(was).addr = was.addr
  BY <1>1, NextIndex DEF MakeRoom, ComputedMotes
<1>3. NewMote(was, a) \in ComputedMotes /\ NewMote(was, a).addr = a
  BY <1>0 DEF NewMote, ComputedMotes
<1>4. e \in ComputedMotes /\ e.addr = IF was.in_use THEN was.addr ELSE a
  BY <1>1, <1>2, <1>3
<1> HIDE DEF e
<1>5. AddValue(e, v) \in ComputedMotes /\ AddValue(e, v).addr = e.addr
  BY <1>4, AddValueType
<1> QED BY <1>4, <1>5 DEF Filled, e

LEMMA TypeInit == Init => TypeOK
<1> SUFFICES ASSUME Init PROVE TypeOK
  OBVIOUS
<1>1. 0 \in Indices /\ TIMEOUT_DATA + 1 \in 0 .. TIMEOUT_DATA + 1
  BY ComputationAssumption DEF Indices
<1>2. motes \in [Slots -> ComputedMotes]
  BY <1>1 DEF Init, ComputedMotes
<1> QED BY <1>2 DEF Init, TypeOK

LEMMA TypeStep == TypeOK /\ [Next]_vars => TypeOK'
<1> SUFFICES ASSUME TypeOK, [Next]_vars PROVE TypeOK'
  OBVIOUS
<1>1. CASE Tick
  <2>1. \A i \in Slots :
          [motes[i] EXCEPT !.age = IF @ > TIMEOUT_DATA THEN @ ELSE @ + 1] \in ComputedMotes
    <3> SUFFICES ASSUME NEW i \in Slots
                 PROVE  [motes[i] EXCEPT !.age = IF @ > TIMEOUT_DATA THEN @ ELSE @ + 1] \in ComputedMotes
      OBVIOUS
    <3>1. motes[i] \in ComputedMotes
      BY DEF TypeOK
    <3>2. (IF motes[i].age > TIMEOUT_DATA THEN motes[i].age ELSE motes[i].age + 1)
            \in 0 .. TIMEOUT_DATA + 1
      BY <3>1, ComputationAssumption DEF ComputedMotes
    <3> QED BY <3>1, <3>2 DEF ComputedMotes
  <2> QED BY <1>1, <2>1 DEF Tick, TypeOK
<1>2. ASSUME NEW a \in Motes, NEW v \in Values, CannotAdd(a, v) PROVE TypeOK'
  <2>1. motes' \in [Slots -> ComputedMotes]
    <3>1. Slots # {}
      BY ComputationAssumption DEF Slots
    <3> QED BY <1>2, <3>1, AddrsOfSwept DEF CannotAdd
  <2> QED BY <1>2, <2>1 DEF CannotAdd, TypeOK
<1>3. ASSUME NEW a \in Motes, NEW v \in Values, NEW i \in Slots, SkipDuplicate(a, v, i)
      PROVE  TypeOK'
  <2>1. Swept(a, i) \in [Slots -> ComputedMotes]
    BY AddrsOfSwept
  <2>2. [Swept(a, i)[i] EXCEPT !.age = 0] \in ComputedMotes
    BY <2>1, ComputationAssumption DEF ComputedMotes
  <2> QED BY <1>3, <2>1, <2>2 DEF SkipDuplicate, TypeOK
<1>4. ASSUME NEW a \in Motes, NEW v \in Values, NEW i \in Slots, Store(a, v, i)
      PROVE  TypeOK'
  <2>1. Swept(a, i) \in [Slots -> ComputedMotes]
    BY AddrsOfSwept
  <2>2. Filled(Swept(a, i)[i], a, v) \in ComputedMotes
    BY <2>1, FilledType
  <2>3. motes' \in [Slots -> ComputedMotes]
    BY <1>4, <2>1, <2>2 DEF Store
  <2>4. ret' \in {"OPEN_VALVE", "CLOSE_VALVE"}
    BY <1>4 DEF Store, Decision
  <2> QED BY <2>3, <2>4 DEF TypeOK
<1>5. CASE UNCHANGED vars
  BY <1>5 DEF vars, TypeOK
<1> QED BY <1>1, <1>2, <1>3, <1>4, <1>5 DEF Next, Data

(* The slots keep their types: both indices of every circular buffer stay   *)
(* inside it, and a value is never stored outside (add_and_check_valve).    *)
THEOREM TypeCorrect == Spec => []TypeOK
BY TypeInit, TypeStep, PTL DEF Spec

-----------------------------------------------------------------------------
(* The slot that indexFind returns either holds the mote already, or no     *)
(* other slot does, in use or not. *)
LEMMA FoundAlone ==
  ASSUME TypeOK, OneSlotPerMote, NEW a \in Motes, NEW i \in Slots, IndexFound(a, i),
         NEW j \in Slots, j # i
  PROVE  motes[j].addr # a
<1>0. NoAddr # a /\ i \in Nat /\ j \in Nat
  BY ComputationAssumption DEF Slots
<1>1. CASE motes[i].addr = a
  BY <1>0, <1>1 DEF OneSlotPerMote
<1>2. CASE ScansAll(a) /\ FirstUnused(i)
  <2> SUFFICES ASSUME motes[j].addr = a PROVE FALSE
    OBVIOUS
  <2>1. ~motes[j].in_use /\ \A h \in 0 .. j - 1 : ~Unused(h)
    BY <1>2 DEF ScansAll, Returns
  <2>2. Unused(i) /\ Unused(j)
    BY <1>2, <2>1 DEF FirstUnused, Unused
  <2>3. ~(i < j)
    BY <1>0, <2>1, <2>2
  <2>4. ~(j < i)
    BY <1>0, <1>2, <2>2 DEF FirstUnused
  <2> QED BY <1>0, <2>3, <2>4
<1> QED BY <1>1, <1>2 DEF IndexFound, ReturnsFirst, Returns

LEMMA OneSlotStep == TypeOK /\ OneSlotPerMote /\ [Next]_vars => OneSlotPerMote'
<1> SUFFICES ASSUME TypeOK, OneSlotPerMote, [Next]_vars PROVE OneSlotPerMote'
  OBVIOUS
<1>0. ASSUME \A s \in Slots : motes'[s].addr = motes[s].addr PROVE OneSlotPerMote'
  BY <1>0 DEF OneSlotPerMote
<1>1. CASE Tick
  <2>1. \A s \in Slots : motes'[s].addr = motes[s].addr
    BY <1>1 DEF Tick, TypeOK, ComputedMotes
  <2> QED BY <1>0, <2>1
<1>2. ASSUME NEW a \in Motes, NEW v \in Values, CannotAdd(a, v) PROVE OneSlotPerMote'
  BY <1>0, <1>2, AddrsOfSwept DEF CannotAdd
<1>3. ASSUME NEW a \in Motes, NEW v \in Values, NEW i \in Slots, SkipDuplicate(a, v, i)
      PROVE  OneSlotPerMote'
  <2>1. \A s \in Slots : /\ Swept(a, i) \in [Slots -> ComputedMotes]
                         /\ Swept(a, i)[s].addr = motes[s].addr
    BY AddrsOfSwept
  <2>2. [Swept(a, i)[i] EXCEPT !.age = 0].addr = Swept(a, i)[i].addr
    BY <2>1 DEF ComputedMotes
  <2> QED BY <1>0, <1>3, <2>1, <2>2 DEF SkipDuplicate
<1>4. ASSUME NEW a \in Motes, NEW v \in Values, NEW i \in Slots, Store(a, v, i)
      PROVE  OneSlotPerMote'
  <2> DEFINE was == Swept(a, i)[i]
  <2>1. \A s \in Slots : /\ Swept(a, i) \in [Slots -> ComputedMotes]
                         /\ Swept(a, i)[s].addr = motes[s].addr
    BY AddrsOfSwept
  <2>2. motes' = [Swept(a, i) EXCEPT ![i] = Filled(was, a, v)]
    BY <1>4 DEF Store
  <2>3. \A s \in Slots \ {i} : motes'[s].addr = motes[s].addr
    BY <2>1, <2>2
  <2>4. IndexFound(a, i)
    BY <1>4 DEF Store
  <2>5. motes'[i].addr = a
    <3>1. motes'[i].addr = IF was.in_use THEN motes[i].addr ELSE a
      <4>1. was \in ComputedMotes /\ was.addr = motes[i].addr
        BY <2>1
      <4> HIDE DEF was
      <4> QED BY <2>1, <2>2, <4>1, FilledType
    <3>2. was.in_use => motes[i].addr = a
      <4>1. CASE ReturnsFirst(a, i)
        BY <4>1 DEF ReturnsFirst, Returns
      <4>2. CASE ScansAll(a) /\ FirstUnused(i)
        <5>1. motes[i] \in ComputedMotes
          BY DEF TypeOK
        <5>2. ~was.in_use
          BY <4>2, <5>1 DEF FirstUnused, Unused, Swept, ComputedMotes
        <5> QED BY <5>2
      <4> QED BY <2>4, <4>1, <4>2 DEF IndexFound
    <3> QED BY <3>1, <3>2
  <2>6. \A s \in Slots \ {i} : motes'[s].addr # a
    BY <2>3, <2>4, FoundAlone
  <2> QED BY <2>3, <2>5, <2>6 DEF OneSlotPerMote
<1>5. CASE UNCHANGED vars
  BY <1>0, <1>5 DEF vars
<1> QED BY <1>1, <1>2, <1>3, <1>4, <1>5 DEF Next, Data

(* A sensor mote never has two slots, in use or left behind, so that its    *)
(* values are never split over two windows (indexFind).                     *)
THEOREM OneSlot == Spec => []OneSlotPerMote
<1>1. Init => OneSlotPerMote
  BY DEF Init, OneSlotPerMote
<1> QED BY <1>1, TypeInit, TypeStep, OneSlotStep, PTL DEF Spec

-----------------------------------------------------------------------------
(* Indices wrap once at most. *)
LEMMA Wraps ==
  ASSUME NEW x \in 0 .. 2 * MAX_NB_VALUES - 1
  PROVE  x % MAX_NB_VALUES = IF x < MAX_NB_VALUES THEN x ELSE x - MAX_NB_VALUES
BY ComputationAssumption

LEMMA WrapsFrom ==
  ASSUME NEW f \in Indices, NEW j \in 1 .. MAX_NB_VALUES
  PROVE  /\ (f + j - 1) % MAX_NB_VALUES =
              IF f + j - 1 < MAX_NB_VALUES THEN f + j - 1 ELSE f + j - 1 - MAX_NB_VALUES
         /\ (f + j - 1) % MAX_NB_VALUES \in Indices
         /\ (f + j) % MAX_NB_VALUES =
              IF f + j < MAX_NB_VALUES THEN f + j ELSE f + j - MAX_NB_VALUES
<1>1. MAX_NB_VALUES \in Nat /\ f \in Int /\ j \in Int
  BY ComputationAssumption DEF Indices
<1>2. /\ f + j - 1 \in 0 .. 2 * MAX_NB_VALUES - 1
      /\ f + j \in 0 .. 2 * MAX_NB_VALUES - 1
  BY <1>1 DEF Indices
<1>3. (f + j - 1) % MAX_NB_VALUES =
         IF f + j - 1 < MAX_NB_VALUES THEN f + j - 1 ELSE f + j - 1 - MAX_NB_VALUES
  BY <1>1, <1>2, Wraps
<1>4. (f + j) % MAX_NB_VALUES =
         IF f + j < MAX_NB_VALUES THEN f + j ELSE f + j - MAX_NB_VALUES
  BY <1>1, <1>2, Wraps
<1> QED BY <1>1, <1>2, <1>3, <1>4 DEF Indices

(* The number of values of a slot, and the index of its last value.         *)
LEMMA StoredValues ==
  ASSUME NEW e \in ComputedMotes
  PROVE  /\ NbValues(e) \in 1 .. MAX_NB_VALUES
         /\ e.first_value_index = e.first_free_value_index <=> NbValues(e) = MAX_NB_VALUES
         /\ CountValues(e) \in Nat
         /\ CountValues(e) # 0 => CountValues(e) = NbValues(e)
         /\ Stored(e) \in Seq(Values \cup {0}) /\ Len(Stored(e)) = NbValues(e)
         /\ NbValues(e) = IF e.first_free_value_index > e.first_value_index
                            THEN e.first_free_value_index - e.first_value_index
                            ELSE e.first_free_value_index + MAX_NB_VALUES - e.first_value_index
         /\ Stored(e)[NbValues(e)]
              = e.values[(e.first_free_value_index + MAX_NB_VALUES - 1) % MAX_NB_VALUES]
<1> DEFINE N == MAX_NB_VALUES
           f == e.first_value_index
           g == e.first_free_value_index
<1>1. N \in Nat \ {0} /\ f \in 0 .. N - 1 /\ g \in 0 .. N - 1
  BY ComputationAssumption DEF ComputedMotes, Indices
<1>2. CountValues(e) = IF g >= f THEN g - f ELSE g + N - f
  BY <1>1, g + N - f \in 0 .. 2 * N - 1, Wraps DEF CountValues
<1>3. NbValues(e) = IF g > f THEN g - f ELSE g + N - f
  BY <1>1, <1>2 DEF NbValues
<1>4. NbValues(e) \in 1 .. N
  BY <1>1, <1>3
<1>5. \A j \in 1 .. NbValues(e) : (f + j - 1) % N \in Indices
  <2>1. \A j \in 1 .. NbValues(e) : j \in 1 .. N
    BY <1>1, <1>4
  <2> QED BY <2>1, <1>1, WrapsFrom DEF Indices
<1>6. Stored(e) \in [1 .. NbValues(e) -> Values \cup {0}]
  BY <1>5 DEF Stored, ComputedMotes, Indices
<1>7. (f + NbValues(e) - 1) % N = (g + N - 1) % N
  <2>1. g + N - 1 \in 0 .. 2 * N - 1 /\ f + NbValues(e) - 1 \in 0 .. 2 * N - 1
    BY <1>1, <1>3
  <2> QED BY <2>1, <1>1, <1>3, Wraps
<1>8. Stored(e)[NbValues(e)] = e.values[(g + N - 1) % N]
  BY <1>4, <1>7 DEF Stored
<1>9. Stored(e) \in Seq(Values \cup {0}) /\ Len(Stored(e)) = NbValues(e)
  BY <1>4, <1>6
<1>10. /\ f = g <=> NbValues(e) = N
       /\ CountValues(e) \in Nat
       /\ CountValues(e) # 0 => CountValues(e) = NbValues(e)
  BY <1>1, <1>2, <1>3
<1> QED BY <1>3, <1>4, <1>8, <1>9, <1>10

(* A value added to a slot in use is appended to its values, and the oldest *)
(* one is dropped if there are more than fit. *)
LEMMA StoredAdded ==
  ASSUME NEW e \in ComputedMotes, NEW v \in Values
  PROVE  Stored(AddValue(MakeRoom(e), v)) = W!Latest(Append(Stored(e), v))
<1> DEFINE N == MAX_NB_VALUES
           r == AddValue(MakeRoom(e), v)
<1>0. PICK f, g, k, F, K :
        /\ f = e.first_value_index /\ g = e.first_free_value_index /\ k = NbValues(e)
        /\ F = IF f = g THEN (f + 1) % N ELSE f
        /\ K = IF f = g THEN N ELSE k + 1
  OBVIOUS
<1>1. N \in Nat \ {0} /\ f \in 0 .. N - 1 /\ g \in 0 .. N - 1
  BY <1>0, ComputationAssumption DEF ComputedMotes, Indices
<1>2. MakeRoom(e) = [e EXCEPT !.first_value_index = F]
  BY <1>0 DEF MakeRoom, ComputedMotes
<1>3. /\ r.first_value_index = F
      /\ r.first_free_value_index = (g + 1) % N
      /\ r.values = [e.values EXCEPT ![g] = v]
  BY <1>0, <1>2 DEF AddValue, ComputedMotes
<1>4. r \in ComputedMotes
  <2>1. MakeRoom(e) \in ComputedMotes
    <3>1. F \in Indices
      BY <1>0, <1>1, NextIndex DEF Indices
    <3> QED BY <3>1, <1>2 DEF ComputedMotes
  <2> QED BY <2>1, AddValueType
<1> HIDE DEF r
<1>5. /\ k \in 1 .. N /\ (f = g <=> k = N)
      /\ Stored(e) \in Seq(Values \cup {0}) /\ Len(Stored(e)) = k
      /\ k = IF g > f THEN g - f ELSE g + N - f
  BY <1>0, StoredValues
<1>6. (f + 1) % N = IF f = N - 1 THEN 0 ELSE f + 1
  BY <1>1, f + 1 \in 0 .. 2 * N - 1, Wraps
<1>7. (g + 1) % N = IF g = N - 1 THEN 0 ELSE g + 1
  BY <1>1, g + 1 \in 0 .. 2 * N - 1, Wraps
<1>7a. /\ F = IF f = g THEN IF f = N - 1 THEN 0 ELSE f + 1 ELSE f
       /\ F \in 0 .. N - 1
       /\ K = IF f = g THEN N ELSE k + 1
       /\ K \in 1 .. N
  <2>1. F = IF f = g THEN IF f = N - 1 THEN 0 ELSE f + 1 ELSE f
    BY <1>0, <1>6
  <2>2. K = IF f = g THEN N ELSE k + 1
    BY <1>0
  <2>3. K \in 1 .. N
    BY <2>2, <1>1, <1>5
  <2> QED BY <2>1, <2>2, <2>3, <1>1
<1>8. NbValues(r) = K
  <2>1. NbValues(r) = IF (g + 1) % N > F THEN ((g + 1) % N) - F ELSE ((g + 1) % N) + N - F
    BY <1>3, <1>4, StoredValues
  <2> QED BY <2>1, <1>1, <1>5, <1>7, <1>7a
<1>9. Stored(r) \in Seq(Values \cup {0}) /\ Len(Stored(r)) = K
  BY <1>4, <1>8, StoredValues
<1>10. \A j \in 1 .. K : Stored(r)[j] = IF (F + j - 1) % N = g THEN v ELSE e.values[(F + j - 1) % N]
  <2>1. \A j \in 1 .. K : Stored(r)[j] = r.values[(F + j - 1) % N]
    BY <1>3, <1>8 DEF Stored
  <2>2. \A j \in 1 .. K : (F + j - 1) % N \in Indices
    <3> SUFFICES ASSUME NEW j \in 1 .. K PROVE (F + j - 1) % N \in Indices
      OBVIOUS
    <3>1. F \in Indices /\ j \in 1 .. N
      BY <1>1, <1>7a DEF Indices
    <3> QED BY <3>1, WrapsFrom
  <2> QED BY <2>1, <2>2, <1>3 DEF ComputedMotes
<1>11. \A j \in 1 .. k : Stored(e)[j] = e.values[(f + j - 1) % N]
  BY <1>0 DEF Stored
<1>12. CASE f = g
  <2> DEFINE w == Tail(Append(Stored(e), v))
  <2>1. W!Latest(Append(Stored(e), v)) = w
    BY <1>1, <1>5, <1>7a, <1>12 DEF W!Latest
  <2>2. w \in Seq(Values \cup {0}) /\ Len(w) = N
    BY <1>1, <1>5, <1>7a, <1>12
  <2>3. \A j \in 1 .. N : w[j] = IF j = N THEN v ELSE Stored(e)[j + 1]
    BY <1>1, <1>5, <1>7a, <1>12
  <2>4. \A j \in 1 .. N : (F + j - 1) % N = (f + j) % N /\ ((f + j) % N = g <=> j = N)
    <3> SUFFICES ASSUME NEW j \in 1 .. N
                 PROVE  (F + j - 1) % N = (f + j) % N /\ ((f + j) % N = g <=> j = N)
      OBVIOUS
    <3>1. f \in Indices /\ F \in Indices
      BY <1>1, <1>7a DEF Indices
    <3>2. (f + j) % N = IF f + j < N THEN f + j ELSE f + j - N
      BY <3>1, WrapsFrom
    <3>3. (F + j - 1) % N = IF F + j - 1 < N THEN F + j - 1 ELSE F + j - 1 - N
      BY <3>1, WrapsFrom
    <3> QED BY <3>2, <3>3, <1>1, <1>7a, <1>12
  <2>5. \A j \in 1 .. N : Stored(r)[j] = w[j]
    <3> SUFFICES ASSUME NEW j \in 1 .. N PROVE Stored(r)[j] = w[j]
      OBVIOUS
    <3>1. Stored(r)[j] = IF j = N THEN v ELSE e.values[(f + j) % N]
      BY <2>4, <1>10, <1>7a, <1>12
    <3>2. j # N => Stored(e)[j + 1] = e.values[(f + j) % N]
      <4>1. j # N => j + 1 \in 1 .. k /\ f + (j + 1) - 1 = f + j
        BY <1>1, <1>5, <1>7a, <1>12
      <4> QED BY <4>1, <1>11
    <3> QED BY <3>1, <3>2, <2>3, <1>7a
  <2>6. Stored(r) = w
    BY <2>2, <2>5, <1>9, <1>7a, <1>12
  <2> QED BY <2>1, <2>6 DEF r
<1>13. CASE f # g
  <2> DEFINE w == Append(Stored(e), v)
  <2>1. W!Latest(Append(Stored(e), v)) = w
    BY <1>1, <1>5, <1>7a, <1>13 DEF W!Latest
  <2>2. w \in Seq(Values \cup {0}) /\ Len(w) = K
    BY <1>1, <1>5, <1>7a, <1>13
  <2>3. \A j \in 1 .. K : w[j] = IF j = K THEN v ELSE Stored(e)[j]
    BY <1>1, <1>5, <1>7a, <1>13
  <2>4. \A j \in 1 .. K : (f + j - 1) % N = g <=> j = K
    <3> SUFFICES ASSUME NEW j \in 1 .. K PROVE (f + j - 1) % N = g <=> j = K
      OBVIOUS
    <3>1. f \in Indices /\ j \in 1 .. N
      BY <1>1, <1>7a DEF Indices
    <3>2. (f + j - 1) % N = IF f + j - 1 < N THEN f + j - 1 ELSE f + j - 1 - N
      BY <3>1, WrapsFrom
    <3> QED BY <3>2, <1>1, <1>5, <1>7a, <1>13
  <2>5. \A j \in 1 .. K : Stored(r)[j] = w[j]
    <3> SUFFICES ASSUME NEW j \in 1 .. K PROVE Stored(r)[j] = w[j]
      OBVIOUS
    <3>1. Stored(r)[j] = IF j = K THEN v ELSE e.values[(f + j - 1) % N]
      BY <2>4, <1>10, <1>7a, <1>13
    <3>2. j # K => Stored(e)[j] = e.values[(f + j - 1) % N]
      <4>1. j # K => j \in 1 .. k
        BY <1>1, <1>5, <1>7a, <1>13
      <4> QED BY <4>1, <1>11
    <3> QED BY <3>1, <3>2, <2>3, <1>7a
  <2>6. Stored(r) = w
    BY <2>2, <2>5, <1>9
  <2> QED BY <2>1, <2>6 DEF r
<1> QED BY <1>12, <1>13

(* The first value of a mote is all that its slot holds. *)
LEMMA StoredFirst ==
  ASSUME NEW e \in ComputedMotes, NEW a \in Motes, NEW v \in Values
  PROVE  Stored(AddValue(NewMote(e, a), v)) = <<v>>
<1> DEFINE N == MAX_NB_VALUES
           r == AddValue(NewMote(e, a), v)
<1>1. N \in Nat \ {0} /\ 0 \in Indices
  BY ComputationAssumption DEF Indices
<1>2. NewMote(e, a) \in ComputedMotes
  BY <1>1 DEF NewMote, ComputedMotes
<1>3. r \in ComputedMotes
  BY <1>2, AddValueType
<1>4. r.first_value_index = 0 /\ r.first_free_value_index = 1 % N /\ r.values[0] = v
  BY <1>1 DEF NewMote, AddValue, ComputedMotes
<1>5. 1 % N = IF N = 1 THEN 0 ELSE 1
  BY <1>1, 1 \in 0 .. 2 * N - 1, Wraps
<1> HIDE DEF r
<1>6. NbValues(r) = 1
  BY <1>1, <1>3, <1>4, <1>5, StoredValues
<1>7. (0 + 1 - 1) % N = 0
  BY <1>1, 0 \in 0 .. 2 * N - 1, Wraps
<1>8. Stored(r) = [j \in 1 .. 1 |-> v]
  <2>1. \A j \in 1 .. 1 : r.values[(r.first_value_index + j - 1) % N] = v
    BY <1>4, <1>7
  <2> QED BY <1>6, <2>1 DEF Stored
<1> QED BY <1>8 DEF r

(* Decision opens the valve only on enough values. *)
LEMMA DecisionEnough ==
  ASSUME NEW was \in ComputedMotes, NEW e \in ComputedMotes, EnoughValues(was, e),
         was.in_use /\ NbValues(was) = MAX_NB_VALUES => NbValues(e) = MAX_NB_VALUES
  PROVE  Len(Stored(e)) >= MIN_NB_VALUES_COMPUTE
<1>1. /\ Len(Stored(e)) = NbValues(e) /\ CountValues(e) \in Nat
      /\ CountValues(e) # 0 => CountValues(e) = NbValues(e)
      /\ was.first_value_index = was.first_free_value_index => NbValues(was) = MAX_NB_VALUES
  BY StoredValues
<1> QED BY <1>1, ComputationAssumption DEF EnoughValues

-----------------------------------------------------------------------------
(* The windows and ages that an array of slots stands for. *)
Holder(mm, m) == {i \in Slots : mm[i].in_use /\ mm[i].addr = m}
WindowIn(mm) ==
  [m \in Motes |-> IF Holder(mm, m) = {} THEN << >>
                   ELSE Stored(mm[CHOOSE i \in Holder(mm, m) : TRUE])]
AgesIn(mm) ==
  [m \in Motes |-> IF Holder(mm, m) = {} THEN 0
                   ELSE mm[CHOOSE i \in Holder(mm, m) : TRUE].age]
OneSlotIn(mm) ==
  \A i, j \in Slots : i # j /\ mm[i].addr # NoAddr => mm[i].addr # mm[j].addr

LEMMA Mapping ==
  /\ Window = WindowIn(motes) /\ Window' = WindowIn(motes')
  /\ Ages = AgesIn(motes) /\ Ages' = AgesIn(motes')
  /\ OneSlotPerMote = OneSlotIn(motes) /\ OneSlotPerMote' = OneSlotIn(motes')
BY DEF Window, Ages, Slot, Holding, WindowIn, AgesIn, Holder, OneSlotPerMote, OneSlotIn

LEMMA HeldIn ==
  ASSUME NEW mm \in [Slots -> ComputedMotes], OneSlotIn(mm), NEW m \in Motes, NEW i \in Slots,
         mm[i].in_use, mm[i].addr = m
  PROVE  /\ WindowIn(mm)[m] = Stored(mm[i]) /\ WindowIn(mm)[m] # << >>
         /\ AgesIn(mm)[m] = mm[i].age
<1>1. i \in Holder(mm, m)
  BY DEF Holder
<1>2. \A j \in Holder(mm, m) : j = i
  BY ComputationAssumption DEF OneSlotIn, Holder
<1>3. (CHOOSE j \in Holder(mm, m) : TRUE) = i
  BY <1>1, <1>2
<1>4. Stored(mm[i]) # << >>
  <2>1. NbValues(mm[i]) \in 1 .. MAX_NB_VALUES /\ Len(Stored(mm[i])) = NbValues(mm[i])
    BY StoredValues
  <2> QED BY <2>1
<1> QED BY <1>1, <1>3, <1>4 DEF WindowIn, AgesIn

LEMMA NotHeldIn ==
  ASSUME NEW mm, NEW m \in Motes, \A i \in Slots : ~(mm[i].in_use /\ mm[i].addr = m)
  PROVE  WindowIn(mm)[m] = << >> /\ AgesIn(mm)[m] = 0
BY DEF WindowIn, AgesIn, Holder

(* Only slots with a mote are in use. *)
UsedByMotes == \A i \in Slots : motes[i].in_use => motes[i].addr \in Motes
IInv == TypeOK /\ OneSlotPerMote /\ UsedByMotes

Has(m, i) == motes[i].in_use /\ motes[i].addr = m

(* What module Windows says of motes, in terms of slots. *)
LEMMA Mapped ==
  ASSUME IInv, NEW m \in Motes
  PROVE  /\ m \in W!Held <=> \E i \in Slots : Has(m, i)
         /\ m \in W!Silent <=> \E i \in Slots : Has(m, i) /\ TimedOut(i)
         /\ m \in W!Continued <=> \E i \in Slots : Has(m, i) /\ ~TimedOut(i)
         /\ \A i \in Slots : Has(m, i) => Window[m] = Stored(motes[i]) /\ Ages[m] = motes[i].age
         /\ (\A i \in Slots : ~Has(m, i)) => Window[m] = << >> /\ Ages[m] = 0
<1>1. motes \in [Slots -> ComputedMotes] /\ OneSlotIn(motes)
  BY Mapping DEF IInv, TypeOK
<1>2. \A i \in Slots : Has(m, i) =>
        Window[m] = Stored(motes[i]) /\ Window[m] # << >> /\ Ages[m] = motes[i].age
  BY <1>1, HeldIn, Mapping DEF Has
<1>3. (\A i \in Slots : ~Has(m, i)) => Window[m] = << >> /\ Ages[m] = 0
  BY NotHeldIn, Mapping DEF Has
<1>4. m \in W!Held <=> \E i \in Slots : Has(m, i)
  BY <1>2, <1>3 DEF W!Held
<1>5. m \in W!Silent <=> \E i \in Slots : Has(m, i) /\ TimedOut(i)
  BY <1>2, <1>4 DEF W!Silent, TimedOut
<1>6. m \in W!Continued <=> \E i \in Slots : Has(m, i) /\ ~TimedOut(i)
  BY <1>2, <1>4, <1>5 DEF W!Continued, W!Silent, TimedOut
<1> QED BY <1>2, <1>3, <1>4, <1>5, <1>6

(* The motes whose slots a scan sweeps. *)
Gone(a, found) ==
  {m \in Motes : \E i \in Slots : /\ Has(m, i) /\ TimedOut(i)
                                  /\ ScansAll(a) \/ i <= found}

LEMMA GoneSilent ==
  ASSUME IInv, NEW a, NEW found
  PROVE  Gone(a, found) \subseteq W!Silent
BY Mapped DEF Gone

(* What a scan leaves of slot i. *)
LEMMA SweptSlot ==
  ASSUME TypeOK, NEW a, NEW found, NEW i \in Slots
  PROVE  /\ Swept(a, found)[i] \in ComputedMotes
         /\ Swept(a, found)[i].addr = motes[i].addr
         /\ Swept(a, found)[i].age = motes[i].age
         /\ Stored(Swept(a, found)[i]) = Stored(motes[i])
         /\ Swept(a, found)[i].in_use <=>
              motes[i].in_use /\ ~(TimedOut(i) /\ (ScansAll(a) \/ i <= found))
<1>1. motes[i] \in ComputedMotes
  BY DEF TypeOK
<1>2. [motes[i] EXCEPT !.in_use = FALSE] \in ComputedMotes
  BY <1>1 DEF ComputedMotes
<1>3. Stored([motes[i] EXCEPT !.in_use = FALSE]) = Stored(motes[i])
  BY <1>1 DEF Stored, NbValues, CountValues, ComputedMotes
<1>4. CASE TimedOut(i) /\ (ScansAll(a) \/ i <= found)
  BY <1>1, <1>2, <1>3, <1>4 DEF Swept, ComputedMotes
<1>5. CASE ~(TimedOut(i) /\ (ScansAll(a) \/ i <= found))
  BY <1>1, <1>5 DEF Swept
<1> QED BY <1>4, <1>5

(* A slot that is found in use holds the mote, and has not timed out; else  *)
(* no slot holds the mote that has not timed out. *)
LEMMA FoundSlot ==
  ASSUME IInv, NEW a \in Motes, NEW i \in Slots, IndexFound(a, i)
  PROVE  /\ Swept(a, i)[i].in_use => Has(a, i) /\ ~TimedOut(i)
         /\ ~Swept(a, i)[i].in_use => \A j \in Slots : Has(a, j) => TimedOut(j)
         /\ \A j \in Slots \ {i} : motes[j].addr # a
         /\ \A m \in Motes : Has(m, i) /\ ~Swept(a, i)[i].in_use => m \in Gone(a, i)
<1>1. /\ i <= i
      /\ Swept(a, i)[i].in_use <=> motes[i].in_use /\ ~(TimedOut(i) /\ (ScansAll(a) \/ i <= i))
  <2>1. i <= i
    BY DEF Slots
  <2> QED BY <2>1, SweptSlot DEF IInv
<1>2. \A j \in Slots \ {i} : motes[j].addr # a
  BY FoundAlone DEF IInv
<1>3. Swept(a, i)[i].in_use => motes[i].addr = a
  <2>1. CASE ReturnsFirst(a, i)
    BY <2>1 DEF ReturnsFirst, Returns
  <2>2. CASE FirstUnused(i)
    BY <2>2, <1>1 DEF FirstUnused, Unused
  <2> QED BY <2>1, <2>2 DEF IndexFound
<1> QED BY <1>1, <1>2, <1>3 DEF Has, Gone

(* The scan and what is then stored in slot i forget the motes in Gone, and *)
(* leave the windows of the others alone. *)
LEMMA KeepMapped ==
  ASSUME IInv, IInv', NEW a \in Motes, NEW i \in Slots, IndexFound(a, i),
         NEW e \in ComputedMotes, e.in_use, e.addr = a, e.age = 0,
         motes' = [Swept(a, i) EXCEPT ![i] = e]
  PROVE  W!Keep(a, Stored(e), Gone(a, i) \ {a})
<1>0. motes' \in [Slots -> ComputedMotes] /\ OneSlotIn(motes')
  BY Mapping DEF IInv, TypeOK
<1>a. \A n \in Motes : \A j \in Slots : motes'[j].in_use /\ motes'[j].addr = n
        => WindowIn(motes')[n] = Stored(motes'[j]) /\ AgesIn(motes')[n] = motes'[j].age
  <2>1. \A mm \in [Slots -> ComputedMotes] : OneSlotIn(mm) =>
          \A n \in Motes : \A j \in Slots : mm[j].in_use /\ mm[j].addr = n
            => WindowIn(mm)[n] = Stored(mm[j]) /\ AgesIn(mm)[n] = mm[j].age
    BY HeldIn
  <2> QED BY <2>1, <1>0, Zenon
<1>1. motes'[i] = e /\ \A j \in Slots \ {i} : motes'[j] = Swept(a, i)[j]
  BY DEF Swept
<1>2. \A j \in Slots \ {i} :
        /\ Stored(motes'[j]) = Stored(motes[j])
        /\ motes'[j].age = motes[j].age /\ motes'[j].addr = motes[j].addr
        /\ motes'[j].in_use <=> motes[j].in_use /\ ~(TimedOut(j) /\ (ScansAll(a) \/ j <= i))
  BY <1>1, SweptSlot DEF IInv
<1>3. /\ Swept(a, i)[i].in_use => Has(a, i)
      /\ \A m \in Motes : Has(m, i) /\ ~Swept(a, i)[i].in_use => m \in Gone(a, i)
  BY FoundSlot
<1>4. \A n \in Motes : \A j, h \in Slots : Has(n, j) /\ motes[h].addr = n => h = j
  BY ComputationAssumption DEF IInv, OneSlotPerMote, Has
<1>5. WindowIn(motes')[a] = Stored(e) /\ AgesIn(motes')[a] = 0
  <2>1. motes'[i].in_use /\ motes'[i].addr = a /\ motes'[i].age = 0
    BY <1>1
  <2>2. WindowIn(motes')[a] = Stored(motes'[i]) /\ AgesIn(motes')[a] = motes'[i].age
    BY <1>a, <2>1
  <2> QED BY <1>1, <2>1, <2>2
<1>6. ASSUME NEW n \in Motes, n # a, n \in Gone(a, i)
      PROVE  WindowIn(motes')[n] = << >> /\ AgesIn(motes')[n] = 0
  <2>1. PICK h \in Slots : Has(n, h) /\ TimedOut(h) /\ (ScansAll(a) \/ h <= i)
    BY <1>6 DEF Gone
  <2>2. \A j \in Slots : ~(motes'[j].in_use /\ motes'[j].addr = n)
    <3>1. \A j \in Slots \ {i} : motes'[j].addr = n => j = h
      BY <1>2, <1>4, <2>1
    <3>2. motes'[i].addr # n
      BY <1>1, <1>6
    <3> QED BY <3>1, <3>2, <2>1, <1>2
  <2> QED BY <2>2, NotHeldIn
<1>7. ASSUME NEW n \in Motes, n # a, n \notin Gone(a, i)
      PROVE  WindowIn(motes')[n] = Window[n] /\ AgesIn(motes')[n] = Ages[n]
  <2>1. CASE \E j \in Slots : Has(n, j)
    <3>1. PICK j \in Slots : Has(n, j)
      BY <2>1
    <3>2. j # i
      BY <3>1, <1>3, <1>7 DEF Has
    <3>3. motes'[j].in_use /\ motes'[j].addr = n
      BY <3>1, <3>2, <1>2, <1>7 DEF Has, Gone
    <3>4. WindowIn(motes')[n] = Stored(motes'[j]) /\ AgesIn(motes')[n] = motes'[j].age
      BY <3>3, <1>a
    <3>5. Window[n] = Stored(motes[j]) /\ Ages[n] = motes[j].age
      BY <3>1, Mapped
    <3> QED BY <3>2, <3>4, <3>5, <1>2
  <2>2. CASE \A j \in Slots : ~Has(n, j)
    <3>1. \A j \in Slots : ~(motes'[j].in_use /\ motes'[j].addr = n)
      BY <2>2, <1>1, <1>2, <1>7 DEF Has
    <3>2. WindowIn(motes')[n] = << >> /\ AgesIn(motes')[n] = 0
      BY <3>1, NotHeldIn
    <3> QED BY <3>2, <2>2, Mapped
  <2> QED BY <2>1, <2>2
<1>8. WindowIn(motes') = [n \in Motes |-> IF n = a THEN Stored(e)
                             ELSE IF n \in Gone(a, i) \ {a} THEN << >> ELSE Window[n]]
  <2>1. WindowIn(motes') = [n \in Motes |-> WindowIn(motes')[n]]
    BY DEF WindowIn
  <2> QED BY <2>1, <1>5, <1>6, <1>7
<1>9. AgesIn(motes') = [n \in Motes |-> IF n \in (Gone(a, i) \ {a}) \cup {a} THEN 0 ELSE Ages[n]]
  <2>1. AgesIn(motes') = [n \in Motes |-> AgesIn(motes')[n]]
    BY DEF AgesIn
  <2> QED BY <2>1, <1>5, <1>6, <1>7
<1> QED BY <1>8, <1>9, Mapping DEF W!Keep

LEMMA SameCardinality == \A S : W!Cardinality(S) = Cardinality(S)
BY DEF W!Cardinality, Cardinality

LEMMA SlotsFinite ==
  IsFiniteSet(Slots) /\ Cardinality(Slots) = MAX_NB_COMPUTED
<1>1. 0 \in Int /\ MAX_NB_COMPUTED - 1 \in Int
  BY ComputationAssumption
<1>2. IsFiniteSet(Slots) /\ Cardinality(Slots)
        = IF 0 > MAX_NB_COMPUTED - 1 THEN 0 ELSE MAX_NB_COMPUTED - 1 - 0 + 1
  BY <1>1, FS_Interval DEF Slots
<1> QED BY <1>2, ComputationAssumption

(* A set of motes that hold slots of J has no more elements than J. *)
LEMMA NoMoreThanSlots ==
  ASSUME NEW R, NEW J \in SUBSET Slots, \A m \in R : \E j \in J : motes[j].addr = m
  PROVE  /\ IsFiniteSet(R) /\ IsFiniteSet(J)
         /\ Cardinality(R) \in Nat /\ Cardinality(J) \in Nat
         /\ Cardinality(R) <= Cardinality(J)
<1> DEFINE K == {j \in J : motes[j].addr \in R}
           f == [j \in K |-> motes[j].addr]
<1>1. IsFiniteSet(J) /\ IsFiniteSet(K) /\ Cardinality(K) <= Cardinality(J)
  <2>1. IsFiniteSet(J)
    BY SlotsFinite, FS_Subset
  <2> QED BY <2>1, K \subseteq J, FS_Subset
<1>2. f \in Surjection(K, R)
  <2>1. f \in [K -> R]
    OBVIOUS
  <2>2. \A m \in R : \E j \in K : f[j] = m
    OBVIOUS
  <2> QED BY <2>1, <2>2 DEF Surjection
<1>3. IsFiniteSet(R) /\ Cardinality(R) <= Cardinality(K)
  BY <1>1, <1>2, FS_Surjection
<1>4. Cardinality(R) \in Nat /\ Cardinality(J) \in Nat /\ Cardinality(K) \in Nat
  BY <1>1, <1>3, FS_CardinalityType
<1> QED BY <1>1, <1>3, <1>4

-----------------------------------------------------------------------------
LEMMA TickMapped ==
  ASSUME IInv, IInv', Tick
  PROVE  W!Tick
<1>1. \A i \in Slots :
        /\ motes'[i].in_use = motes[i].in_use /\ motes'[i].addr = motes[i].addr
        /\ Stored(motes'[i]) = Stored(motes[i])
        /\ motes'[i].age = IF TimedOut(i) THEN motes[i].age ELSE motes[i].age + 1
  <2> SUFFICES ASSUME NEW i \in Slots
               PROVE  /\ motes'[i].in_use = motes[i].in_use /\ motes'[i].addr = motes[i].addr
                      /\ Stored(motes'[i]) = Stored(motes[i])
                      /\ motes'[i].age = IF TimedOut(i) THEN motes[i].age ELSE motes[i].age + 1
    OBVIOUS
  <2>1. motes[i] \in ComputedMotes
    BY DEF IInv, TypeOK
  <2>2. motes'[i] = [motes[i] EXCEPT !.age = IF @ > TIMEOUT_DATA THEN @ ELSE @ + 1]
    BY DEF Tick
  <2>3. /\ motes'[i].in_use = motes[i].in_use /\ motes'[i].addr = motes[i].addr
        /\ motes'[i].first_value_index = motes[i].first_value_index
        /\ motes'[i].first_free_value_index = motes[i].first_free_value_index
        /\ motes'[i].values = motes[i].values
        /\ motes'[i].age = IF motes[i].age > TIMEOUT_DATA THEN motes[i].age ELSE motes[i].age + 1
    BY <2>1, <2>2 DEF ComputedMotes
  <2> QED BY <2>3 DEF TimedOut, Stored, NbValues, CountValues
<1>2. motes' \in [Slots -> ComputedMotes] /\ OneSlotIn(motes')
  BY Mapping DEF IInv, TypeOK
<1>3. ASSUME NEW m \in Motes
      PROVE  /\ WindowIn(motes')[m] = Window[m]
             /\ AgesIn(motes')[m] = IF m \in W!Held \ W!Silent THEN Ages[m] + 1 ELSE Ages[m]
  <2>1. CASE \E i \in Slots : Has(m, i)
    <3>1. PICK i \in Slots : Has(m, i)
      BY <2>1
    <3>2. WindowIn(motes')[m] = Stored(motes'[i]) /\ AgesIn(motes')[m] = motes'[i].age
      BY <3>1, <1>1, <1>2, HeldIn DEF Has
    <3>3. Window[m] = Stored(motes[i]) /\ Ages[m] = motes[i].age
      BY <3>1, Mapped
    <3>4. m \in W!Held \ W!Silent <=> ~TimedOut(i)
      <4>1. \A j \in Slots : Has(m, j) => j = i
        BY <3>1, ComputationAssumption DEF IInv, OneSlotPerMote, Has
      <4> QED BY <4>1, <3>1, Mapped
    <3> QED BY <3>2, <3>3, <3>4, <1>1
  <2>2. CASE \A i \in Slots : ~Has(m, i)
    <3>1. WindowIn(motes')[m] = << >> /\ AgesIn(motes')[m] = 0
      BY <2>2, <1>1, NotHeldIn DEF Has
    <3> QED BY <3>1, <2>2, Mapped
  <2> QED BY <2>1, <2>2
<1>4. WindowIn(motes') = Window
  <2>1. /\ WindowIn(motes') = [m \in Motes |-> WindowIn(motes')[m]]
        /\ Window = [m \in Motes |-> Window[m]]
    BY DEF WindowIn, Window
  <2> QED BY <2>1, <1>3
<1>5. AgesIn(motes') = [m \in Motes |-> IF m \in W!Held \ W!Silent THEN Ages[m] + 1 ELSE Ages[m]]
  <2>1. AgesIn(motes') = [m \in Motes |-> AgesIn(motes')[m]]
    BY DEF AgesIn
  <2> QED BY <2>1, <1>3
<1> QED BY <1>4, <1>5, Mapping DEF W!Tick, Tick

(* All slots are in use, and by motes that have not timed out. *)
LEMMA CannotAddMapped ==
  ASSUME IInv, NEW a \in Motes, NEW v \in Values, CannotAdd(a, v)
  PROVE  W!Refuse(a)
<1>1. /\ \A i \in Slots : motes[i].in_use /\ ~TimedOut(i) /\ motes[i].addr # a
      /\ ret' = "CANNOT_ADD_MOTE"
  BY DEF CannotAdd, BufferFull, Unused, ScansAll, Returns
<1>2. motes' = motes
  BY <1>1 DEF CannotAdd, Swept, IInv, TypeOK
<1>3. a \notin W!Held /\ Window[a] = << >> /\ Ages[a] = 0
  BY <1>1, Mapped DEF Has
<1>4. W!Silent = {}
  <2>1. W!Silent \subseteq Motes
    BY DEF W!Silent, W!Held
  <2> QED BY <2>1, <1>1, Mapped
<1>5. Window' = Window /\ Ages' = Ages
  BY <1>2, Mapping
<1>6. W!Keep(a, << >>, W!Silent)
  <2>1. /\ Window = [n \in Motes |-> Window[n]]
        /\ Ages = [n \in Motes |-> Ages[n]]
    BY DEF Window, Ages
  <2> QED BY <2>1, <1>3, <1>4, <1>5 DEF W!Keep
<1>7. Cardinality(W!Held \ W!Silent) >= MAX_NB_COMPUTED
  <2> DEFINE R == W!Held \ W!Silent
             f == [i \in Slots |-> motes[i].addr]
  <2>1. \A m \in R : \E i \in Slots : motes[i].addr = m
    BY Mapped DEF Has, W!Held
  <2>2. IsFiniteSet(R)
    BY <2>1, NoMoreThanSlots
  <2>3. \A i \in Slots : motes[i].addr \in R
    <3>1. \A i \in Slots : motes[i].addr \in Motes
      BY <1>1 DEF IInv, UsedByMotes
    <3> QED BY <3>1, <1>1, <1>4, Mapped DEF Has
  <2>4. f \in Injection(Slots, R)
    <3>1. f \in [Slots -> R]
      BY <2>3
    <3>2. \A i, j \in Slots : f[i] = f[j] => i = j
      <4>1. \A i \in Slots : motes[i].addr # NoAddr
        BY <1>1, ComputationAssumption DEF IInv, UsedByMotes
      <4> QED BY <4>1 DEF IInv, OneSlotPerMote
    <3> QED BY <3>1, <3>2 DEF Injection, IsInjective
  <2>5. Cardinality(Slots) <= Cardinality(R)
    BY <2>2, <2>4, FS_Injection
  <2> QED BY <2>2, <2>5, SlotsFinite, FS_CardinalityType, ComputationAssumption
<1> QED BY <1>1, <1>3, <1>6, <1>7, SameCardinality DEF W!Refuse, W!Keep

LEMMA SkipDuplicateMapped ==
  ASSUME IInv, IInv', NEW a \in Motes, NEW v \in Values, NEW i \in Slots, SkipDuplicate(a, v, i)
  PROVE  W!IgnoreDuplicate(a, v)
<1> DEFINE e == [Swept(a, i)[i] EXCEPT !.age = 0]
<1>1. /\ IndexFound(a, i) /\ Swept(a, i)[i].in_use
      /\ motes' = [Swept(a, i) EXCEPT ![i] = e] /\ ret' = "CLOSE_VALVE"
      /\ motes[i].age < RETRANSMISSION
      /\ motes[i].values[(motes[i].first_free_value_index + MAX_NB_VALUES - 1) % MAX_NB_VALUES] = v
  BY DEF SkipDuplicate, IsDuplicate
<1>2. /\ Swept(a, i)[i] \in ComputedMotes /\ Swept(a, i)[i].addr = motes[i].addr
      /\ Stored(Swept(a, i)[i]) = Stored(motes[i])
  BY SweptSlot DEF IInv
<1>3. Has(a, i) /\ ~TimedOut(i)
  BY <1>1, FoundSlot
<1>4. e \in ComputedMotes /\ e.in_use /\ e.addr = a /\ e.age = 0
  BY <1>1, <1>2, <1>3, ComputationAssumption DEF ComputedMotes, Has
<1>5. Stored(e) = Stored(motes[i])
  BY <1>2 DEF Stored, NbValues, CountValues, ComputedMotes
<1> HIDE DEF e
<1>6. PICK w, gone : w = Stored(motes[i]) /\ gone = Gone(a, i) \ {a}
  OBVIOUS
<1>7. W!Keep(a, w, gone)
  BY <1>1, <1>4, <1>5, <1>6, KeepMapped
<1>8. gone \in W!Forgettable(a)
  BY <1>6, GoneSilent DEF W!Forgettable
<1>9. Window[a] = w /\ Ages[a] = motes[i].age /\ a \in W!Held \ W!Silent
  <2>1. \A j \in Slots : Has(a, j) => j = i
    BY <1>3, ComputationAssumption DEF IInv, OneSlotPerMote, Has
  <2> QED BY <2>1, <1>3, <1>6, Mapped
<1>10. v = w[Len(w)]
  BY <1>1, <1>6, StoredValues DEF IInv, TypeOK
<1> QED BY <1>1, <1>7, <1>8, <1>9, <1>10 DEF W!IgnoreDuplicate, W!Keep

(* A value for a slot in use continues a window.  A value for another slot  *)
(* starts one, and there is room for it: the slot was vacant, or is taken   *)
(* from a silent mote. *)
LEMMA StoreMapped ==
  ASSUME IInv, IInv', NEW a \in Motes, NEW v \in Values, NEW i \in Slots, Store(a, v, i)
  PROVE  W!AppendValue(a, v) \/ W!StartWindow(a, v)
<1>0. PICK was, e : was = Swept(a, i)[i] /\ e = Filled(was, a, v)
  OBVIOUS
<1>1. /\ IndexFound(a, i)
      /\ motes' = [Swept(a, i) EXCEPT ![i] = e]
      /\ (ret' = "OPEN_VALVE" /\ EnoughValues(was, e)) \/ ret' = "CLOSE_VALVE"
  BY <1>0 DEF Store, Decision
<1>2. was \in ComputedMotes /\ was.addr = motes[i].addr /\ Stored(was) = Stored(motes[i])
  BY <1>0, SweptSlot DEF IInv
<1>3. /\ was.in_use => Has(a, i) /\ ~TimedOut(i)
      /\ ~was.in_use => \A j \in Slots : Has(a, j) => TimedOut(j)
      /\ \A j \in Slots \ {i} : motes[j].addr # a
      /\ \A m \in Motes : Has(m, i) /\ ~was.in_use => m \in Gone(a, i)
  BY <1>0, <1>1, FoundSlot
<1>4. e \in ComputedMotes /\ e.addr = a
  BY <1>0, <1>2, <1>3, FilledType DEF Has
<1>5. e.in_use /\ e.age = 0
  <2>1. MakeRoom(was) \in [addr : Motes \cup {NoAddr}, age : 0 .. TIMEOUT_DATA + 1,
          in_use : {was.in_use}, values : [Indices -> Values \cup {0}],
          first_value_index : Indices, first_free_value_index : Indices]
    BY <1>2, NextIndex DEF MakeRoom, ComputedMotes
  <2>2. CASE was.in_use
    BY <2>1, <2>2, <1>0 DEF Filled, AddValue
  <2>3. CASE ~was.in_use
    BY <2>3, <1>0, <1>2 DEF Filled, AddValue, NewMote, ComputedMotes
  <2> QED BY <2>2, <2>3
<1>6. PICK w, gone : w = Stored(e) /\ gone = Gone(a, i) \ {a}
  OBVIOUS
<1>7. W!Keep(a, w, gone) /\ gone \in W!Forgettable(a)
  <2>1. W!Keep(a, w, gone)
    BY <1>1, <1>4, <1>5, <1>6, KeepMapped
  <2>2. gone \in W!Forgettable(a)
    BY <1>6, GoneSilent DEF W!Forgettable
  <2> QED BY <2>1, <2>2
<1>8. CASE was.in_use
  <2>1. e = AddValue(MakeRoom(was), v)
    BY <1>0, <1>8 DEF Filled
  <2>2. w = W!Latest(Append(Stored(was), v))
    BY <2>1, <1>2, <1>6, StoredAdded
  <2>3. Window[a] = Stored(was) /\ a \in W!Continued
    BY <1>2, <1>3, <1>8, Mapped
  <2>4. NbValues(was) = MAX_NB_VALUES => NbValues(e) = MAX_NB_VALUES
    <3>1. /\ Stored(was) \in Seq(Values \cup {0}) /\ Len(Stored(was)) = NbValues(was)
          /\ NbValues(was) \in 1 .. MAX_NB_VALUES /\ Len(Stored(e)) = NbValues(e)
      BY <1>2, <1>4, StoredValues
    <3>2. Len(Append(Stored(was), v)) = NbValues(was) + 1
      BY <3>1
    <3> QED BY <3>1, <3>2, <2>2, <1>6, ComputationAssumption DEF W!Latest
  <2>5. W!Decide(w)
    <3>1. EnoughValues(was, e) => Len(w) >= MIN_NB_VALUES_COMPUTE
      BY <1>2, <1>4, <1>6, <2>4, DecisionEnough
    <3> QED BY <3>1, <1>1 DEF W!Decide
  <2>6. W!AppendValue(a, v)
    BY <2>2, <2>3, <2>5, <1>7 DEF W!AppendValue, W!Decide, W!Keep
  <2> QED BY <2>6
<1>9. CASE ~was.in_use
  <2>1. w = <<v>>
    BY <1>0, <1>2, <1>6, <1>9, StoredFirst DEF Filled
  <2>2. a \notin W!Continued
    BY <1>3, <1>9, Mapped
  <2>3. W!Decide(w)
    <3>1. EnoughValues(was, e) => Len(w) >= MIN_NB_VALUES_COMPUTE
      BY <1>2, <1>4, <1>6, <1>9, DecisionEnough
    <3> QED BY <3>1, <1>1 DEF W!Decide
  <2>4. Cardinality((W!Held \ {a}) \ gone) < MAX_NB_COMPUTED
    <3> DEFINE R == (W!Held \ {a}) \ gone
    <3>1. \A m \in R : \E j \in Slots \ {i} : motes[j].addr = m
      <4> SUFFICES ASSUME NEW m \in R PROVE \E j \in Slots \ {i} : motes[j].addr = m
        OBVIOUS
      <4>1. m \in Motes /\ m \in W!Held /\ m \notin Gone(a, i)
        BY <1>6 DEF W!Held
      <4>2. PICK j \in Slots : Has(m, j)
        BY <4>1, Mapped
      <4>3. j # i
        BY <4>1, <4>2, <1>3, <1>9
      <4> QED BY <4>2, <4>3 DEF Has
    <3>2. Slots \ {i} \in SUBSET Slots
      OBVIOUS
    <3>3. /\ Cardinality(R) \in Nat /\ Cardinality(Slots \ {i}) \in Nat
          /\ Cardinality(R) <= Cardinality(Slots \ {i})
      BY <3>1, <3>2, NoMoreThanSlots
    <3>4. Cardinality(Slots \ {i}) = MAX_NB_COMPUTED - 1
      BY SlotsFinite, FS_RemoveElement
    <3> QED BY <3>3, <3>4, ComputationAssumption
  <2>5. W!StartWindow(a, v)
    BY <2>1, <2>2, <2>3, <2>4, <1>7, SameCardinality DEF W!StartWindow
  <2> QED BY <2>5
<1> QED BY <1>8, <1>9

-----------------------------------------------------------------------------
LEMMA UsedStep == IInv /\ [Next]_vars => UsedByMotes'
<1> SUFFICES ASSUME IInv, [Next]_vars PROVE UsedByMotes'
  OBVIOUS
<1>0. TypeOK /\ UsedByMotes
  BY DEF IInv
<1>1. CASE Tick
  BY <1>0, <1>1 DEF Tick, TypeOK, UsedByMotes, ComputedMotes
<1>2. \A a, found : \A i \in Slots :
        /\ Swept(a, found)[i].in_use => motes[i].addr \in Motes
        /\ Swept(a, found)[i].addr = motes[i].addr
  BY <1>0, SweptSlot DEF UsedByMotes
<1>3. ASSUME NEW a \in Motes, NEW v \in Values, CannotAdd(a, v) PROVE UsedByMotes'
  BY <1>2, <1>3 DEF CannotAdd, UsedByMotes
<1>4. ASSUME NEW a \in Motes, NEW v \in Values, NEW i \in Slots, SkipDuplicate(a, v, i)
      PROVE  UsedByMotes'
  <2>1. Swept(a, i)[i] \in ComputedMotes
    BY <1>0, SweptSlot
  <2>2. [Swept(a, i)[i] EXCEPT !.age = 0].addr = motes[i].addr
    BY <2>1, <1>2 DEF ComputedMotes
  <2>3. Swept(a, i)[i].in_use
    BY <1>4 DEF SkipDuplicate
  <2> QED BY <2>2, <2>3, <1>2, <1>4 DEF SkipDuplicate, UsedByMotes, Swept
<1>5. ASSUME NEW a \in Motes, NEW v \in Values, NEW i \in Slots, Store(a, v, i)
      PROVE  UsedByMotes'
  <2>1. Swept(a, i)[i] \in ComputedMotes
    BY <1>0, SweptSlot
  <2>2. Filled(Swept(a, i)[i], a, v).addr \in Motes
    BY <2>1, <1>2, FilledType
  <2> QED BY <2>2, <1>2, <1>5 DEF Store, UsedByMotes, Swept
<1>6. CASE UNCHANGED vars
  BY <1>0, <1>6 DEF vars, UsedByMotes
<1> QED BY <1>1, <1>3, <1>4, <1>5, <1>6 DEF Next, Data

LEMMA Invariant == Spec => []IInv
<1>1. Init => IInv
  <2>1. Init => OneSlotPerMote /\ UsedByMotes
    BY DEF Init, OneSlotPerMote, UsedByMotes
  <2> QED BY <2>1, TypeInit DEF IInv
<1>2. IInv /\ [Next]_vars => IInv'
  BY TypeStep, OneSlotStep, UsedStep DEF IInv
<1> QED BY <1>1, <1>2, PTL DEF Spec

(* For any motes, slots and buffer sizes a computation mote keeps the       *)
(* latest values of each mote and forgets only silent ones, refuses a mote  *)
(* only when all slots hold others, and opens a valve only on enough values *)
(* (computation.c:16-42, 74-117). *)
THEOREM Implements == Spec => ImplementsWindows
<1>1. Init => W!Init
  <2> SUFFICES ASSUME Init PROVE W!Init
    OBVIOUS
  <2>1. \A m \in Motes : Holding(m) = {}
    BY DEF Init, Holding
  <2> QED BY <2>1 DEF W!Init, Init, Window, Ages
<1>2. IInv /\ IInv' /\ [Next]_vars => [W!Next]_<<Window, Ages, ret>>
  <2> SUFFICES ASSUME IInv, IInv', [Next]_vars PROVE [W!Next]_<<Window, Ages, ret>>
    OBVIOUS
  <2>1. CASE Tick
    BY <2>1, TickMapped DEF W!Next
  <2>2. ASSUME NEW a \in Motes, NEW v \in Values, CannotAdd(a, v) PROVE W!Next
    BY <2>2, CannotAddMapped DEF W!Next
  <2>3. ASSUME NEW a \in Motes, NEW v \in Values, NEW i \in Slots, SkipDuplicate(a, v, i)
        PROVE  W!Next
    BY <2>3, SkipDuplicateMapped DEF W!Next
  <2>4. ASSUME NEW a \in Motes, NEW v \in Values, NEW i \in Slots, Store(a, v, i)
        PROVE  W!Next
    BY <2>4, StoreMapped DEF W!Next
  <2>5. CASE UNCHANGED vars
    BY <2>5, Mapping DEF vars
  <2> QED BY <2>1, <2>2, <2>3, <2>4, <2>5 DEF Next, Data
<1> QED BY <1>1, <1>2, Invariant, PTL DEF Spec, ImplementsWindows, W!Spec

-----------------------------------------------------------------------------
(* The slope that slope_value computes of n values: twice its numerator and *)
(* four times its denominator, which is zero for one and for four values.   *)
LEMMA FractionOf ==
  ASSUME NEW w \in Seq(Values \cup {0}), Len(w) > 0
  PROVE  LET n == Len(w) IN
         /\ Fraction(w).num \in Int /\ Fraction(w).den \in Int
         /\ 4 * Fraction(w).den = (n * (n - 1)) * ((n - 1) * (n - 4))
         /\ \E d \in Int : /\ -1000 <= d /\ d <= 500 * n
                          /\ 2 * Fraction(w).num = (n * (n - 1)) * d
<1>1. PICK n \in Nat : n = Len(w) /\ n > 0
  OBVIOUS
<1>2. w \in [1 .. n -> 0 .. 500] /\ w[n] \in 0 .. 500
  <2>1. Values \cup {0} \subseteq 0 .. 500
    BY ComputationAssumption
  <2>2. w \in [1 .. n -> Values \cup {0}]
    BY <1>1
  <2>3. \A j \in 1 .. n : w[j] \in 0 .. 500
    BY <2>1, <2>2
  <2>4. n \in 1 .. n /\ w = [j \in 1 .. n |-> w[j]]
    BY <1>1, <2>2
  <2> QED BY <2>3, <2>4
<1>3. PICK y \in Int : y = w[n] /\ 0 <= y /\ y <= 500
  BY <1>2
<1>4. PICK sum_x \in Int : /\ sum_x = SumFunction([j \in 1 .. n |-> j - 1])
                           /\ 2 * sum_x = n * (n - 1)
  BY TotalIndices
<1>5. PICK sum_y \in Int : sum_y = SumFunction(w) /\ 0 <= sum_y /\ sum_y <= 500 * n
  <2>1. /\ Total(w, n) \in Int /\ 0 <= Total(w, n) /\ Total(w, n) <= 500 * n
    <3>1. 500 \in Nat
      OBVIOUS
    <3> QED BY <3>1, <1>2, TotalBounds
  <2>2. Total(w, n) = SumFunction(w)
    <3>1. w = [j \in 1 .. n |-> w[j]]
      BY <1>2
    <3> QED BY <3>1 DEF Total
  <2> QED BY <2>1, <2>2
<1>6. Fraction(w) = Regression(n, sum_x, sum_y, (n - 1) * y, (n - 1) * (n - 1))
  BY <1>1, <1>3, <1>4, <1>5 DEF Fraction
<1>7. /\ Fraction(w).num = sum_x * sum_y - n * ((n - 1) * y)
      /\ Fraction(w).den = sum_x * sum_x - n * ((n - 1) * (n - 1))
  BY <1>6 DEF Regression
<1>8. PICK num \in Int : num = sum_x * sum_y - n * ((n - 1) * y)
  OBVIOUS
<1>9. PICK den \in Int : den = sum_x * sum_x - n * ((n - 1) * (n - 1))
  OBVIOUS
<1>10. 4 * den = (n * (n - 1)) * ((n - 1) * (n - 4))
  <2>1. 4 * (sum_x * sum_x) = (n * (n - 1)) * (n * (n - 1))
    <3>1. 4 * (sum_x * sum_x) = (2 * sum_x) * (2 * sum_x)
      OBVIOUS
    <3> QED BY <3>1, <1>4
  <2>2. (n * (n - 1)) * (n * (n - 1)) - 4 * (n * ((n - 1) * (n - 1))) =
          (n * (n - 1)) * ((n - 1) * (n - 4))
    OBVIOUS
  <2>3. 4 * den = 4 * (sum_x * sum_x) - 4 * (n * ((n - 1) * (n - 1)))
    BY <1>9
  <2> QED BY <2>1, <2>2, <2>3
<1>11. PICK d \in Int : d = sum_y - 2 * y /\ -1000 <= d /\ d <= 500 * n
  BY <1>3, <1>5
<1>12. 2 * num = (n * (n - 1)) * d
  <2>1. 2 * num = (2 * sum_x) * sum_y - 2 * (n * ((n - 1) * y))
    BY <1>8
  <2>2. 2 * num = (n * (n - 1)) * sum_y - 2 * (n * ((n - 1) * y))
    BY <2>1, <1>4
  <2>3. (n * (n - 1)) * sum_y - 2 * (n * ((n - 1) * y)) = (n * (n - 1)) * (sum_y - 2 * y)
    OBVIOUS
  <2> QED BY <2>2, <2>3, <1>11
<1>13. Fraction(w).num = num /\ Fraction(w).den = den
  BY <1>7, <1>8, <1>9
<1>14. /\ Fraction(w).num \in Int /\ Fraction(w).den \in Int
       /\ 4 * Fraction(w).den = (n * (n - 1)) * ((n - 1) * (n - 4))
       /\ -1000 <= d /\ d <= 500 * n
       /\ 2 * Fraction(w).num = (n * (n - 1)) * d
  BY <1>10, <1>11, <1>12, <1>13
<1> QED BY <1>1, <1>11, <1>14, Zenon

(* Of eight values or more the slope fits in an int, its hundredfold too.   *)
LEMMA EightFit ==
  ASSUME NEW w \in Seq(Values \cup {0}), Len(w) >= 8
  PROVE  SlopeFits(w)
<1>0. /\ Fraction(w).num \in Int /\ Fraction(w).den \in Int
      /\ 4 * Fraction(w).den = (Len(w) * (Len(w) - 1)) * ((Len(w) - 1) * (Len(w) - 4))
      /\ \E d \in Int : /\ -1000 <= d /\ d <= 500 * Len(w)
                       /\ 2 * Fraction(w).num = (Len(w) * (Len(w) - 1)) * d
  BY FractionOf
<1>a. PICK n \in Nat : n = Len(w) /\ n >= 8
  OBVIOUS
<1>b. PICK d \in Int : /\ -1000 <= d /\ d <= 500 * n
                       /\ 2 * Fraction(w).num = (n * (n - 1)) * d
  BY <1>0, <1>a
<1>c. PICK num \in Int, den \in Int : num = Fraction(w).num /\ den = Fraction(w).den
  BY <1>0
<1>1. 2 * num = (n * (n - 1)) * d /\ 4 * den = (n * (n - 1)) * ((n - 1) * (n - 4))
  BY <1>0, <1>a, <1>b, <1>c
<1>2. PICK m \in Int : m = n * (n - 1) /\ m > 0
  <2>1. PICK l \in Nat : l = n - 1 /\ l > 0
    BY <1>a
  <2>2. 8 * l <= n * l
    BY <1>a, 8 \in Int, n \in Int, MultiplyMonotone
  <2> QED BY <2>1, <2>2
<1>3. PICK r \in Int : r = (n - 1) * (n - 4) /\ r >= 28 /\ 100000 * n < 32768 * r
  <2>1. CASE n = 8
    BY <2>1
  <2>2. CASE n # 8
    <3>1. 9 * n <= n * n
      BY <1>a, <2>2, 9 \in Int, n \in Int, MultiplyMonotone
    <3>2. (n - 1) * (n - 4) = n * n - 5 * n + 4
      OBVIOUS
    <3>3. PICK r \in Int : r = (n - 1) * (n - 4)
      OBVIOUS
    <3>4. r >= 4 * n + 4
      BY <3>1, <3>2, <3>3
    <3> QED BY <1>a, <2>2, <3>3, <3>4
  <2> QED BY <2>1, <2>2
<1>4. 4 * den = m * r /\ 2 * num = m * d
  BY <1>1, <1>2, <1>3
<1>5. den > 0
  <2>1. m * r > 0
    BY <1>2, <1>3
  <2> QED BY <2>1, <1>4
<1>6. 4 * (100 * num) = m * (200 * d)
  BY <1>4
<1>7. 100 * num < 32768 * den
  <2>1. 200 * d < 32768 * r
    BY <1>a, <1>b, <1>3
  <2>2. m * (200 * d) < m * (32768 * r)
    BY <2>1, <1>2
  <2>3. m * (32768 * r) = 32768 * (m * r)
    OBVIOUS
  <2> QED BY <1>4, <1>6, <2>2, <2>3
<1>8. 100 * num > (-32769) * den
  <2>1. 200 * d > (-32769) * r
    BY <1>a, <1>b, <1>3
  <2>2. m * (200 * d) > m * ((-32769) * r)
    BY <2>1, <1>2
  <2>3. m * ((-32769) * r) = (-32769) * (m * r)
    OBVIOUS
  <2> QED BY <1>4, <1>6, <2>2, <2>3
<1>9. PICK p \in Int, lo \in Int, hi \in Int : p = 100 * num /\ lo = -32768 /\ hi = 32768
  OBVIOUS
<1>d. den \in Int \ {0}
  BY <1>5
<1>10. Quotient(p, den) \in Int /\ (Quotient(p, den) >= hi <=> CutAtLeast([num |-> p, den |-> den], hi))
  BY <1>d, QuotientCuts
<1>11. Quotient(p, den) >= lo <=> CutAtLeast([num |-> p, den |-> den], lo)
  BY <1>d, QuotientCuts
<1>12. ~CutAtLeast([num |-> p, den |-> den], hi)
  <2>1. hi > 0
    BY <1>9
  <2>2. CutAtLeast([num |-> p, den |-> den], hi) <=> p >= hi * den
    BY <1>5, <2>1 DEF CutAtLeast, AtLeast
  <2> QED BY <1>7, <1>9, <2>2
<1>13. CutAtLeast([num |-> p, den |-> den], lo)
  <2>1. ~(lo > 0) /\ lo - 1 = -32769
    BY <1>9
  <2>2. CutAtLeast([num |-> p, den |-> den], lo) <=> p > (lo - 1) * den
    BY <1>5, <2>1 DEF CutAtLeast, Above
  <2> QED BY <1>8, <1>9, <2>1, <2>2
<1>14. -32768 <= Quotient(p, den) /\ Quotient(p, den) <= 32767
  <2>1. PICK h \in Int : h = Quotient(p, den)
    BY <1>10
  <2>2. ~(h >= hi)
    BY <1>10, <1>12, <2>1
  <2>3. h >= lo
    BY <1>11, <1>13, <2>1
  <2>4. -32768 <= h /\ h <= 32767
    BY <1>9, <2>2, <2>3
  <2> QED BY <2>1, <2>4
<1>15. Quotient(100 * Fraction(w).num, Fraction(w).den) = Quotient(p, den)
  BY <1>c, <1>9
<1>16. Fraction(w).den # 0
  BY <1>c, <1>5
<1> QED BY <1>14, <1>15, <1>16 DEF SlopeFits

(* Cutting to hundredths first, then to the integer, is cutting once.       *)
LEMMA CutsOnce ==
  ASSUME NEW w, Fraction(w).num \in Int, Fraction(w).den \in Int \ {0}
  PROVE  /\ slope_value(w) \in Int
         /\ slope_value(w) >= SLOPE_THRESHOLD <=> CutAtLeast(Fraction(w), SLOPE_THRESHOLD)
<1>1. PICK n \in Int, d \in Int \ {0}, k \in Int :
        n = Fraction(w).num /\ d = Fraction(w).den /\ k = SLOPE_THRESHOLD
  BY ComputationAssumption
<1>2. PICK p \in Int : p = 100 * n
  OBVIOUS
<1>3. PICK h \in Int : h = Quotient(p, d)
  BY QuotientCuts, 0 \in Int
<1>4. slope_value(w) = Quotient(h, 100)
  BY <1>1, <1>2, <1>3 DEF slope_value
<1>5. /\ Quotient(h, 100) \in Int
      /\ Quotient(h, 100) >= k <=> CutAtLeast([num |-> h, den |-> 100], k)
  BY 100 \in Int \ {0}, QuotientCuts
<1>6. PICK l \in Int : l = IF k > 0 THEN 100 * k ELSE 100 * k - 99
  OBVIOUS
<1>7. CutAtLeast([num |-> h, den |-> 100], k) <=> h >= l
  BY <1>6 DEF CutAtLeast, AtLeast, Above
<1>8. h >= l <=> CutAtLeast([num |-> p, den |-> d], l)
  BY <1>3, QuotientCuts
<1>9. CutAtLeast([num |-> p, den |-> d], l) <=> CutAtLeast(Fraction(w), k)
  <2>1. CASE k > 0
    <3>1. l = 100 * k /\ l > 0
      BY <1>6, <2>1
    <3>2. CutAtLeast([num |-> p, den |-> d], l) <=> IF d > 0 THEN p >= l * d ELSE p <= l * d
      BY <3>1 DEF CutAtLeast, AtLeast
    <3>3. CutAtLeast(Fraction(w), k) <=> IF d > 0 THEN n >= k * d ELSE n <= k * d
      BY <1>1, <2>1 DEF CutAtLeast, AtLeast
    <3>4. l * d = 100 * (k * d)
      BY <3>1
    <3> QED BY <1>2, <3>2, <3>3, <3>4
  <2>2. CASE ~(k > 0)
    <3>1. l - 1 = 100 * (k - 1) /\ ~(l > 0)
      BY <1>6, <2>2
    <3>2. CutAtLeast([num |-> p, den |-> d], l) <=>
            IF d > 0 THEN p > (l - 1) * d ELSE p < (l - 1) * d
      BY <3>1 DEF CutAtLeast, Above
    <3>3. CutAtLeast(Fraction(w), k) <=> IF d > 0 THEN n > (k - 1) * d ELSE n < (k - 1) * d
      BY <1>1, <2>2 DEF CutAtLeast, Above
    <3>4. (l - 1) * d = 100 * ((k - 1) * d)
      BY <3>1
    <3> QED BY <1>2, <3>2, <3>3, <3>4
  <2> QED BY <2>1, <2>2
<1> QED BY <1>1, <1>4, <1>5, <1>7, <1>8, <1>9

-----------------------------------------------------------------------------
(* The first conjunct of Opens *)
Enough(a, w) ==
  IF Len(w) = MAX_NB_VALUES THEN Len(Window[a]) = MAX_NB_VALUES
                            ELSE Len(w) >= MIN_NB_VALUES_COMPUTE

(* The decision on the slot's new values w, which the code finds enough by  *)
(* the slot's indices before and after exactly when they are enough by the  *)
(* numbers of values. *)
LEMMA StoreDecides ==
  ASSUME IInv, NEW a \in Motes, NEW v \in Values, NEW i \in Slots, Store(a, v, i)
  PROVE  LET w == Stored(motes'[i]) IN
         /\ w \in Seq(Values \cup {0}) /\ Len(w) \in 1 .. MAX_NB_VALUES
         /\ Len(w) = 1 \/ MAX_NB_VALUES > 1
         /\ MAX_NB_VALUES > 1 =>
              \/ ret' = "OPEN_VALVE" /\ Enough(a, w) /\ MayOpen(w)
              \/ ret' = "CLOSE_VALVE" /\ (Enough(a, w) => MayClose(w))
<1>0. PICK was, e : was = Swept(a, i)[i] /\ e = Filled(was, a, v)
  OBVIOUS
<1>1. /\ IndexFound(a, i)
      /\ motes' = [Swept(a, i) EXCEPT ![i] = e]
      /\ \/ ret' = "OPEN_VALVE" /\ EnoughValues(was, e) /\ MayOpen(Stored(e))
         \/ ret' = "CLOSE_VALVE" /\ (EnoughValues(was, e) => MayClose(Stored(e)))
  BY <1>0 DEF Store, Decision
<1>2. was \in ComputedMotes /\ was.addr = motes[i].addr /\ Stored(was) = Stored(motes[i])
  BY <1>0, SweptSlot DEF IInv
<1>3. was.in_use => Has(a, i)
  BY <1>0, <1>1, FoundSlot
<1>4. e \in ComputedMotes
  BY <1>0, <1>2, <1>3, FilledType DEF Has
<1>5. motes'[i] = e
  BY <1>1 DEF Swept
<1>6. /\ NbValues(e) \in 1 .. MAX_NB_VALUES
      /\ CountValues(e) # 0 => CountValues(e) = NbValues(e)
      /\ Stored(e) \in Seq(Values \cup {0}) /\ Len(Stored(e)) = NbValues(e)
  BY <1>4, StoredValues
<1>7. CountValues(e) \in 0 .. MAX_NB_VALUES - 1
  <2>1. e.first_free_value_index \in Indices /\ e.first_value_index \in Indices
    BY <1>4 DEF ComputedMotes
  <2> QED BY <2>1, ComputationAssumption DEF CountValues, Indices
<1>8. CountValues(e) >= MIN_NB_VALUES_COMPUTE <=>
        NbValues(e) # MAX_NB_VALUES /\ NbValues(e) >= MIN_NB_VALUES_COMPUTE
  BY <1>6, <1>7, ComputationAssumption DEF NbValues
<1>9. ASSUME MAX_NB_VALUES > 1
      PROVE  EnoughValues(was, e) <=> Enough(a, Stored(e))
  <2>1. CASE was.in_use
    <3>1. Window[a] = Stored(was)
      BY <1>2, <1>3, <2>1, Mapped
    <3>2. /\ was.first_value_index = was.first_free_value_index <=> NbValues(was) = MAX_NB_VALUES
          /\ Stored(was) \in Seq(Values \cup {0}) /\ Len(Stored(was)) = NbValues(was)
          /\ NbValues(was) \in 1 .. MAX_NB_VALUES
      BY <1>2, StoredValues
    <3>3. Stored(e) = W!Latest(Append(Stored(was), v))
      BY <1>0, <1>2, <2>1, StoredAdded DEF Filled
    <3>4. Len(Append(Stored(was), v)) = NbValues(was) + 1
      BY <3>2
    <3>5. NbValues(was) = MAX_NB_VALUES => NbValues(e) = MAX_NB_VALUES
      BY <1>6, <3>2, <3>3, <3>4, ComputationAssumption DEF W!Latest
    <3>6. EnoughValues(was, e) <=>
            NbValues(was) = MAX_NB_VALUES \/ CountValues(e) >= MIN_NB_VALUES_COMPUTE
      BY <2>1, <3>2 DEF EnoughValues
    <3>7. Enough(a, Stored(e)) <=>
            IF NbValues(e) = MAX_NB_VALUES THEN NbValues(was) = MAX_NB_VALUES
                                           ELSE NbValues(e) >= MIN_NB_VALUES_COMPUTE
      BY <1>6, <3>1, <3>2 DEF Enough
    <3> QED BY <1>8, <3>5, <3>6, <3>7
  <2>2. CASE ~was.in_use
    <3>1. Stored(e) = <<v>>
      BY <1>0, <1>2, <2>2, StoredFirst DEF Filled
    <3>2. NbValues(e) = 1
      BY <3>1, <1>6
    <3>3. EnoughValues(was, e) <=> CountValues(e) >= MIN_NB_VALUES_COMPUTE
      BY <2>2 DEF EnoughValues
    <3>4. Enough(a, Stored(e)) <=> 1 >= MIN_NB_VALUES_COMPUTE
      BY <1>6, <1>9, <3>2 DEF Enough
    <3> QED BY <1>8, <1>9, <3>2, <3>3, <3>4
  <2> QED BY <2>1, <2>2
<1>10. Len(Stored(e)) = 1 \/ MAX_NB_VALUES > 1
  BY <1>6, ComputationAssumption
<1> QED BY <1>1, <1>5, <1>6, <1>9, <1>10

(* Where the slope fits, the decision is the one on the uncut slope. *)
LEMMA StoreExact ==
  ASSUME IInv, NEW a \in Motes, NEW v \in Values, NEW i \in Slots, Store(a, v, i),
         MAX_NB_VALUES > 1, Enough(a, Stored(motes'[i])) => SlopeFits(Stored(motes'[i]))
  PROVE  ret' = "OPEN_VALVE" <=> Opens(a, Stored(motes'[i]))
<1>1. PICK w : w = Stored(motes'[i])
  OBVIOUS
<1>2. /\ w \in Seq(Values \cup {0}) /\ Len(w) \in 1 .. MAX_NB_VALUES
      /\ \/ ret' = "OPEN_VALVE" /\ Enough(a, w) /\ MayOpen(w)
         \/ ret' = "CLOSE_VALVE" /\ (Enough(a, w) => MayClose(w))
  BY <1>1, StoreDecides
<1>3. Opens(a, w) <=> Enough(a, w) /\ CutAtLeast(Fraction(w), SLOPE_THRESHOLD)
  BY DEF Opens, Enough
<1>4. CASE ~Enough(a, w)
  BY <1>1, <1>2, <1>3, <1>4
<1>5. CASE Enough(a, w)
  <2>1. SlopeFits(w)
    BY <1>1, <1>5
  <2>2. Fraction(w).num \in Int /\ Fraction(w).den \in Int \ {0}
    <3>1. Fraction(w).num \in Int /\ Fraction(w).den \in Int
      BY <1>2, Len(w) > 0, FractionOf
    <3> QED BY <3>1, <2>1 DEF SlopeFits
  <2>3. /\ slope_value(w) \in Int
        /\ slope_value(w) >= SLOPE_THRESHOLD <=> CutAtLeast(Fraction(w), SLOPE_THRESHOLD)
    BY <2>2, CutsOnce
  <2>4. /\ MayOpen(w) <=> slope_value(w) >= SLOPE_THRESHOLD
        /\ MayClose(w) <=> ~(slope_value(w) >= SLOPE_THRESHOLD)
    BY <2>1, <2>3, ComputationAssumption DEF MayOpen, MayClose
  <2>5. CutAtLeast(Fraction(w), SLOPE_THRESHOLD) =>
          ret' = "OPEN_VALVE"
    BY <1>2, <1>5, <2>3, <2>4
  <2>6. ~CutAtLeast(Fraction(w), SLOPE_THRESHOLD) =>
          ret' = "CLOSE_VALVE"
    BY <1>2, <1>5, <2>3, <2>4
  <2> QED BY <1>1, <1>3, <1>5, <2>5, <2>6
<1> QED BY <1>4, <1>5

(* Where the slope fits in an int, a computation mote opens a valve exactly *)
(* on enough values whose slope reaches the threshold (computation.c:49-69, *)
(* 83-116). *)
THEOREM OpensExact == Spec => OpensExactly
<1>1. ASSUME IInv, [Next]_vars
      PROVE  [\A a \in Motes, v \in Values, i \in Slots :
                Store(a, v, i) /\ SlopeFits(Stored(motes'[i])) =>
                  (ret' = "OPEN_VALVE" <=> Opens(a, Stored(motes'[i])))]_vars
  <2> SUFFICES ASSUME NEW a \in Motes, NEW v \in Values, NEW i \in Slots,
                      Store(a, v, i), SlopeFits(Stored(motes'[i]))
               PROVE  ret' = "OPEN_VALVE" <=> Opens(a, Stored(motes'[i]))
    OBVIOUS
  <2>1. PICK w : w = Stored(motes'[i])
    OBVIOUS
  <2>2. w \in Seq(Values \cup {0}) /\ Len(w) > 0 /\ (Len(w) = 1 \/ MAX_NB_VALUES > 1)
    BY <1>1, <2>1, StoreDecides
  <2>3. Len(w) # 1
    <3>1. 4 * Fraction(w).den = (Len(w) * (Len(w) - 1)) * ((Len(w) - 1) * (Len(w) - 4))
          /\ Fraction(w).den \in Int
      BY <2>2, FractionOf
    <3>2. Fraction(w).den # 0
      BY <2>1 DEF SlopeFits
    <3>3. Len(w) = 1 => 4 * Fraction(w).den = 0
      BY <3>1
    <3> QED BY <3>1, <3>2, <3>3
  <2> QED BY <1>1, <2>1, <2>2, <2>3, StoreExact
<1> QED BY <1>1, Invariant, PTL DEF Spec, OpensExactly

(* If eight values or more are asked for, as the ten of the code are, the   *)
(* slope always fits: no division by zero and no conversion that overflows  *)
(* ever decides over a valve (computation.h:16, computation.c:67-68).       *)
THEOREM EightDecide ==
  MIN_NB_VALUES_COMPUTE >= 8 =>
    (Spec => [][\A a \in Motes, v \in Values, i \in Slots :
                  Store(a, v, i) =>
                    (ret' = "OPEN_VALVE" <=> Opens(a, Stored(motes'[i])))]_vars)
<1> SUFFICES ASSUME MIN_NB_VALUES_COMPUTE >= 8
             PROVE  Spec => [][\A a \in Motes, v \in Values, i \in Slots :
                                 Store(a, v, i) =>
                                   (ret' = "OPEN_VALVE" <=> Opens(a, Stored(motes'[i])))]_vars
  OBVIOUS
<1>0. MAX_NB_VALUES > 1 /\ MAX_NB_VALUES >= 8
  BY ComputationAssumption
<1>1. ASSUME IInv, [Next]_vars
      PROVE  [\A a \in Motes, v \in Values, i \in Slots :
                Store(a, v, i) =>
                  (ret' = "OPEN_VALVE" <=> Opens(a, Stored(motes'[i])))]_vars
  <2> SUFFICES ASSUME NEW a \in Motes, NEW v \in Values, NEW i \in Slots, Store(a, v, i)
               PROVE  ret' = "OPEN_VALVE" <=> Opens(a, Stored(motes'[i]))
    OBVIOUS
  <2>1. PICK w : w = Stored(motes'[i])
    OBVIOUS
  <2>2. w \in Seq(Values \cup {0}) /\ Len(w) \in Nat
    BY <1>1, <2>1, StoreDecides
  <2>3. Enough(a, w) => Len(w) >= 8
    BY <1>0, <2>2, ComputationAssumption DEF Enough
  <2>4. Enough(a, w) => SlopeFits(w)
    BY <2>2, <2>3, EightFit
  <2> QED BY <1>0, <1>1, <2>1, <2>4, StoreExact
<1> QED BY <1>1, Invariant, PTL DEF Spec
=============================================================================
