--------------------------- MODULE HashMapProofs ---------------------------
(***************************************************************************)
(* Theorems about HashMap, for any keys, table sizes and chain lengths:    *)
(* keys stay findable and unique, about half of the slots stay vacant, and *)
(* the hash map implements the dictionary of module Dictionary.            *)
(***************************************************************************)
EXTENDS HashMap, Arithmetic

(* Half of the slots are vacant as m->size counts.                          *)
SizeOK ==
  /\ table_size >= INITIAL_SIZE
  /\ 2 * size <= table_size + 1
  /\ Cardinality(InUseSlots) <= size

(* The array that is rehashed holds a key once, and has its first i slots   *)
(* copied. *)
OldSize == \E n \in Nat : old \in Arrays(n) /\ i \in 0 .. n
OldDistinct ==
  \A s, t \in DOMAIN old : old[s] # Empty /\ old[t] # Empty /\ old[s].key = old[t].key => s = t
Copied == rehashing => InUse(data) = {old[j] : j \in 0 .. i - 1} \ {Empty}
RehashOK ==
  /\ OldSize /\ OldDistinct /\ Copied
  /\ put = Idle /\ ~lost => ~rehashing

IInv == TypeOK /\ Findable /\ SizeOK /\ RehashOK

-----------------------------------------------------------------------------
LEMMA HasFirst ==
  ASSUME NEW C \in SUBSET Nat, C # {}
  PROVE  \E c \in C : IsFirst(c, C)
BY Least DEF IsFirst

LEMMA AtInRange ==
  ASSUME NEW k \in Nat, NEW n \in Nat \ {0}, NEW c \in Nat
  PROVE  At(k, n, c) \in 0 .. n - 1
<1>1. k + c \in Nat
  OBVIOUS
<1>2. (k + c) % n \in 0 .. n - 1
  BY <1>1
<1> QED BY <1>2 DEF At

LEMMA ChainNat == Chain \subseteq Nat
BY HashMapAssumption DEF Chain

(* data with the entries for e's key taken out, and e in slot s.            *)
With(e, s) ==
  [r \in 0 .. table_size - 1 |->
     IF r = s THEN e
     ELSE IF data[r] # Empty /\ data[r].key = e.key THEN Empty ELSE data[r]]

(* What is found of k is all there is of it. *)
LEMMA HitsAll ==
  ASSUME TypeOK, Findable, NEW k \in Keys, NEW s \in DOMAIN data,
         data[s] # Empty, data[s].key = k
  PROVE  \E c \in Hits(data, table_size, k) : s = At(k, table_size, c)
BY DEF Findable, Hits

LEMMA DataDomain ==
  ASSUME TypeOK
  PROVE  /\ DOMAIN data = 0 .. table_size - 1
         /\ table_size \in Nat \ {0}
         /\ \A s \in DOMAIN data : data[s] \in Entries \cup {Empty}
         /\ \A k \in Keys, c \in Chain : At(k, table_size, c) \in DOMAIN data
<1>1. /\ DOMAIN data = 0 .. table_size - 1
      /\ table_size \in Nat \ {0}
      /\ \A s \in DOMAIN data : data[s] \in Entries \cup {Empty}
  BY DEF TypeOK, Arrays
<1> QED BY <1>1, AtInRange, ChainNat, HashMapAssumption

(* The entry that hashmap_hash moves: the only one of its key.              *)
LEMMA HitMoved ==
  ASSUME TypeOK, Findable, NEW k \in Keys, NEW c \in Chain,
         Hits(data, table_size, k) # {}
  PROVE  \E s \in DOMAIN data :
           /\ data[s] # Empty /\ data[s].key = k
           /\ \A r \in DOMAIN data : data[r] # Empty /\ data[r].key = k => r = s
           /\ MovedTo(k, c) = [[data EXCEPT ![s] = Empty]
                                  EXCEPT ![At(k, table_size, c)] = data[s]]
           /\ \E h \in Hits(data, table_size, k) :
                IsFirst(h, Hits(data, table_size, k)) /\ s = At(k, table_size, h)
<1> DEFINE H == Hits(data, table_size, k)
           h == CHOOSE h \in Chain : IsFirst(h, H)
           s == At(k, table_size, h)
<1>1. H \in SUBSET Nat
  BY ChainNat DEF Hits
<1>2. \E x \in Chain : IsFirst(x, H)
  <2>1. \E x \in H : IsFirst(x, H)
    BY <1>1, HasFirst
  <2> QED BY <2>1 DEF Hits
<1>3. h \in Chain /\ IsFirst(h, H)
  BY <1>2
<1>4. h \in H
  BY <1>3 DEF IsFirst
<1>5. s \in DOMAIN data /\ data[s] # Empty /\ data[s].key = k
  BY <1>4, DataDomain DEF Hits
<1>6. \A r \in DOMAIN data : data[r] # Empty /\ data[r].key = k => r = s
  BY <1>5 DEF Findable
<1>7. MovedTo(k, c) = [[data EXCEPT ![s] = Empty]
                                  EXCEPT ![At(k, table_size, c)] = data[s]]
  BY DEF MovedTo
<1> QED BY <1>3, <1>4, <1>5, <1>6, <1>7

(* hashmap_put_int stores one entry and takes out what there was of its     *)
(* key. *)
LEMMA StoreWith ==
  ASSUME TypeOK, Findable, NEW k \in Keys, NEW c \in Chain,
         NEW e \in Entries, e.key = k
  PROVE  [MovedTo(k, c) EXCEPT ![At(k, table_size, c)] = e]
           = With(e, At(k, table_size, c))
<1> DEFINE there == At(k, table_size, c)
<1>1. there \in DOMAIN data /\ DOMAIN data = 0 .. table_size - 1
  BY DataDomain
<1>d. data = [r \in 0 .. table_size - 1 |-> data[r]]
  BY DEF TypeOK, Arrays
<1>2. CASE Hits(data, table_size, k) = {}
  <2>1. \A r \in DOMAIN data : ~ (data[r] # Empty /\ data[r].key = k)
    BY <1>2, HitsAll
  <2>2. MovedTo(k, c) = data
    BY <1>2 DEF MovedTo
  <2> QED BY <1>1, <1>d, <2>1, <2>2 DEF With
<1>3. CASE Hits(data, table_size, k) # {}
  <2>1. PICK s \in DOMAIN data :
           /\ data[s] # Empty /\ data[s].key = k
           /\ \A r \in DOMAIN data : data[r] # Empty /\ data[r].key = k => r = s
           /\ MovedTo(k, c) = [[data EXCEPT ![s] = Empty] EXCEPT ![there] = data[s]]
    BY <1>3, HitMoved
  <2>2. [MovedTo(k, c) EXCEPT ![there] = e] = [[data EXCEPT ![s] = Empty] EXCEPT ![there] = e]
    BY <2>1, <1>1, <1>d
  <2> QED BY <1>1, <1>d, <2>1, <2>2 DEF With
<1> QED BY <1>2, <1>3

(* hashmap_hash moves the entry it has found to the slot it has chosen.     *)
LEMMA MoveWith ==
  ASSUME TypeOK, Findable, NEW k \in Keys, NEW c \in Chain,
         Hits(data, table_size, k) # {}
  PROVE  \E e \in InUse(data) :
           e.key = k /\ MovedTo(k, c) = With(e, At(k, table_size, c))
<1> DEFINE there == At(k, table_size, c)
<1>1. PICK s \in DOMAIN data :
         /\ data[s] # Empty /\ data[s].key = k
         /\ MovedTo(k, c) = [[data EXCEPT ![s] = Empty] EXCEPT ![there] = data[s]]
  BY HitMoved
<1>2. data[s] \in Entries /\ data[s] \in InUse(data)
  BY <1>1, DataDomain DEF InUse
<1>3. [MovedTo(k, c) EXCEPT ![there] = data[s]] = With(data[s], there)
  BY <1>1, <1>2, StoreWith
<1>4. [MovedTo(k, c) EXCEPT ![there] = data[s]] = MovedTo(k, c)
  BY <1>1, DataDomain
<1> QED BY <1>1, <1>2, <1>3, <1>4

LEMMA Landed ==
  ASSUME NEW k \in Keys, NEW c \in Chain, Lands(k, c)
  PROVE  /\ ~HalfFull
         /\ LET s == At(k, table_size, c) IN data[s] = Empty \/ data[s].key = k
BY DEF Lands, IsFirst, Vacant, Hits

LEMMA EmptyNoEntry == Empty \notin Entries
BY HashMapAssumption DEF Entries

(* What a stored or moved entry does to the array. *)
LEMMA WithKeeps ==
  ASSUME TypeOK, Findable, NEW e \in Entries, NEW c \in Chain,
         NEW s, s = At(e.key, table_size, c),
         data[s] = Empty \/ data[s].key = e.key,
         data' = With(e, s), table_size' = table_size
  PROVE  /\ data' \in Arrays(table_size')
         /\ Findable'
         /\ InUse(data') = {x \in InUse(data) : x.key # e.key} \cup {e}
<1>1. s \in DOMAIN data /\ e.key \in Keys /\ e # Empty
  BY DataDomain, EmptyNoEntry DEF Entries
<1>2. data' \in Arrays(table_size')
  BY <1>1, DataDomain DEF With, Arrays
<1>3. /\ DOMAIN data' = DOMAIN data
      /\ data'[s] = e
      /\ \A r \in DOMAIN data : r # s =>
           data'[r] = IF data[r] # Empty /\ data[r].key = e.key THEN Empty ELSE data[r]
  BY <1>1, DataDomain DEF With
<1>4. Findable'
  <2> SUFFICES ASSUME NEW r \in DOMAIN data', data'[r] # Empty
               PROVE  /\ \E d \in Chain : r = At(data'[r].key, table_size', d)
                      /\ \A t \in DOMAIN data' :
                           data'[t] # Empty /\ data'[t].key = data'[r].key => r = t
    BY DEF Findable
  <2>1. CASE r = s
    BY <2>1, <1>1, <1>3
  <2>2. CASE r # s
    <3>1. data'[r] = data[r] /\ data[r] # Empty /\ data[r].key # e.key
      BY <2>2, <1>3
    <3>2. \A t \in DOMAIN data : data'[t] # Empty /\ data'[t].key = data[r].key => t # s /\ data'[t] = data[t]
      BY <3>1, <1>3
    <3> QED BY <3>1, <3>2, <1>3 DEF Findable
  <2> QED BY <2>1, <2>2
<1>5. InUse(data') = {x \in InUse(data) : x.key # e.key} \cup {e}
  <2>1. ASSUME NEW x \in InUse(data')
        PROVE  x \in {y \in InUse(data) : y.key # e.key} \cup {e}
    <3>1. PICK r \in DOMAIN data : x = data'[r] /\ x # Empty
      BY <1>3 DEF InUse
    <3>2. CASE r = s
      BY <3>1, <3>2, <1>3
    <3>3. CASE r # s
      <4>1. x = data[r] /\ x.key # e.key
        BY <3>1, <3>3, <1>3
      <4> QED BY <4>1, <3>1 DEF InUse
    <3> QED BY <3>2, <3>3
  <2>2. ASSUME NEW x \in InUse(data), x.key # e.key
        PROVE  x \in InUse(data')
    <3>1. PICK r \in DOMAIN data : x = data[r] /\ x # Empty
      BY DEF InUse
    <3>2. r # s
      BY <3>1, <2>2
    <3>3. data'[r] = x
      BY <3>1, <3>2, <2>2, <1>3
    <3> QED BY <3>1, <3>3, <1>3 DEF InUse
  <2>3. e \in InUse(data')
    BY <1>1, <1>3 DEF InUse
  <2> QED BY <2>1, <2>2, <2>3
<1> QED BY <1>2, <1>4, <1>5

(* ... and to the number of slots in use. *)
LEMMA WithCount ==
  ASSUME TypeOK, NEW e \in Entries, NEW s \in DOMAIN data, data' = With(e, s)
  PROVE  /\ IsFiniteSet(InUseSlots)
         /\ Cardinality(InUseSlots) \in Nat /\ Cardinality(InUseSlots') \in Nat
         /\ Cardinality(InUseSlots') <= Cardinality(InUseSlots) + 1
         /\ (\E r \in DOMAIN data : data[r] # Empty /\ data[r].key = e.key)
              => Cardinality(InUseSlots') <= Cardinality(InUseSlots)
<1>1. DOMAIN data = 0 .. table_size - 1 /\ table_size \in Nat \ {0}
  BY DataDomain
<1>2. IsFiniteSet(DOMAIN data)
  BY <1>1, FS_Interval
<1>3. IsFiniteSet(InUseSlots)
  BY <1>2, FS_Subset DEF InUseSlots
<1>4. /\ DOMAIN data' = DOMAIN data
      /\ \A r \in DOMAIN data : r # s /\ data'[r] # Empty =>
           data'[r] = data[r] /\ data[r].key # e.key
  BY <1>1 DEF With
<1>5. InUseSlots' \subseteq InUseSlots \cup {s}
  BY <1>4 DEF InUseSlots
<1>6. /\ IsFiniteSet(InUseSlots \cup {s})
      /\ Cardinality(InUseSlots \cup {s}) <= Cardinality(InUseSlots) + 1
      /\ Cardinality(InUseSlots) \in Nat
  BY <1>3, FS_AddElement, FS_CardinalityType
<1>7. /\ IsFiniteSet(InUseSlots') /\ Cardinality(InUseSlots') \in Nat
      /\ Cardinality(InUseSlots') <= Cardinality(InUseSlots) + 1
  BY <1>5, <1>6, FS_Subset, FS_CardinalityType
<1>8. ASSUME NEW r \in DOMAIN data, data[r] # Empty, data[r].key = e.key
      PROVE  Cardinality(InUseSlots') <= Cardinality(InUseSlots)
  <2> DEFINE R == InUseSlots \ {r}
  <2>1. InUseSlots' \subseteq R \cup {s}
    BY <1>4, <1>8 DEF InUseSlots
  <2>2. /\ IsFiniteSet(R) /\ Cardinality(R) = Cardinality(InUseSlots) - 1
    BY <1>3, <1>8, FS_RemoveElement DEF InUseSlots
  <2> HIDE DEF R
  <2>3. IsFiniteSet(R \cup {s}) /\ Cardinality(R \cup {s}) <= Cardinality(R) + 1
    <3>1. Cardinality(R) \in Nat
      BY <2>2, FS_CardinalityType
    <3> QED BY <2>2, <3>1, FS_AddElement
  <2>4. Cardinality(InUseSlots') <= Cardinality(R \cup {s}) /\ Cardinality(R \cup {s}) \in Nat
    BY <2>1, <2>3, FS_Subset, FS_CardinalityType
  <2> QED BY <2>2, <2>3, <2>4, <1>6, <1>7
<1> QED BY <1>3, <1>6, <1>7, <1>8

(* No two entries have the same key. *)
LEMMA KeysUnique ==
  ASSUME Findable, NEW x \in InUse(data), NEW y \in InUse(data), x.key = y.key
  PROVE  x = y
BY DEF Findable, InUse

(* hashmap_put_int, in a call of hashmap_put or in a rehash. *)
LEMMA Stored ==
  ASSUME TypeOK, Findable, SizeOK, NEW k \in Keys, NEW v \in Values, NEW t \in Nat,
         NEW c \in Chain, Lands(k, c), Store(k, v, t, c), table_size' = table_size
  PROVE  LET e == [key |-> k, data |-> v, time |-> t] IN
         /\ data' \in Arrays(table_size') /\ size' \in Nat
         /\ Findable' /\ SizeOK'
         /\ InUse(data') = {x \in InUse(data) : x.key # k} \cup {e}
<1> DEFINE e == [key |-> k, data |-> v, time |-> t]
           s == At(k, table_size, c)
<1>1. e \in Entries /\ e.key = k
  BY DEF Entries
<1>2. data' = With(e, s) /\ s \in DOMAIN data
  BY <1>1, StoreWith, DataDomain DEF Store
<1>3. (data[s] = Empty \/ data[s].key = e.key) /\ ~HalfFull
  BY <1>1, Landed
<1> HIDE DEF e
<1>4. s = At(e.key, table_size, c)
  BY <1>1
<1>5. /\ data' \in Arrays(table_size') /\ Findable'
      /\ InUse(data') = {x \in InUse(data) : x.key # e.key} \cup {e}
  BY <1>1, <1>2, <1>3, <1>4, WithKeeps
<1>6. /\ Cardinality(InUseSlots) \in Nat /\ Cardinality(InUseSlots') \in Nat
      /\ Cardinality(InUseSlots') <= Cardinality(InUseSlots) + 1
      /\ (\E r \in DOMAIN data : data[r] # Empty /\ data[r].key = e.key)
           => Cardinality(InUseSlots') <= Cardinality(InUseSlots)
  BY <1>1, <1>2, WithCount
<1>7. size \in Nat /\ table_size \in Nat /\ INITIAL_SIZE \in Nat
  BY HashMapAssumption DEF TypeOK
<1>8. SizeOK' /\ size' \in Nat
  <2>1. CASE Hits(data, table_size, k) = {}
    <3>1. size' = size + 1
      BY <2>1 DEF Store
    <3> QED BY <3>1, <1>3, <1>6, <1>7 DEF SizeOK, HalfFull
  <2>2. CASE Hits(data, table_size, k) # {}
    <3>1. size' = size
      BY <2>2 DEF Store
    <3>2. \E r \in DOMAIN data : data[r] # Empty /\ data[r].key = e.key
      BY <2>2, <1>1, DataDomain DEF Hits
    <3> QED BY <3>1, <3>2, <1>6, <1>7 DEF SizeOK
  <2> QED BY <2>1, <2>2
<1> QED BY <1>1, <1>5, <1>8 DEF e

(* hashmap_hash, as called by hashmap_get. *)
LEMMA LookedUp ==
  ASSUME TypeOK, Findable, SizeOK, NEW k \in Keys, NEW c \in Chain, Lands(k, c),
         data' = MovedTo(k, c), UNCHANGED <<table_size, size>>
  PROVE  /\ data' \in Arrays(table_size')
         /\ Findable' /\ SizeOK'
         /\ InUse(data') = InUse(data)
         /\ \A x \in InUse(data) : x.key = k => data'[At(k, table_size, c)] = x
<1> DEFINE s == At(k, table_size, c)
<1>1. CASE Hits(data, table_size, k) = {}
  <2>1. data' = data
    BY <1>1 DEF MovedTo
  <2>2. InUseSlots' = InUseSlots /\ Findable' /\ SizeOK' /\ data' \in Arrays(table_size')
    BY <2>1 DEF InUseSlots, Findable, SizeOK, TypeOK
  <2>3. \A x \in InUse(data) : x.key # k
    BY <1>1, HitsAll DEF InUse
  <2> QED BY <2>1, <2>2, <2>3
<1>2. CASE Hits(data, table_size, k) # {}
  <2>1. PICK e \in InUse(data) : e.key = k /\ data' = With(e, s)
    BY <1>2, MoveWith
  <2>2. e \in Entries /\ s \in DOMAIN data /\ s = At(e.key, table_size, c)
    BY <2>1, DataDomain DEF InUse
  <2>3. data[s] = Empty \/ data[s].key = e.key
    BY <2>1, Landed
  <2>4. /\ data' \in Arrays(table_size') /\ Findable'
        /\ InUse(data') = {x \in InUse(data) : x.key # e.key} \cup {e}
    BY <2>1, <2>2, <2>3, WithKeeps
  <2>5. InUse(data') = InUse(data)
    BY <2>1, <2>4, KeysUnique
  <2>6. \E r \in DOMAIN data : data[r] # Empty /\ data[r].key = e.key
    BY <2>1 DEF InUse
  <2>7. /\ Cardinality(InUseSlots) \in Nat /\ Cardinality(InUseSlots') \in Nat
        /\ Cardinality(InUseSlots') <= Cardinality(InUseSlots)
    BY <2>1, <2>2, <2>6, WithCount
  <2>8. SizeOK'
    BY <2>7 DEF SizeOK, TypeOK
  <2>9. data'[s] = e
    BY <2>1, <2>2, DataDomain DEF With
  <2> QED BY <2>1, <2>4, <2>5, <2>8, <2>9, KeysUnique
<1> QED BY <1>1, <1>2

(* hashmap_delete_timeout *)
LEMMA Deleted ==
  ASSUME TypeOK, Findable, SizeOK, DeleteTimeout
  PROVE  /\ data' \in Arrays(table_size')
         /\ Findable' /\ SizeOK'
         /\ InUse(data') = {x \in InUse(data) : now <= x.time + TIMEOUT_CHILDREN}
<1>1. /\ DOMAIN data = 0 .. table_size - 1 /\ table_size \in Nat \ {0}
      /\ \A r \in DOMAIN data : data[r] \in Entries \cup {Empty}
  BY DataDomain
<1>2. /\ DOMAIN data' = DOMAIN data
      /\ \A r \in DOMAIN data :
           data'[r] = IF data[r] # Empty /\ now > data[r].time + TIMEOUT_CHILDREN
                        THEN Empty ELSE data[r]
      /\ UNCHANGED <<table_size, size>>
  BY DEF DeleteTimeout
<1>3. data' \in Arrays(table_size')
  BY <1>1, <1>2 DEF DeleteTimeout, Arrays
<1>4. Findable'
  BY <1>2 DEF Findable
<1>5. SizeOK'
  <2>1. IsFiniteSet(InUseSlots)
    <3>1. IsFiniteSet(DOMAIN data)
      BY <1>1, FS_Interval
    <3> QED BY <3>1, FS_Subset DEF InUseSlots
  <2>2. InUseSlots' \subseteq InUseSlots
    BY <1>2 DEF InUseSlots
  <2>3. /\ Cardinality(InUseSlots') <= Cardinality(InUseSlots)
        /\ Cardinality(InUseSlots) \in Nat /\ Cardinality(InUseSlots') \in Nat
    BY <2>1, <2>2, FS_Subset, FS_CardinalityType
  <2> QED BY <2>3, <1>2 DEF SizeOK, TypeOK
<1>6. now \in Nat /\ TIMEOUT_CHILDREN \in Nat /\ \A x \in InUse(data) : x.time \in Nat
  BY <1>1, HashMapAssumption DEF TypeOK, InUse, Entries
<1>7. InUse(data') = {x \in InUse(data) : now <= x.time + TIMEOUT_CHILDREN}
  <2>1. \A x \in InUse(data') : x \in InUse(data) /\ now <= x.time + TIMEOUT_CHILDREN
    <3> SUFFICES ASSUME NEW r \in DOMAIN data, data'[r] # Empty
                 PROVE  data'[r] \in InUse(data) /\ now <= data'[r].time + TIMEOUT_CHILDREN
      BY <1>2 DEF InUse
    <3>1. data'[r] = data[r] /\ data[r] # Empty /\ ~(now > data[r].time + TIMEOUT_CHILDREN)
      BY <1>2
    <3>2. data[r] \in InUse(data)
      BY <3>1 DEF InUse
    <3> QED BY <3>1, <3>2, <1>6
  <2>2. ASSUME NEW x \in InUse(data), now <= x.time + TIMEOUT_CHILDREN
        PROVE  x \in InUse(data')
    <3>1. PICK r \in DOMAIN data : x = data[r] /\ x # Empty
      BY DEF InUse
    <3>2. data'[r] = x
      BY <3>1, <2>2, <1>2, <1>6
    <3> QED BY <3>1, <3>2, <1>2 DEF InUse
  <2> QED BY <2>1, <2>2
<1> QED BY <1>3, <1>4, <1>5, <1>7

(* An empty array: hashmap_new, or a round of hashmap_rehash. *)
LEMMA Emptied ==
  ASSUME NEW n \in Nat \ {0}, n >= INITIAL_SIZE, data' = EmptyArray(n),
         table_size' = n, size' = 0
  PROVE  /\ data' \in Arrays(table_size')
         /\ Findable' /\ SizeOK'
         /\ InUse(data') = {}
<1>1. DOMAIN data' = 0 .. n - 1 /\ \A r \in DOMAIN data' : data'[r] = Empty
  BY DEF EmptyArray
<1>2. InUseSlots' = {}
  BY <1>1 DEF InUseSlots
<1>3. Cardinality(InUseSlots') = 0
  BY <1>2, FS_EmptySet
<1>4. SizeOK'
  BY <1>3, HashMapAssumption DEF SizeOK
<1> QED BY <1>1, <1>4 DEF EmptyArray, Arrays, Findable, InUse

-----------------------------------------------------------------------------
LEMMA OldArray ==
  ASSUME TypeOK, OldSize
  PROVE  /\ \A j \in DOMAIN old : old[j] \in Entries \cup {Empty}
         /\ ~Done => i + 1 \in Nat /\ OldSize /\ \E n \in Nat : old \in Arrays(n) /\ i + 1 \in 0 .. n
<1>1. PICK n \in Nat : old \in Arrays(n) /\ i \in 0 .. n
  BY DEF OldSize
<1>2. DOMAIN old = 0 .. n - 1
  BY <1>1 DEF Arrays
<1>3. \A j \in DOMAIN old : old[j] \in Entries \cup {Empty}
  BY <1>1 DEF Arrays
<1>4. ~Done => i + 1 \in 0 .. n
  BY <1>1, <1>2 DEF Done
<1> QED BY <1>1, <1>3, <1>4

LEMMA ArraysCount ==
  ASSUME NEW n \in Nat, NEW a \in Arrays(n)
  PROVE  a \in Arrays(Cardinality(DOMAIN a))
<1>1. DOMAIN a = 0 .. n - 1
  BY DEF Arrays
<1>2. Cardinality(0 .. n - 1) = n
  BY FS_Interval
<1> QED BY <1>1, <1>2

(* The fields that a call of hashmap_put or hashmap_get in one step leaves  *)
(* alone. *)
LEMMA KeepsTypes ==
  ASSUME IInv, data' \in Arrays(table_size'), table_size' = table_size, size' \in Nat,
         UNCHANGED <<rehashing, old, lost>>, i' \in Nat, now' \in 0 .. MaxTime,
         put' \in [key : Keys, data : Values] \cup {Idle},
         ret' \in [key : Keys \cup {0}, status : Results, data : Values \cup {Empty}]
  PROVE  TypeOK'
BY DEF IInv, TypeOK

(* The types of the calls' results. *)
LEMMA ReturnsType ==
  ASSUME NEW k \in Keys \cup {0}, NEW st \in Results, NEW v \in Values \cup {Empty}, Returns(k, st, v)
  PROVE  ret' \in [key : Keys \cup {0}, status : Results, data : Values \cup {Empty}]
BY DEF Returns

LEMMA InitInv == Init => IInv
<1> SUFFICES ASSUME Init PROVE IInv
  OBVIOUS
<1>1. INITIAL_SIZE \in Nat \ {0} /\ MaxTime \in Nat
  BY HashMapAssumption
<1>2. DOMAIN data = 0 .. INITIAL_SIZE - 1 /\ \A r \in DOMAIN data : data[r] = Empty
  BY DEF Init, EmptyArray
<1>3. old \in Arrays(0)
  BY DEF Init, EmptyArray, Arrays
<1>4. TypeOK
  <2>1. data \in Arrays(table_size)
    BY <1>1 DEF Init, EmptyArray, Arrays
  <2>2. old \in Arrays(Cardinality(DOMAIN old))
    BY <1>3, ArraysCount
  <2>3. ret \in [key : Keys \cup {0}, status : Results, data : Values \cup {Empty}]
    BY DEF Init, NoResult, Results
  <2>4. /\ table_size \in Nat \ {0} /\ size \in Nat /\ i \in Nat /\ now \in 0 .. MaxTime
    BY <1>1 DEF Init
  <2>5. put = Idle /\ rehashing \in BOOLEAN /\ lost \in BOOLEAN
    BY Zenon DEF Init
  <2> QED BY <2>1, <2>2, <2>3, <2>4, <2>5 DEF TypeOK
<1>5. Findable
  BY <1>2 DEF Findable
<1>6. SizeOK
  <2>1. InUseSlots = {}
    BY <1>2 DEF InUseSlots
  <2> QED BY <2>1, <1>1, FS_EmptySet DEF Init, SizeOK
<1>7. RehashOK
  <2>1. DOMAIN old = {}
    BY <1>3 DEF Arrays
  <2> QED BY <1>3, <2>1 DEF Init, RehashOK, OldSize, OldDistinct, Copied
<1> QED BY <1>4, <1>5, <1>6, <1>7 DEF IInv

(* A fresh, larger array for the elements of another one. *)
LEMMA GrowStep ==
  ASSUME IInv, NEW n \in Nat, NEW array \in Arrays(n), Grow(array), put # Idle,
         \A s, t \in DOMAIN array :
           array[s] # Empty /\ array[t] # Empty /\ array[s].key = array[t].key => s = t
  PROVE  IInv'
<1>1. /\ data' = EmptyArray(2 * table_size + 1) /\ table_size' = 2 * table_size + 1 /\ size' = 0
      /\ rehashing' = TRUE /\ old' = array /\ i' = 0
      /\ UNCHANGED <<put, lost, now, ret>>
  BY DEF Grow
<1>2. 2 * table_size + 1 \in Nat \ {0} /\ 2 * table_size + 1 >= INITIAL_SIZE
  BY HashMapAssumption DEF IInv, TypeOK, SizeOK
<1>3. /\ data' \in Arrays(table_size')
      /\ Findable' /\ SizeOK'
      /\ InUse(data') = {}
  BY <1>1, <1>2, Emptied
<1>4. old' \in Arrays(Cardinality(DOMAIN old'))
  BY <1>1, ArraysCount
<1>5. TypeOK'
  BY <1>1, <1>2, <1>3, <1>4 DEF IInv, TypeOK
<1>6. RehashOK'
  <2>1. OldSize'
    BY <1>1 DEF OldSize
  <2>2. OldDistinct'
    BY <1>1 DEF OldDistinct
  <2>3. Copied'
    BY <1>1, <1>3 DEF Copied
  <2>4. put' # Idle
    BY <1>1
  <2> QED BY <2>1, <2>2, <2>3, <2>4 DEF RehashOK
<1> QED BY <1>3, <1>5, <1>6 DEF IInv

(* A call that stores its entry, or an element of the old array. *)
LEMMA PutStoresStep == IInv /\ PutStores => IInv'
<1> SUFFICES ASSUME IInv, PutStores PROVE IInv'
  OBVIOUS
<1>1. /\ put # Idle /\ ~rehashing /\ put' = Idle
      /\ UNCHANGED <<table_size, rehashing, old, i, lost, now>>
      /\ Returns(put.key, IF Hits(data, table_size, put.key) = {} THEN "MAP_NEW"
                      ELSE "MAP_UPDATE", put.data)
  BY DEF PutStores, Putting
<1>2. PICK c \in Chain : Lands(put.key, c) /\ Store(put.key, put.data, now, c)
  BY DEF PutStores
<1>3. put.key \in Keys /\ put.data \in Values /\ now \in Nat
  BY <1>1, HashMapAssumption DEF IInv, TypeOK
<1>4. data' \in Arrays(table_size') /\ size' \in Nat /\ Findable' /\ SizeOK'
  BY <1>1, <1>2, <1>3, Stored DEF IInv
<1>5. ret' \in [key : Keys \cup {0}, status : Results, data : Values \cup {Empty}]
  BY <1>1, <1>3, ReturnsType DEF Results
<1>6. TypeOK'
  BY <1>1, <1>4, <1>5, KeepsTypes DEF IInv, TypeOK
<1>7. RehashOK'
  BY <1>1 DEF IInv, RehashOK, OldSize, OldDistinct, Copied
<1> QED BY <1>4, <1>6, <1>7 DEF IInv

LEMMA MoveElementStep == IInv /\ MoveElement => IInv'
<1> SUFFICES ASSUME IInv, MoveElement PROVE IInv'
  OBVIOUS
<1>1. /\ put # Idle /\ rehashing /\ i \in DOMAIN old /\ ~Done /\ old[i] # Empty /\ i' = i + 1
      /\ UNCHANGED <<table_size, put, rehashing, old, lost, now, ret>>
  BY DEF MoveElement, Rehashing, Done
<1>2. PICK c \in Chain :
        Lands(old[i].key, c) /\ Store(old[i].key, old[i].data, old[i].time, c)
  BY DEF MoveElement
<1>3. old[i] \in Entries /\ i \in Nat
  BY <1>1, OldArray DEF IInv, RehashOK, TypeOK
<1>4. /\ old[i].key \in Keys /\ old[i].data \in Values /\ old[i].time \in Nat
      /\ [key |-> old[i].key, data |-> old[i].data, time |-> old[i].time] = old[i]
  BY <1>3 DEF Entries
<1>5. /\ data' \in Arrays(table_size') /\ size' \in Nat /\ Findable' /\ SizeOK'
      /\ InUse(data') = {x \in InUse(data) : x.key # old[i].key} \cup {old[i]}
  BY <1>1, <1>2, <1>4, Stored DEF IInv
<1>6. /\ OldSize' /\ i' \in Nat
  BY <1>1, OldArray DEF IInv, RehashOK, OldSize
<1>7. TypeOK'
  BY <1>1, <1>5, <1>6, KeepsTypes DEF IInv, TypeOK
<1>8. OldDistinct'
  BY <1>1 DEF IInv, RehashOK, OldDistinct
<1>9. Copied'
  <2>1. InUse(data) = {old[j] : j \in 0 .. i - 1} \ {Empty}
    BY <1>1 DEF IInv, RehashOK, Copied
  <2>2. \A j \in 0 .. i - 1 : j \in DOMAIN old /\ j # i
    BY <1>1, <1>3 DEF IInv, RehashOK, OldSize, Arrays
  <2>3. \A x \in InUse(data) : x.key # old[i].key
    BY <2>1, <2>2, <1>1 DEF IInv, RehashOK, OldDistinct
  <2>4. InUse(data') = InUse(data) \cup {old[i]}
    BY <1>5, <2>3
  <2>5. 0 .. i' - 1 = (0 .. i - 1) \cup {i}
    BY <1>1, <1>3
  <2>6. InUse(data') = {old[j] : j \in 0 .. i' - 1} \ {Empty}
    BY <2>1, <2>4, <2>5, <1>1
  <2> QED BY <2>6, <1>1 DEF Copied
<1>10. RehashOK'
  BY <1>1, <1>6, <1>8, <1>9 DEF RehashOK
<1> QED BY <1>5, <1>7, <1>10 DEF IInv

LEMMA SkipElementStep == IInv /\ SkipElement => IInv'
<1> SUFFICES ASSUME IInv, SkipElement PROVE IInv'
  OBVIOUS
<1>1. /\ put # Idle /\ rehashing /\ ~Done /\ old[i] = Empty /\ i' = i + 1
      /\ UNCHANGED <<data, table_size, size, put, rehashing, old, lost, now, ret>>
  BY DEF SkipElement, Rehashing
<1>2. /\ OldSize' /\ i' \in Nat
  BY <1>1, OldArray DEF IInv, RehashOK, OldSize
<1>3. TypeOK'
  BY <1>1, <1>2, KeepsTypes DEF IInv, TypeOK
<1>4. Findable' /\ SizeOK' /\ OldDistinct'
  BY <1>1 DEF IInv, RehashOK, Findable, SizeOK, InUseSlots, OldDistinct
<1>5. Copied'
  <2>1. i \in Nat
    BY DEF IInv, TypeOK
  <2>2. 0 .. i' - 1 = (0 .. i - 1) \cup {i}
    BY <1>1, <2>1
  <2>3. {old[j] : j \in 0 .. i' - 1} \ {Empty} = {old[j] : j \in 0 .. i - 1} \ {Empty}
    BY <2>2, <1>1
  <2>4. InUse(data') = {old[j] : j \in 0 .. i' - 1} \ {Empty}
    BY <2>3, <1>1 DEF IInv, RehashOK, Copied
  <2> QED BY <2>4, <1>1 DEF Copied
<1> QED BY <1>1, <1>2, <1>3, <1>4, <1>5 DEF IInv, RehashOK

(* A step that leaves the array and the counts alone and is not part of a   *)
(* rehash that goes on. *)
LEMMA ArrayKept ==
  ASSUME IInv, UNCHANGED <<data, table_size, size, rehashing, old, i>>,
         put' \in [key : Keys, data : Values] \cup {Idle}, lost' \in BOOLEAN,
         now' \in 0 .. MaxTime,
         ret' \in [key : Keys \cup {0}, status : Results, data : Values \cup {Empty}],
         put' = Idle /\ ~lost' => ~rehashing
  PROVE  IInv'
<1>1. TypeOK'
  BY DEF IInv, TypeOK
<1>2. Findable' /\ SizeOK'
  BY DEF IInv, Findable, SizeOK, InUseSlots
<1>3. RehashOK'
  BY DEF IInv, RehashOK, OldSize, OldDistinct, Copied
<1> QED BY <1>1, <1>2, <1>3 DEF IInv

LEMMA EndRehashStep == IInv /\ EndRehash => IInv'
<1> SUFFICES ASSUME IInv, EndRehash PROVE IInv'
  OBVIOUS
<1>1. /\ rehashing' = FALSE /\ old' = EmptyArray(0) /\ i' = 0
      /\ UNCHANGED <<data, table_size, size, put, lost, now, ret>>
  BY DEF EndRehash
<1>2. old' \in Arrays(0)
  BY <1>1 DEF EmptyArray, Arrays
<1>3. old' \in Arrays(Cardinality(DOMAIN old'))
  BY <1>2, ArraysCount
<1>4. TypeOK'
  BY <1>1, <1>3 DEF IInv, TypeOK
<1>5. Findable' /\ SizeOK'
  BY <1>1 DEF IInv, Findable, SizeOK, InUseSlots
<1>6. DOMAIN old' = {}
  BY <1>2 DEF Arrays
<1>7. RehashOK'
  BY <1>1, <1>2, <1>6 DEF RehashOK, OldSize, OldDistinct, Copied
<1> QED BY <1>4, <1>5, <1>7 DEF IInv

-----------------------------------------------------------------------------
(* The values an answer can give are those of the array. *)
LEMMA AnswerType ==
  ASSUME NEW k \in Keys, NEW Slots, NEW array, Answer(k, array, Slots),
         \A s \in Slots : array[s] \in Entries \cup {Empty}
  PROVE  ret' \in [key : Keys \cup {0}, status : Results, data : Values \cup {Empty}]
<1>1. CASE {s \in Slots : array[s] # Empty /\ array[s].key = k} = {}
  BY <1>1, ReturnsType DEF Answer, Results
<1>2. CASE {s \in Slots : array[s] # Empty /\ array[s].key = k} # {}
  <2>1. PICK s \in Slots : array[s] # Empty /\ Returns(k, "MAP_OK", array[s].data)
    BY <1>2 DEF Answer
  <2>2. array[s].data \in Values
    BY <2>1 DEF Entries
  <2> QED BY <2>1, <2>2, ReturnsType DEF Results
<1> QED BY <1>1, <1>2

(* The slots hashmap_get searches once hashmap_hash has landed on step c.   *)
LEMMA SlotsInArray ==
  ASSUME TypeOK, NEW k \in Keys, NEW c \in Chain
  PROVE  \A d \in Chain : At(k, table_size, c + d) \in 0 .. table_size - 1
<1>1. \A d \in Chain : c + d \in Nat
  BY ChainNat
<1>2. k \in Nat /\ table_size \in Nat \ {0}
  BY HashMapAssumption DEF TypeOK
<1> QED BY <1>1, <1>2, AtInRange

LEMMA GetStep ==
  ASSUME IInv, NEW k \in Keys, Get(k)
  PROVE  IInv'
<1>1. CASE GetLands(k)
  <2>1. PICK c \in Chain :
          /\ Lands(k, c) /\ data' = MovedTo(k, c)
          /\ Answer(k, data', {At(k, table_size, c + d) : d \in Chain})
    BY <1>1 DEF GetLands
  <2>2. /\ put = Idle /\ ~lost
        /\ UNCHANGED <<table_size, size, put, rehashing, old, i, lost, now>>
    BY <1>1 DEF GetLands, Quiet
  <2>3. data' \in Arrays(table_size') /\ Findable' /\ SizeOK'
    BY <2>1, <2>2, LookedUp DEF IInv
  <2>4. \A s \in {At(k, table_size, c + d) : d \in Chain} : data'[s] \in Entries \cup {Empty}
    BY <2>2, <2>3, SlotsInArray DEF IInv, Arrays
  <2>5. ret' \in [key : Keys \cup {0}, status : Results, data : Values \cup {Empty}]
    <3> DEFINE slots == {At(k, table_size, c + d) : d \in Chain}
    <3> HIDE DEF slots
    <3>1. Answer(k, data', slots) /\ \A s \in slots : data'[s] \in Entries \cup {Empty}
      BY <2>1, <2>4 DEF slots
    <3> QED BY <3>1, AnswerType
  <2>6. TypeOK'
    BY <2>2, <2>3, <2>5, KeepsTypes DEF IInv, TypeOK
  <2>7. RehashOK'
    BY <2>2 DEF IInv, RehashOK, OldSize, OldDistinct, Copied
  <2> QED BY <2>3, <2>6, <2>7 DEF IInv
<1>2. CASE GetBeforeArray(k)
  <2>1. UNCHANGED <<data, table_size, size, put, rehashing, old, i, lost, now>>
    BY <1>2 DEF GetBeforeArray
  <2>2. CASE \E v \in Values : Returns(k, "MAP_OK", v)
    <3>1. ret' \in [key : Keys \cup {0}, status : Results, data : Values \cup {Empty}]
      BY <2>2, ReturnsType DEF Results
    <3> QED BY <2>1, <3>1, ArrayKept DEF IInv, TypeOK, RehashOK
  <2>3. CASE Answer(k, data, 0 .. MAX_CHAIN_LENGTH - 3)
    <3>1. 0 .. MAX_CHAIN_LENGTH - 3 \subseteq DOMAIN data
      BY HashMapAssumption, DataDomain DEF IInv, SizeOK
    <3>2. \A s \in 0 .. MAX_CHAIN_LENGTH - 3 : data[s] \in Entries \cup {Empty}
      BY <3>1, DataDomain DEF IInv
    <3>3. ret' \in [key : Keys \cup {0}, status : Results, data : Values \cup {Empty}]
      BY <2>3, <3>2, AnswerType
    <3> QED BY <2>1, <3>3, ArrayKept DEF IInv, TypeOK, RehashOK
  <2> QED BY <1>2, <2>2, <2>3 DEF GetBeforeArray
<1> QED BY <1>1, <1>2 DEF Get

LEMMA InvStep == IInv /\ [Next]_vars => IInv'
<1> SUFFICES ASSUME IInv, [Next]_vars PROVE IInv'
  OBVIOUS
<1> USE DEF Quiet
<1>1. CASE Tick
  <2>1. now' \in 0 .. MaxTime
    BY <1>1, HashMapAssumption DEF Tick, IInv, TypeOK
  <2> QED BY <1>1, <2>1, ArrayKept DEF Tick, IInv, TypeOK, RehashOK
<1>2. CASE DeleteTimeout
  <2>1. data' \in Arrays(table_size') /\ Findable' /\ SizeOK'
    BY <1>2, Deleted DEF IInv
  <2>2. /\ put = Idle /\ ~lost
        /\ UNCHANGED <<table_size, size, put, rehashing, old, i, lost, now, ret>>
    BY <1>2 DEF DeleteTimeout
  <2>3. TypeOK'
    BY <2>1, <2>2, KeepsTypes DEF IInv, TypeOK
  <2>4. RehashOK'
    BY <2>2 DEF IInv, RehashOK, OldSize, OldDistinct, Copied
  <2> QED BY <2>1, <2>3, <2>4 DEF IInv
<1>3. ASSUME NEW k \in Keys, Get(k) PROVE IInv'
  BY <1>3, GetStep
<1>4. ASSUME NEW k \in Keys, NEW v \in Values, PutCall(k, v) PROVE IInv'
  <2>1. ret' \in [key : Keys \cup {0}, status : Results, data : Values \cup {Empty}]
    BY <1>4 DEF PutCall, NoResult, Results
  <2> QED BY <1>4, <2>1, ArrayKept DEF PutCall, IInv, TypeOK, RehashOK
<1>5. CASE PutStores
  BY <1>5, PutStoresStep
<1>6. CASE PutGrows
  <2>1. table_size \in Nat /\ data \in Arrays(table_size) /\ put # Idle /\ Grow(data)
    BY <1>6 DEF PutGrows, Putting, IInv, TypeOK
  <2>2. \A s, t \in DOMAIN data :
           data[s] # Empty /\ data[t] # Empty /\ data[s].key = data[t].key => s = t
    BY DEF IInv, Findable
  <2> QED BY <2>1, <2>2, GrowStep
<1>7. CASE PutFails
  <2>1. put # Idle /\ ~rehashing /\ Returns(put.key, "MAP_OMEM", put.data)
    BY <1>7 DEF PutFails, Putting
  <2>2. put.key \in Keys /\ put.data \in Values
    BY <2>1 DEF IInv, TypeOK
  <2>3. ret' \in [key : Keys \cup {0}, status : Results, data : Values \cup {Empty}]
    BY <2>1, <2>2, ReturnsType DEF Results
  <2> QED BY <1>7, <2>1, <2>3, ArrayKept DEF PutFails, IInv, TypeOK
<1>8. CASE SkipElement
  BY <1>8, SkipElementStep
<1>9. CASE MoveElement
  BY <1>9, MoveElementStep
<1>10. CASE RestartRehash
  <2>1. PICK n \in Nat : old \in Arrays(n)
    BY DEF IInv, RehashOK, OldSize
  <2>2. put # Idle /\ Grow(old)
    BY <1>10 DEF RestartRehash, Rehashing
  <2> QED BY <2>1, <2>2, GrowStep DEF IInv, RehashOK, OldDistinct
<1>11. CASE LoseArray
  <2>1. put # Idle /\ Returns(put.key, "MAP_OMEM", put.data)
    BY <1>11 DEF LoseArray, Rehashing
  <2>2. put.key \in Keys /\ put.data \in Values
    BY <2>1 DEF IInv, TypeOK
  <2>3. ret' \in [key : Keys \cup {0}, status : Results, data : Values \cup {Empty}]
    BY <2>1, <2>2, ReturnsType DEF Results
  <2>4. lost' = TRUE
    BY <1>11 DEF LoseArray
  <2> QED BY <1>11, <2>3, <2>4, ArrayKept DEF LoseArray, IInv, TypeOK
<1>12. CASE EndRehash
  BY <1>12, EndRehashStep
<1>13. CASE UNCHANGED vars
  BY <1>13, ArrayKept DEF vars, IInv, TypeOK, RehashOK
<1> QED BY <1>1, <1>2, <1>3, <1>4, <1>5, <1>6, <1>7, <1>8, <1>9, <1>10, <1>11,
          <1>12, <1>13 DEF Next, PutStep

(* The inductive invariant: hashmap_put, hashmap_get and                    *)
(* hashmap_delete_timeout with every step of a rehash (hashmap.c:69-358).   *)
THEOREM Invariant == Spec => []IInv
BY InitInv, InvStep, PTL DEF Spec

(* No index leaves the array and no field its type (hashmap.c:29-258).      *)
THEOREM TypeCorrect == Spec => []TypeOK
<1>1. IInv => TypeOK
  BY DEF IInv
<1> QED BY <1>1, Invariant, PTL

(* In a hash map of any size every entry stays where probing for its key    *)
(* finds it, and no key is there twice (hashmap.c:46-62).                   *)
THEOREM AlwaysFindable == Spec => []Findable
<1>1. IInv => Findable
  BY DEF IInv
<1> QED BY <1>1, Invariant, PTL

(* In a hash map of any size m->size counts no entry less than there are,   *)
(* and at least about half of the slots are vacant (hashmap.c:34, 207).     *)
THEOREM AlwaysHalfVacant == Spec => []HalfVacant
<1>1. IInv => HalfVacant
  <2> SUFFICES ASSUME IInv PROVE HalfVacant
    OBVIOUS
  <2>1. DOMAIN data = 0 .. table_size - 1
    BY DataDomain DEF IInv
  <2>2. IsFiniteSet(DOMAIN data)
    BY <2>1, FS_Interval DEF IInv, TypeOK
  <2>3. IsFiniteSet(InUseSlots)
    BY <2>2, FS_Subset DEF InUseSlots
  <2>4. Cardinality(InUseSlots) \in Nat
    BY <2>3, FS_CardinalityType
  <2> QED BY <2>4 DEF IInv, TypeOK, SizeOK, HalfVacant
<1> QED BY <1>1, Invariant, PTL

-----------------------------------------------------------------------------
(* A rehash, and every other step that is not one of the dictionary's,      *)
(* leaves what a caller can count on. *)
LEMMA ImplementsStep == IInv /\ [Next]_vars => [D!Next]_<<Contents, now>>
<1> SUFFICES ASSUME IInv, [Next]_vars
             PROVE  D!Next \/ UNCHANGED <<Contents, now>>
  OBVIOUS
<1> USE DEF Quiet, Contents
<1>q. Quiet => ~rehashing
  BY DEF IInv, RehashOK
<1>1. CASE Tick
  <2>1. D!Tick
    BY <1>1, <1>q DEF Tick, D!Tick
  <2> QED BY <2>1 DEF D!Next
<1>2. CASE DeleteTimeout
  <2>1. InUse(data') = {x \in InUse(data) : now <= x.time + TIMEOUT_CHILDREN}
    BY <1>2, Deleted DEF IInv
  <2>2. ~rehashing /\ ~rehashing' /\ now' = now
    BY <1>2, <1>q DEF DeleteTimeout
  <2>3. D!Expire
    BY <2>1, <2>2 DEF D!Expire, D!Fresh
  <2> QED BY <2>3 DEF D!Next
<1>3. ASSUME NEW k \in Keys, Get(k) PROVE UNCHANGED <<Contents, now>>
  <2>1. CASE GetLands(k)
    <3>1. PICK c \in Chain : Lands(k, c) /\ data' = MovedTo(k, c)
      BY <2>1 DEF GetLands
    <3>2. ~rehashing /\ UNCHANGED <<table_size, size, rehashing, now>>
      BY <2>1, <1>q DEF GetLands
    <3>3. InUse(data') = InUse(data)
      BY <3>1, <3>2, LookedUp DEF IInv
    <3> QED BY <3>2, <3>3
  <2>2. CASE GetBeforeArray(k)
    BY <2>2 DEF GetBeforeArray
  <2> QED BY <1>3, <2>1, <2>2 DEF Get
<1>4. ASSUME NEW k \in Keys, NEW v \in Values, PutCall(k, v) PROVE UNCHANGED <<Contents, now>>
  BY <1>4 DEF PutCall
<1>5. CASE PutStores
  <2>1. PICK c \in Chain : Lands(put.key, c) /\ Store(put.key, put.data, now, c)
    BY <1>5 DEF PutStores
  <2>2. put # Idle /\ ~rehashing /\ UNCHANGED <<table_size, rehashing, now>>
    BY <1>5 DEF PutStores, Putting
  <2>3. put.key \in Keys /\ put.data \in Values /\ now \in Nat
    BY <2>2, HashMapAssumption DEF IInv, TypeOK
  <2>4. InUse(data') = {x \in InUse(data) : x.key # put.key}
                         \cup {[key |-> put.key, data |-> put.data, time |-> now]}
    BY <2>1, <2>2, <2>3, Stored DEF IInv
  <2>5. D!Put(put.key, put.data)
    BY <2>2, <2>4 DEF D!Put, D!Others, D!Entry
  <2> QED BY <2>3, <2>5 DEF D!Next
<1>6. CASE PutGrows
  BY <1>6 DEF PutGrows, Putting, Grow
<1>7. CASE PutFails
  BY <1>7 DEF PutFails
<1>8. CASE SkipElement
  BY <1>8 DEF SkipElement, Rehashing
<1>9. CASE MoveElement
  BY <1>9 DEF MoveElement, Rehashing
<1>10. CASE RestartRehash
  BY <1>10 DEF RestartRehash, Rehashing, Grow
<1>11. CASE LoseArray
  BY <1>11 DEF LoseArray, Rehashing
<1>12. CASE EndRehash
  <2>1. rehashing /\ ~rehashing' /\ i \notin DOMAIN old /\ UNCHANGED <<data, now>>
    BY <1>12 DEF EndRehash, Rehashing, Done
  <2>2. PICK n \in Nat : old \in Arrays(n) /\ i \in 0 .. n
    BY DEF IInv, RehashOK, OldSize
  <2>3. DOMAIN old = 0 .. i - 1
    BY <2>1, <2>2 DEF Arrays
  <2>4. InUse(data) = InUse(old)
    BY <2>1, <2>3 DEF IInv, RehashOK, Copied, InUse
  <2> QED BY <2>1, <2>4
<1>13. CASE UNCHANGED vars
  BY <1>13 DEF vars
<1> QED BY <1>1, <1>2, <1>3, <1>4, <1>5, <1>6, <1>7, <1>8, <1>9, <1>10, <1>11,
          <1>12, <1>13 DEF Next, PutStep

LEMMA ImplementsInit == Init => D!Init
<1> SUFFICES ASSUME Init PROVE D!Init
  OBVIOUS
<1>1. DOMAIN data = 0 .. INITIAL_SIZE - 1 /\ \A r \in DOMAIN data : data[r] = Empty
  BY HashMapAssumption DEF Init, EmptyArray
<1>2. InUse(data) = {}
  BY <1>1 DEF InUse
<1>3. Contents = {}
  BY <1>2 DEF Init, Contents
<1> QED BY <1>3 DEF Init, D!Init

(* A hash map of any size is a dictionary until an array is lost for want   *)
(* of memory, and stops there: every step sets an entry, deletes the        *)
(* outdated ones, lets time pass, or changes nothing a caller can count on  *)
(* (hashmap.c:69-152, 181-217, 345-358).                                    *)
THEOREM Implements == Spec => ImplementsDictionary
<1>1. Init => D!Init
  BY ImplementsInit
<1>2. IInv /\ [Next]_vars => [D!Next]_<<Contents, now>>
  BY ImplementsStep
<1> QED BY <1>1, <1>2, Invariant, PTL DEF Spec, ImplementsDictionary, D!Spec

(* Whatever the keys and the size, hashmap_get of a map that is not half    *)
(* full answers with the data of the key, or MAP_MISSING if it has none     *)
(* (hashmap.c:235-258).                                                     *)
THEOREM Answers == Spec => GetAnswers
<1> DEFINE Right(k) ==
      \/ /\ ret'.status = "MAP_OK"
         /\ \E e \in Contents : e.key = k /\ e.data = ret'.data
      \/ ret'.status = "MAP_MISSING" /\ \A e \in Contents : e.key # k
<1>1. IInv => \A k \in Keys : GetLands(k) => Right(k)
  <2> SUFFICES ASSUME IInv, NEW k \in Keys, GetLands(k)
               PROVE  Right(k)
    OBVIOUS
  <2>1. PICK c \in Chain :
          /\ Lands(k, c) /\ data' = MovedTo(k, c)
          /\ Answer(k, data', {At(k, table_size, c + d) : d \in Chain})
    BY DEF GetLands
  <2>2. ~rehashing /\ UNCHANGED <<table_size, size>>
    BY DEF GetLands, Quiet, IInv, RehashOK
  <2>3. /\ data' \in Arrays(table_size) /\ InUse(data') = InUse(data)
        /\ \A x \in InUse(data) : x.key = k => data'[At(k, table_size, c)] = x
    BY <2>1, <2>2, LookedUp DEF IInv
  <2> DEFINE slots == {At(k, table_size, c + d) : d \in Chain}
             holding == {s \in slots : data'[s] # Empty /\ data'[s].key = k}
  <2>4. At(k, table_size, c) \in slots
    <3>1. 0 \in Chain /\ c + 0 = c
      BY HashMapAssumption, ChainNat DEF Chain
    <3> QED BY <3>1
  <2>5. \A s \in slots : s \in DOMAIN data'
    BY <2>3, SlotsInArray DEF IInv, Arrays
  <2>6. \A s \in holding : data'[s] \in InUse(data) /\ data'[s].key = k
    BY <2>3, <2>5 DEF InUse
  <2>7. CASE holding = {}
    <3>1. \A x \in InUse(data) : x.key # k
      <4> SUFFICES ASSUME NEW x \in InUse(data), x.key = k PROVE FALSE
        OBVIOUS
      <4>1. data'[At(k, table_size, c)] = x /\ x # Empty
        BY <2>3 DEF InUse
      <4> QED BY <4>1, <2>4, <2>7
    <3>2. ret'.status = "MAP_MISSING"
      BY <2>1, <2>7 DEF Answer, Returns
    <3> QED BY <3>1, <3>2, <2>2 DEF Contents
  <2>8. CASE holding # {}
    <3>1. PICK s \in holding : Returns(k, "MAP_OK", data'[s].data)
      BY <2>1, <2>8 DEF Answer
    <3>2. ret'.status = "MAP_OK" /\ ret'.data = data'[s].data
      BY <3>1 DEF Returns
    <3> QED BY <3>1, <3>2, <2>6, <2>2 DEF Contents
  <2> QED BY <2>7, <2>8
<1>2. IInv /\ [Next]_vars => [\A k \in Keys : GetLands(k) => Right(k)]_vars
  BY <1>1
<1> QED BY <1>2, Invariant, PTL DEF Spec, GetAnswers
=============================================================================
