------------------------------ MODULE HashMap ------------------------------
(***************************************************************************)
(* The routing table of a mote: the linear-probing hash map of             *)
(* src/mote/hashmap.c.  A call that has to enlarge the table takes several *)
(* steps here, one per element rehashed, and nothing else happens to the   *)
(* map until it returns.                                                   *)
(***************************************************************************)
EXTENDS Integers, FiniteSets

CONSTANTS
  Keys,              \* destination addresses, as uint16_t
  Values,            \* next-hop addresses
  Empty,             \* a slot with in_use = 0
  Idle,              \* no hashmap_put is under way
  INITIAL_SIZE,      \* 16 in the code
  MAX_CHAIN_LENGTH,  \* 7 in the code
  TIMEOUT_CHILDREN,  \* 150 s in the code
  MaxTable,          \* the largest array my_calloc ever finds memory for
  MaxTime            \* bound on the clock

ASSUME HashMapAssumption ==
  /\ Keys \subseteq Nat
  /\ INITIAL_SIZE \in Nat \ {0}
  /\ MAX_CHAIN_LENGTH \in 1 .. INITIAL_SIZE
  /\ TIMEOUT_CHILDREN \in Nat
  /\ MaxTable \in Nat /\ MaxTable >= INITIAL_SIZE
  /\ MaxTime \in Nat
  /\ Empty \notin [key : Keys, data : Values, time : Nat]
  /\ Idle \notin [key : Keys, data : Values]

VARIABLES
  data,        \* m->data
  table_size,  \* m->table_size
  size,        \* m->size
  put,         \* the hashmap_put under way
  rehashing,   \* TRUE during hashmap_rehash
  old,         \* the array it started from
  i,           \* the next element of old
  lost,        \* TRUE once m->data points to freed memory
  now,         \* clock_seconds()
  ret          \* the last call that returned and its result

vars == <<data, table_size, size, put, rehashing, old, i, lost, now, ret>>

Entries == [key : Keys, data : Values, time : Nat]
Results == {"MAP_OK", "MAP_NEW", "MAP_UPDATE", "MAP_MISSING", "MAP_OMEM"}

-----------------------------------------------------------------------------
(* Probing for key k in array t of n slots.  Steps 0 .. MAX_CHAIN_LENGTH-1. *)
Chain == 0 .. MAX_CHAIN_LENGTH - 1
At(k, n, c) == (k + c) % n
Vacant(t, n, k) == {c \in Chain : t[At(k, n, c)] = Empty}
Hits(t, n, k) ==
  {c \in Chain : t[At(k, n, c)] # Empty /\ t[At(k, n, c)].key = k}
IsFirst(c, C) == c \in C /\ \A d \in C : c <= d

(* The map is "full" for hashmap_hash, whatever the key. *)
HalfFull == 2 * size >= table_size

(* hashmap_hash succeeds with step c: the first that is vacant or holds k.  *)
Lands(k, c) ==
  ~HalfFull /\ IsFirst(c, Vacant(data, table_size, k) \cup Hits(data, table_size, k))

(* hashmap_hash returns MAP_FULL *)
MapFull(k) ==
  HalfFull \/ Vacant(data, table_size, k) \cup Hits(data, table_size, k) = {}

(* Mutant of MovedTo: the entry found further on stays there too.           *)
NotMoved(k, c) == data

(* The array once hashmap_hash has landed on step c: an entry for k found   *)
(* further on has moved there. *)
MovedTo(k, c) ==
  LET there(h) == At(k, table_size, h) IN
  IF Hits(data, table_size, k) = {} THEN data
  ELSE LET h == CHOOSE h \in Chain : IsFirst(h, Hits(data, table_size, k)) IN
       [[data EXCEPT ![there(h)] = Empty] EXCEPT ![there(c)] = data[there(h)]]

(* Mutant of Store: m->size is not incremented. *)
StoreUncounted(k, v, t, c) ==
  /\ data' = [MovedTo(k, c) EXCEPT ![At(k, table_size, c)] =
                [key |-> k, data |-> v, time |-> t]]
  /\ UNCHANGED size

(* The element is stored in the slot that hashmap_hash chose. *)
Store(k, v, t, c) ==
  /\ data' = [MovedTo(k, c) EXCEPT ![At(k, table_size, c)] =
                [key |-> k, data |-> v, time |-> t]]
  /\ size' = IF Hits(data, table_size, k) = {} THEN size + 1 ELSE size

-----------------------------------------------------------------------------
(* hashmap_new *)
EmptyArray(n) == [s \in 0 .. n - 1 |-> Empty]
NoResult == [key |-> 0, status |-> "MAP_OK", data |-> Empty]

Init ==
  /\ data = EmptyArray(INITIAL_SIZE)
  /\ table_size = INITIAL_SIZE
  /\ size = 0
  /\ put = Idle
  /\ rehashing = FALSE
  /\ old = EmptyArray(0)
  /\ i = 0
  /\ lost = FALSE
  /\ now = 0
  /\ ret = NoResult

Returns(k, status, v) == ret' = [key |-> k, status |-> status, data |-> v]
Quiet == put = Idle /\ ~lost

Tick ==
  /\ Quiet
  /\ now < MaxTime
  /\ now' = now + 1
  /\ UNCHANGED <<data, table_size, size, put, rehashing, old, i, lost, ret>>

(* hashmap_put is called: hashmap_hash is about to look for a slot. *)
PutCall(k, v) ==
  /\ Quiet
  /\ put' = [key |-> k, data |-> v]
  /\ ret' = NoResult
  /\ UNCHANGED <<data, table_size, size, rehashing, old, i, lost, now>>

Putting == put # Idle /\ ~rehashing
Rehashing == put # Idle /\ rehashing

(* hashmap_put_int finds a slot and returns. *)
PutStores ==
  /\ Putting
  /\ \E c \in Chain : Lands(put.key, c) /\ Store(put.key, put.data, now, c)
  /\ Returns(put.key, IF Hits(data, table_size, put.key) = {} THEN "MAP_NEW"
                      ELSE "MAP_UPDATE", put.data)
  /\ put' = Idle
  /\ UNCHANGED <<table_size, rehashing, old, i, lost, now>>

(* Mutants of Grow: one slot too few; a fresh array of the same size.       *)
GrowTooSmall(array) ==
  /\ data' = EmptyArray(2 * table_size)
  /\ table_size' = 2 * table_size + 1
  /\ size' = 0 /\ rehashing' = TRUE /\ old' = array /\ i' = 0
  /\ UNCHANGED <<put, lost, now, ret>>
GrowNot(array) ==
  /\ data' = EmptyArray(table_size)
  /\ size' = 0 /\ rehashing' = TRUE /\ old' = array /\ i' = 0
  /\ UNCHANGED <<table_size, put, lost, now, ret>>

(* One round of hashmap_rehash: a fresh array of twice the slots plus one.  *)
Grow(array) ==
  /\ data' = EmptyArray(2 * table_size + 1)
  /\ table_size' = 2 * table_size + 1
  /\ size' = 0
  /\ rehashing' = TRUE
  /\ old' = array
  /\ i' = 0
  /\ UNCHANGED <<put, lost, now, ret>>

CanAlloc == 2 * table_size + 1 <= MaxTable

(* hashmap_put_int finds no slot and calls hashmap_rehash. *)
PutGrows ==
  /\ Putting
  /\ MapFull(put.key)
  /\ CanAlloc
  /\ Grow(data)

(* The first round finds no memory: the map is as before, the call fails.   *)
PutFails ==
  /\ Putting
  /\ MapFull(put.key)
  /\ Returns(put.key, "MAP_OMEM", put.data)
  /\ put' = Idle
  /\ UNCHANGED <<data, table_size, size, rehashing, old, i, lost, now>>

(* hashmap_fill_rehash at the next element of the old array *)
Done == i \notin DOMAIN old

SkipElement ==
  /\ Rehashing /\ ~Done
  /\ old[i] = Empty
  /\ i' = i + 1
  /\ UNCHANGED <<data, table_size, size, put, rehashing, old, lost, now, ret>>

MoveElement ==
  /\ Rehashing /\ ~Done
  /\ old[i] # Empty
  /\ \E c \in Chain :
       Lands(old[i].key, c) /\ Store(old[i].key, old[i].data, old[i].time, c)
  /\ i' = i + 1
  /\ UNCHANGED <<table_size, put, rehashing, old, lost, now, ret>>

(* The element does not fit: another round, with a larger array. *)
RestartRehash ==
  /\ Rehashing /\ ~Done
  /\ old[i] # Empty
  /\ MapFull(old[i].key)
  /\ CanAlloc
  /\ Grow(old)

(* Another round, but no memory: m->data is left pointing to the array that *)
(* the previous round freed. *)
LoseArray ==
  /\ Rehashing /\ ~Done
  /\ old[i] # Empty
  /\ MapFull(old[i].key)
  /\ lost' = TRUE
  /\ Returns(put.key, "MAP_OMEM", put.data)
  /\ put' = Idle
  /\ UNCHANGED <<data, table_size, size, rehashing, old, i, now>>

(* The old array is freed and hashmap_put_int tries again. *)
EndRehash ==
  /\ Rehashing /\ Done
  /\ rehashing' = FALSE
  /\ old' = EmptyArray(0)
  /\ i' = 0
  /\ UNCHANGED <<data, table_size, size, put, lost, now, ret>>

-----------------------------------------------------------------------------
(* Mutant of Answer: the key is not compared. *)
AnswerAny(k, array, Slots) ==
  LET holding == {s \in Slots : array[s] # Empty} IN
  IF holding = {} THEN Returns(k, "MAP_MISSING", Empty)
  ELSE \E s \in holding : Returns(k, "MAP_OK", array[s].data)

(* hashmap_get looks for k once more, from slot s on; the result.           *)
Answer(k, array, Slots) ==
  LET holding == {s \in Slots : array[s] # Empty /\ array[s].key = k} IN
  IF holding = {} THEN Returns(k, "MAP_MISSING", Empty)
  ELSE \E s \in holding : Returns(k, "MAP_OK", array[s].data)

(* hashmap_hash found a slot, and MAX_CHAIN_LENGTH slots from there on are  *)
(* searched. *)
GetLands(k) ==
  /\ Quiet
  /\ \E c \in Chain :
       /\ Lands(k, c)
       /\ data' = MovedTo(k, c)
       /\ Answer(k, data', {At(k, table_size, c + d) : d \in Chain})
  /\ UNCHANGED <<table_size, size, put, rehashing, old, i, lost, now>>

(* hashmap_hash returned MAP_FULL, -2, which becomes the first index: two   *)
(* elements before the array, whatever is there, then the first             *)
(* MAX_CHAIN_LENGTH - 2 slots are searched. *)
GetBeforeArray(k) ==
  /\ Quiet
  /\ MapFull(k)
  /\ \/ \E v \in Values : Returns(k, "MAP_OK", v)
     \/ Answer(k, data, 0 .. MAX_CHAIN_LENGTH - 3)
  /\ UNCHANGED <<data, table_size, size, put, rehashing, old, i, lost, now>>

Get(k) == GetLands(k) \/ GetBeforeArray(k)

(* Mutant of DeleteTimeout: an entry is deleted one second early.           *)
DeleteEarly ==
  /\ Quiet
  /\ data' = [s \in DOMAIN data |->
                IF data[s] # Empty /\ now >= data[s].time + TIMEOUT_CHILDREN
                  THEN Empty ELSE data[s]]
  /\ UNCHANGED <<table_size, size, put, rehashing, old, i, lost, now, ret>>

(* hashmap_delete_timeout.  m->size stays as it is. *)
DeleteTimeout ==
  /\ Quiet
  /\ data' = [s \in DOMAIN data |->
                IF data[s] # Empty /\ now > data[s].time + TIMEOUT_CHILDREN
                  THEN Empty ELSE data[s]]
  /\ UNCHANGED <<table_size, size, put, rehashing, old, i, lost, now, ret>>

PutStep == PutStores \/ PutGrows \/ PutFails \/ SkipElement \/ MoveElement
             \/ RestartRehash \/ LoseArray \/ EndRehash

Next ==
  \/ Tick \/ DeleteTimeout
  \/ \E k \in Keys : Get(k) \/ \E v \in Values : PutCall(k, v)
  \/ PutStep

Spec == Init /\ [][Next]_vars

(* A call that has begun runs to its end. *)
FairSpec == Spec /\ WF_vars(PutStep)
-----------------------------------------------------------------------------
InUse(t) == {t[s] : s \in DOMAIN t} \ {Empty}
Arrays(n) == [0 .. n - 1 -> Entries \cup {Empty}]

TypeOK ==
  /\ table_size \in Nat \ {0}
  /\ data \in Arrays(table_size)
  /\ size \in Nat
  /\ put \in [key : Keys, data : Values] \cup {Idle}
  /\ rehashing \in BOOLEAN
  /\ old \in Arrays(Cardinality(DOMAIN old))
  /\ i \in Nat
  /\ lost \in BOOLEAN
  /\ now \in 0 .. MaxTime
  /\ ret \in [key : Keys \cup {0}, status : Results, data : Values \cup {Empty}]

(* Every entry is where probing for its key can find it, and no key is in   *)
(* the array twice, through any sequence of collisions, moves closer,       *)
(* timeouts and rehashes (hashmap.c:46-62). *)
Findable ==
  \A s \in DOMAIN data : data[s] # Empty =>
    /\ \E c \in Chain : s = At(data[s].key, table_size, c)
    /\ \A t \in DOMAIN data :
         data[t] # Empty /\ data[t].key = data[s].key => s = t

(* m->size never counts less than what the array holds, and at least about  *)
(* half of the slots are vacant, so that probing meets vacant slots         *)
(* (hashmap.c:34, 207, 352). *)
InUseSlots == {s \in DOMAIN data : data[s] # Empty}
HalfVacant ==
  /\ Cardinality(InUseSlots) <= size
  /\ 2 * Cardinality(InUseSlots) <= table_size + 1

(* The entries a caller can count on: those of the array being rehashed     *)
(* until the new one is complete. *)
Contents == IF rehashing THEN InUse(old) ELSE InUse(data)
D == INSTANCE Dictionary WITH entries <- Contents

(* Until an array is lost for want of memory the hash map is a dictionary:  *)
(* hashmap_put sets one entry and keeps all others, a rehash loses and      *)
(* doubles none, a lookup changes nothing, and only outdated entries are    *)
(* deleted (hashmap.c:69-152, 181-217, 345-358). *)
ImplementsDictionary == D!Spec

(* As long as the map is not taken for full, hashmap_get returns the data   *)
(* of the key, or MAP_MISSING if it has none (hashmap.c:235-258).           *)
GetAnswers ==
  [][\A k \in Keys : GetLands(k) =>
       \/ /\ ret'.status = "MAP_OK"
          /\ \E e \in Contents : e.key = k /\ e.data = ret'.data
       \/ ret'.status = "MAP_MISSING" /\ \A e \in Contents : e.key # k]_vars

(* hashmap_put returns: the loop that rehashes until a slot is found ends,  *)
(* at the latest when memory runs out (hashmap.c:190-202). *)
PutReturns == put # Idle ~> put = Idle

-----------------------------------------------------------------------------
(* What the comments say, and the code does not do. *)

(* A key that is in the map is found: "MAP_OK if a value with the given key *)
(* exists, MAP_MISSING otherwise" (hashmap.h:125). *)
GetFindsPresent ==
  [][\A k \in Keys : Get(k) /\ (\E e \in Contents : e.key = k)
       => ret'.status = "MAP_OK" /\ \E e \in Contents : e.key = k /\ e.data = ret'.data]_vars

=============================================================================
