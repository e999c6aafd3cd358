------------------------------ MODULE Network ------------------------------
(***************************************************************************)
(* The unicast messages of the motes: DAO messages climb the tree and fill *)
(* the routing tables, DATA messages climb it to a computation mote or the *)
(* root, OPEN messages follow the routing tables down to a valve.  It is   *)
(* runicast_recv of sensor-mote.c, computation-mote.c and root-mote.c with *)
(* the callbacks and the functions of routing.c that send by runicast.     *)
(*                                                                         *)
(* How motes choose parents is module Dodag, which implements the parents  *)
(* that this module rests on, module Uplinks.  A routing table is what     *)
(* module Dictionary says, without its times, and with the failures of     *)
(* module HashMap: hashmap_put may find no memory for a larger array, and  *)
(* hashmap_get misses or misreads entries once the array is half full.     *)
(***************************************************************************)
EXTENDS Naturals, FiniteSets

CONSTANTS
  Motes,       \* the addresses of the motes, root included
  Root,        \* the border router
  Neighbours,  \* Neighbours[m]: the motes in radio range of m
  NoAddr,      \* an address that no mote has
  Null,        \* in place of an address: mote.parent is NULL
  Sensors,     \* the sensor motes; the others are computation motes
  HeapJunk,    \* what the address in a freed parent_t may read as
  MapJunk,     \* the next hops that memory before the array may read as
  INITIAL_SIZE,      \* 16 in the code
  MAX_CHAIN_LENGTH,  \* 7 in the code
  MaxTable,    \* the largest array my_calloc ever finds memory for
  MaxFaults    \* bound on what detaches, restarts or forgets in a behaviour

ASSUME NetworkAssumption ==
  /\ IsFiniteSet(Motes)
  /\ Root \in Motes
  /\ NoAddr \notin Motes
  /\ Null \notin Motes \cup {NoAddr}
  /\ Neighbours \in [Motes -> SUBSET Motes]
  /\ Sensors \subseteq Motes \ {Root}
  /\ HeapJunk \subseteq Motes \cup {NoAddr}
  /\ MapJunk \subseteq Motes \cup {Null}
  /\ INITIAL_SIZE \in Nat \ {0}
  /\ MAX_CHAIN_LENGTH \in 1 .. INITIAL_SIZE
  /\ MaxTable \in Nat /\ MaxTable >= INITIAL_SIZE
  /\ MaxFaults \in Nat

VARIABLES
  in_dodag,  \* mote.in_dodag
  parent,    \* the address read through mote.parent
  stable,    \* TRUE until the first parent timeout or reboot
  table,     \* table[m][x]: the next hop of m towards x, NoAddr if there is none
  size,      \* size[m]: m->size of the table of m
  table_size,  \* table_size[m]: its m->table_size
  sending,   \* the message that the runicast connection of m is transmitting
  faults     \* detached motes, reboots and timeouts of children so far

tree == <<in_dodag, parent, stable>>
maps == <<table, size, table_size>>
vars == <<tree, maps, sending, faults>>

U == INSTANCE Uplinks

Addresses == Motes \cup {NoAddr, Null}
Idle == [type |-> "none", to |-> NoAddr, mote |-> NoAddr]
Messages == [type : {"none", "DAO", "DATA", "OPEN"}, to : Addresses, mote : Addresses]

(* Mutant of NoTable: detach() frees the table and makes no new one.        *)
FreedTable == [x \in {} |-> NoAddr]

NoTable == [x \in Motes |-> NoAddr]

(* hashmap_new *)
NewMap(m) ==
  /\ table' = [table EXCEPT ![m] = NoTable]
  /\ size' = [size EXCEPT ![m] = 0]
  /\ table_size' = [table_size EXCEPT ![m] = INITIAL_SIZE]

Known(m) == {x \in Motes : table[m][x] # NoAddr}

(* hashmap_hash takes the table of m for full, whatever it looks for.       *)
HalfFull(m) == 2 * size[m] >= table_size[m]

(* All the slots that hashmap_hash probes for a new key may be taken.       *)
Crowded(m) == Cardinality(Known(m)) >= MAX_CHAIN_LENGTH

(* hashmap_put finds a slot in the array as it is. *)
Fits(m, x) ==
  /\ ~HalfFull(m)
  /\ size' = IF table[m][x] = NoAddr THEN [size EXCEPT ![m] = @ + 1] ELSE size
  /\ UNCHANGED table_size

(* hashmap_put calls hashmap_rehash, also to update an entry; if the table  *)
(* is only crowded, it may or may not. *)
MustGrow(m, x) == HalfFull(m) \/ (table[m][x] = NoAddr /\ Crowded(m))

(* An array of n slots: twice the slots plus one in each round of the       *)
(* rehash.  It counts anew, without the entries that have timed out. *)
Grows(m, x) ==
  /\ MustGrow(m, x)
  /\ \E n \in table_size[m] + 1 .. MaxTable, rounds \in 1 .. MaxTable :
       /\ n + 1 = (table_size[m] + 1) * 2^rounds
       /\ rounds > 1 => Crowded(m)
       /\ table_size' = [table_size EXCEPT ![m] = n]
  /\ size' = [size EXCEPT ![m] = Cardinality(Known(m) \cup {x})]

(* hashmap_put returns MAP_NEW or MAP_UPDATE. *)
Put(m, x, hop) ==
  /\ table' = [table EXCEPT ![m][x] = hop]
  /\ Fits(m, x) \/ Grows(m, x)

(* What hashmap_get may answer.  When hashmap_hash finds no slot it begins  *)
(* before the array and misses most of it. *)
Lookup(m, x) ==
  IF MustGrow(m, x) THEN {table[m][x], NoAddr} \cup MapJunk ELSE {table[m][x]}

-----------------------------------------------------------------------------
(* runicast_send returns 0 if the last message is not yet acknowledged, and *)
(* no caller looks at what it returns.                                      *)
Send(m, to, type, x) ==
  IF sending[m] = Idle
    THEN [sending EXCEPT ![m] = [type |-> type, to |-> to, mote |-> x]]
    ELSE sending

SendUp(m, type, x) == Send(m, parent[m], type, x)

(* Mutant of SendDown: the next hop is always the parent.                   *)
SendBack(m, x) == sending' = Send(m, parent[m], "OPEN", x)

(* send_OPEN, forward_OPEN *)
SendDown(m, x) ==
  \E hop \in Lookup(m, x) :
    sending' = IF hop = NoAddr THEN sending ELSE Send(m, hop, "OPEN", x)

Init ==
  /\ U!Init
  /\ table = [m \in Motes |-> NoTable]
  /\ size = [m \in Motes |-> 0]
  /\ table_size = [m \in Motes |-> INITIAL_SIZE]
  /\ sending = [m \in Motes |-> Idle]
  /\ faults = 0

-----------------------------------------------------------------------------
(* The part of broadcast_recv that sends a DAO: a first parent, or another. *)
ParentNew(m, p) ==
  /\ sending' = Send(m, p, "DAO", m)
  /\ UNCHANGED <<maps, faults>>
  /\ U!Join(m, p)

ParentChanged(m, p) ==
  /\ sending' = Send(m, p, "DAO", m)
  /\ UNCHANGED <<maps, faults>>
  /\ U!Change(m, p)

DAO_callback(m) ==
  /\ in_dodag[m]
  /\ m # Root
  /\ sending' = SendUp(m, "DAO", m)
  /\ UNCHANGED <<tree, maps, faults>>

data_callback(m) ==
  /\ in_dodag[m]
  /\ m \in Sensors
  /\ sending' = SendUp(m, "DATA", m)
  /\ UNCHANGED <<tree, maps, faults>>

(* The process server_communication gets an OPEN line for x. *)
ServerOpen(x) ==
  /\ SendDown(Root, x)
  /\ UNCHANGED <<tree, maps, faults>>

-----------------------------------------------------------------------------
(* runicast_recv at d.  m goes on transmitting, as the acknowledgement may  *)
(* be lost: d may receive the message again.  d need not be in the DODAG.   *)
Received(m, d, type) ==
  /\ sending[m].type = type
  /\ sending[m].to = d
  /\ d \in Neighbours[m]

(* Mutants of RecvDAO: the motes on the way send a DAO of their own instead *)
(* of forwarding; they forward without recording. *)
RecvDAOSendOwn(m, d) ==
  LET x == sending[m].mote IN
  /\ Received(m, d, "DAO")
  /\ Put(d, x, m)
  /\ sending' = IF d = Root THEN sending ELSE SendUp(d, "DAO", d)
  /\ UNCHANGED <<tree, faults>>
RecvDAOUnrecorded(m, d) ==
  LET x == sending[m].mote IN
  /\ Received(m, d, "DAO")
  /\ IF d = Root THEN Put(d, x, m) ELSE UNCHANGED maps
  /\ sending' = IF d = Root THEN sending ELSE SendUp(d, "DAO", x)
  /\ UNCHANGED <<tree, faults>>

RecvDAO(m, d) ==
  LET x == sending[m].mote IN
  /\ Received(m, d, "DAO")
  /\ Put(d, x, m)
  /\ sending' = IF d = Root THEN sending ELSE SendUp(d, "DAO", x)
  /\ UNCHANGED <<tree, faults>>

(* hashmap_put returns MAP_OMEM: nothing is recorded, and the DAO goes no   *)
(* further. *)
RecvDAOFails(m, d) ==
  /\ Received(m, d, "DAO")
  /\ MustGrow(d, sending[m].mote)
  /\ UNCHANGED vars

(* A computation mote may keep the value, and may then ask for the valve to *)
(* be opened (module Computation).  The root prints it. *)
RecvDATA(m, d) ==
  LET x == sending[m].mote IN
  /\ Received(m, d, "DATA")
  /\ d # Root
  /\ \/ sending' = SendUp(d, "DATA", x)
     \/ d \notin Sensors /\ SendDown(d, x)
  /\ UNCHANGED <<tree, maps, faults>>

(* At its destination an OPEN lights the LED and starts open_timer. *)
RecvOPEN(m, d) ==
  /\ Received(m, d, "OPEN")
  /\ d \notin {Root, sending[m].mote}
  /\ SendDown(d, sending[m].mote)
  /\ UNCHANGED <<tree, maps, faults>>

Recv(m, d) == RecvDAO(m, d) \/ RecvDAOFails(m, d) \/ RecvDATA(m, d) \/ RecvOPEN(m, d)

(* The connection is free again: the message was acknowledged, or given up  *)
(* after MAX_RETRANSMISSIONS. *)
Finish(m) ==
  /\ sending[m] # Idle
  /\ sending' = [sending EXCEPT ![m] = Idle]
  /\ UNCHANGED <<tree, maps, faults>>

-----------------------------------------------------------------------------
(* detach() by the parent timer, or by the parent's INFINITE_RANK. *)
Detach(m) ==
  /\ faults < MaxFaults
  /\ U!Detach(m)
  /\ NewMap(m)
  /\ faults' = faults + 1
  /\ UNCHANGED sending

(* A detached mote allocates memory, possibly over the freed parent_t. *)
SendDIS(m) ==
  /\ U!Allocate(m)
  /\ UNCHANGED <<maps, sending, faults>>

(* The entries that have timed out are deleted: any of them (module         *)
(* Children says which).  m->size stays as it is. *)
children_callback(m) ==
  /\ faults < MaxFaults
  /\ in_dodag[m]
  /\ \E gone \in SUBSET {x \in Motes : table[m][x] # NoAddr} :
       /\ gone # {}
       /\ table' = [table EXCEPT ![m] = [x \in Motes |-> IF x \in gone THEN NoAddr ELSE @[x]]]
  /\ faults' = faults + 1
  /\ UNCHANGED <<tree, size, table_size, sending>>

Reboot(m) ==
  /\ faults < MaxFaults
  /\ U!Reboot(m)
  /\ NewMap(m)
  /\ sending' = [sending EXCEPT ![m] = Idle]
  /\ faults' = faults + 1

-----------------------------------------------------------------------------
Next ==
  \/ \E m, p \in Motes : ParentNew(m, p) \/ ParentChanged(m, p) \/ Recv(m, p)
  \/ \E m \in Motes : DAO_callback(m) \/ data_callback(m) \/ Finish(m)
  \/ \E x \in Sensors : ServerOpen(x)
  \/ \E m \in Motes : Detach(m) \/ SendDIS(m) \/ children_callback(m) \/ Reboot(m)

Spec == Init /\ [][Next]_vars

(* m transmits a DAO of x, which is news to its receiver or makes it        *)
(* enlarge its table.  It gets through if the receiver has the memory to    *)
(* record it and can pass it on. *)
Transmits(m, x) ==
  LET d == sending[m].to IN
  /\ sending[m].type = "DAO"
  /\ sending[m].mote = x
  /\ d \in Neighbours[m]
  /\ d = Root => table[d][x] # m \/ HalfFull(d)
GetsThrough(m, x) ==
  LET d == sending[m].to IN
  /\ Transmits(m, x)
  /\ d = Root \/ sending[d] = Idle
  /\ RecvDAO(m, d)

FairSpec ==
  /\ Spec
  /\ \A m \in Motes : WF_vars(Finish(m))
  /\ \A m, x \in Motes \ {Root} :
       []<>Transmits(m, x) => []<><<GetsThrough(m, x)>>_vars
-----------------------------------------------------------------------------
TypeOK ==
  /\ in_dodag \in [Motes -> BOOLEAN]
  /\ parent \in [Motes -> Addresses]
  /\ stable \in BOOLEAN
  /\ table \in [Motes -> [Motes -> Addresses]]
  /\ size \in [Motes -> Nat]
  /\ table_size \in [Motes -> INITIAL_SIZE .. MaxTable]
  /\ sending \in [Motes -> Messages]
  /\ faults \in 0 .. MaxFaults

(* Until an entry times out or a mote detaches, the next hop of a route is  *)
(* its destination or knows a next hop itself: motes that change parents,   *)
(* connections that drop messages and old DAOs that arrive late leave no    *)
(* route that stops short (sensor-mote.c:184-204, routing.c:176-195).       *)
HopsKnow ==
  faults = 0 =>
    \A m, x \in Motes :
      table[m][x] \notin {NoAddr, x} => table[table[m][x]][x] # NoAddr

(* The table of m has its first array, no half of it taken, and no chain.   *)
Roomy(m) == table_size[m] = INITIAL_SIZE /\ ~HalfFull(m) /\ ~Crowded(m)

(* Where an OPEN goes.  Unless it was read before the array of a crowded    *)
(* table, its next hop is a mote that had the sender as a neighbour, and    *)
(* never the root, which would take it for an unknown message.  And until   *)
(* the first fault, as long as all tables are roomy, that mote can send it  *)
(* on: forward_OPEN finds a next hop (root-mote.c:119, routing.c:256-285).  *)
OpenFindsHop ==
  \A m \in Motes :
    sending[m].type = "OPEN" =>
      LET d == sending[m].to  x == sending[m].mote IN
      /\ d \in MapJunk \/ (d \in Motes \ {Root} /\ m \in Neighbours[d])
      /\ faults = 0 /\ (\A n \in Motes : Roomy(n)) /\ d # x => table[d][x] # NoAddr

(* The motes that the routing tables name one after the other from m to x.  *)
Route(m, x) ==
  {y \in Motes : \A S \in SUBSET Motes :
     m \in S /\ (\A z \in S \ {x} : table[z][x] \in S \cup {NoAddr}) => y \in S}
Routed ==
  \A x \in Motes : in_dodag[x] =>
    /\ x \in Route(Root, x)
    /\ \A y \in Route(Root, x) \ {x} : Lookup(y, x) = {table[y][x]}

Settles == <>[][UNCHANGED tree]_vars /\ <>[]U!T!UnderRoot
KeepSending == \A x \in Motes \ {Root} : []<><<DAO_callback(x)>>_vars

(* Once parents have settled in a tree under the root, and as long as motes *)
(* find their connection free to send DAOs and memory for their tables, the *)
(* routing tables repair themselves: whatever stale entries, loops, deleted *)
(* entries and half full arrays earlier parent changes, timeouts and        *)
(* reboots have left, the root gets and keeps a route to every mote that    *)
(* each mote on it reads without error (sensor-mote.c:84-90, 184-204,       *)
(* hashmap.c:190-202).                                                      *)
RoutesLearned == Settles /\ KeepSending => <>[]Routed
=============================================================================
