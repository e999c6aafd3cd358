--------------------------- MODULE NetworkProofs ---------------------------
(***************************************************************************)
(* Proofs about Network, for any motes, radio ranges, sensors, arrays and  *)
(* number of faults: the type invariant, that until the first fault routes *)
(* do not stop short and OPEN messages find their next hop as long as all  *)
(* tables are roomy, which they stay in a network of few motes; that the   *)
(* parents are those of Uplinks, which Dodag implements, and so that what  *)
(* a mote sends to its parent climbs to the root until the first parent    *)
(* timeout or reboot.  The inductive invariant adds where entries and      *)
(* messages come from.                                                     *)
(***************************************************************************)
EXTENDS Network, FiniteSetTheorems, TLAPS

(* An entry, or an OPEN on its way, leads from m to a mote that is not the  *)
(* root and that m is in range of. *)
Leads(m, d) == d \in Motes \ {Root} /\ m \in Neighbours[d]

EntriesLead ==
  \A m, x \in Motes : table[m][x] # NoAddr => x # Root /\ Leads(m, table[m][x])

(* Nothing has failed, and hashmap_get answers what the tables say. *)
Calm == faults = 0 /\ \A m \in Motes : Roomy(m)

(* m is x, or can pass on what is meant for x. *)
Knows(m, x) == m # x => table[m][x] # NoAddr

(* What message s, when m sends it, says of tables. *)
MessageOK(m, s) ==
  /\ s.type # "none" => s.mote \in Motes
  /\ s.type = "DAO" =>
       m # Root /\ s.mote # Root /\ (faults = 0 => Knows(m, s.mote))
  /\ s.type = "OPEN" =>
       /\ s.to \in MapJunk \/ Leads(m, s.to)
       /\ Calm => Leads(m, s.to) /\ Knows(s.to, s.mote)

IInv ==
  /\ TypeOK
  /\ in_dodag[Root]
  /\ faults = 0 => stable
  /\ EntriesLead
  /\ HopsKnow
  /\ \A m \in Motes : MessageOK(m, sending[m])

-----------------------------------------------------------------------------
(* A step without a fault keeps entries, and makes no table roomy. *)
Keeps ==
  /\ Calm' => Calm
  /\ faults' = 0 =>
       faults = 0 /\ \A d, x \in Motes : table[d][x] # NoAddr => table'[d][x] # NoAddr

LEMMA IdleOK == ASSUME NEW m \in Motes PROVE MessageOK(m, Idle)
BY DEF MessageOK, Idle

(* What runicast_send leaves on the connections. *)
LEMMA SendAdds ==
  ASSUME TypeOK, NEW m \in Motes, NEW to \in Addresses,
         NEW type \in {"DAO", "DATA", "OPEN"}, NEW x \in Motes,
         sending' = Send(m, to, type, x)
  PROVE  /\ sending' \in [Motes -> Messages]
         /\ \A n \in Motes :
              \/ sending'[n] = sending[n]
              \/ n = m /\ sending'[n] = [type |-> type, to |-> to, mote |-> x]
<1>1. [type |-> type, to |-> to, mote |-> x] \in Messages
  BY DEF Messages, Addresses
<1> QED BY <1>1 DEF Send, TypeOK

LEMMA RoomyExact ==
  ASSUME NEW m \in Motes, NEW x \in Motes, Roomy(m)
  PROVE  Lookup(m, x) = {table[m][x]}
BY DEF Roomy, Lookup, MustGrow

(* What send_OPEN and forward_OPEN leave on the connections of a mote.      *)
LEMMA SendDownAdds ==
  ASSUME IInv, NEW m \in Motes, NEW x \in Motes, SendDown(m, x)
  PROVE  /\ sending' \in [Motes -> Messages]
         /\ \A n \in Motes : sending'[n] = sending[n] \/ MessageOK(n, sending'[n])
<1>1. PICK d \in Lookup(m, x) :
        sending' = IF d = NoAddr THEN sending ELSE Send(m, d, "OPEN", x)
  BY DEF SendDown
<1>2. CASE d = NoAddr
  BY <1>1, <1>2 DEF IInv, TypeOK
<1>3. CASE d # NoAddr
  <2> DEFINE open == [type |-> "OPEN", to |-> d, mote |-> x]
  <2>1. d \in MapJunk \/ d = table[m][x]
    BY <1>1, <1>3 DEF Lookup
  <2>2. d = table[m][x] => Leads(m, d) /\ (faults = 0 => Knows(d, x))
    BY <1>3 DEF IInv, EntriesLead, HopsKnow, Knows
  <2>3. Calm => d = table[m][x]
    BY <1>1, RoomyExact DEF Calm
  <2>4. MessageOK(m, open)
    BY <2>1, <2>2, <2>3 DEF MessageOK, Calm
  <2>5. d \in Addresses /\ sending' = Send(m, d, "OPEN", x)
    BY <1>1, <1>3, <2>1, <2>2, NetworkAssumption DEF Leads, Addresses
  <2> QED BY <2>4, <2>5, SendAdds DEF IInv
<1> QED BY <1>2, <1>3

(* The invariant's part about messages, from what a step sends.             *)
LEMMA MessagesStay ==
  ASSUME IInv, Keeps,
         \A n \in Motes : \/ sending'[n] = sending[n]
                          \/ MessageOK(n, sending'[n])
                          \/ MessageOK(n, sending[n])'
  PROVE  \A m \in Motes : MessageOK(m, sending[m])'
<1> SUFFICES ASSUME NEW m \in Motes PROVE MessageOK(m, sending[m])'
  OBVIOUS
<1> DEFINE s == sending'[m]
<1>1. CASE MessageOK(m, sending[m])'
  BY <1>1
<1>4. Calm' => faults' = 0
  BY DEF Calm
<1>2. CASE MessageOK(m, s)
  BY <1>2, <1>4 DEF MessageOK, Keeps, Knows, Leads
<1>3. CASE sending'[m] = sending[m]
  BY <1>3, <1>4 DEF IInv, MessageOK, Keeps, Knows, Leads
<1> QED BY <1>1, <1>2, <1>3

LEMMA SameTables ==
  ASSUME IInv, UNCHANGED <<maps, faults>>
  PROVE  Keeps /\ EntriesLead' /\ HopsKnow'
<1>1. UNCHANGED <<table, size, table_size, faults>>
  BY DEF maps
<1>2. Calm' => Calm
  BY <1>1 DEF Calm, Roomy, HalfFull, Crowded, Known
<1> QED BY <1>1, <1>2 DEF IInv, Keeps, EntriesLead, Leads, HopsKnow

LEMMA AfterFault ==
  ASSUME IInv, faults' = faults + 1
  PROVE  Keeps /\ HopsKnow'
BY DEF IInv, TypeOK, Keeps, HopsKnow, Calm

-----------------------------------------------------------------------------
(* The motes that a table has entries for. *)
LEMMA KnownFinite ==
  ASSUME NEW m \in Motes
  PROVE  IsFiniteSet(Known(m)) /\ Cardinality(Known(m)) \in Nat
<1>1. Known(m) \in SUBSET Motes
  BY DEF Known
<1> QED BY <1>1, NetworkAssumption, FS_Subset, FS_CardinalityType

(* hashmap_put: one entry is new or changed, the counts keep their types,   *)
(* and no table becomes roomy. *)
LEMMA PutStep ==
  ASSUME TypeOK, NEW d \in Motes, NEW x \in Motes, NEW hop \in Motes, Put(d, x, hop)
  PROVE  /\ table' \in [Motes -> [Motes -> Addresses]]
         /\ size' \in [Motes -> Nat]
         /\ table_size' \in [Motes -> INITIAL_SIZE .. MaxTable]
         /\ \A n, y \in Motes :
              table'[n][y] = IF n = d /\ y = x THEN hop ELSE table[n][y]
         /\ \A n \in Motes : Known(n)' = IF n = d THEN Known(n) \cup {x} ELSE Known(n)
         /\ \A n \in Motes : Roomy(n)' => Roomy(n)
<1> USE NetworkAssumption
<1>1. /\ table' = [table EXCEPT ![d][x] = hop]
      /\ table \in [Motes -> [Motes -> Addresses]]
      /\ size \in [Motes -> Nat]
      /\ table_size \in [Motes -> INITIAL_SIZE .. MaxTable]
      /\ hop \in Addresses /\ hop # NoAddr
  BY DEF Put, TypeOK, Addresses
<1>2. table' \in [Motes -> [Motes -> Addresses]]
  BY <1>1
<1>3. \A n, y \in Motes :
        table'[n][y] = IF n = d /\ y = x THEN hop ELSE table[n][y]
  BY <1>1
<1>4. \A n \in Motes : Known(n)' = IF n = d THEN Known(n) \cup {x} ELSE Known(n)
  BY <1>1, <1>3 DEF Known
<1>5. \A n \in Motes : n # d => size'[n] = size[n] /\ table_size'[n] = table_size[n]
  BY <1>1 DEF Put, Fits, Grows
<1>6. /\ size' \in [Motes -> Nat]
      /\ table_size' \in [Motes -> INITIAL_SIZE .. MaxTable]
      /\ \/ size'[d] >= size[d] /\ table_size'[d] = table_size[d]
         \/ table_size'[d] > table_size[d]
  <2>1. CASE Fits(d, x)
    BY <1>1, <2>1 DEF Fits
  <2>2. CASE Grows(d, x)
    <3>1. PICK n \in table_size[d] + 1 .. MaxTable : table_size' = [table_size EXCEPT ![d] = n]
      BY <2>2 DEF Grows
    <3>2. Cardinality(Known(d) \cup {x}) \in Nat
      BY KnownFinite, FS_AddElement, FS_CardinalityType
    <3> QED BY <1>1, <2>2, <3>1, <3>2 DEF Grows
  <2> QED BY <2>1, <2>2 DEF Put
<1>7. \A n \in Motes : /\ Cardinality(Known(n)) <= Cardinality(Known(n)')
                       /\ Cardinality(Known(n)') \in Nat
  <2> SUFFICES ASSUME NEW n \in Motes
               PROVE  /\ Cardinality(Known(n)) <= Cardinality(Known(n)')
                      /\ Cardinality(Known(n)') \in Nat
    OBVIOUS
  <2> DEFINE K == Known(n)'
  <2>1. Known(n) \in SUBSET K /\ K \in SUBSET Motes
    BY <1>4 DEF Known
  <2> HIDE DEF K
  <2>2. IsFiniteSet(K)
    BY <2>1, FS_Subset
  <2>3. Cardinality(Known(n)) <= Cardinality(K) /\ Cardinality(K) \in Nat
    BY <2>1, <2>2, FS_Subset, FS_CardinalityType
  <2> QED BY <2>3 DEF K
<1>8. ASSUME NEW n \in Motes, Roomy(n)' PROVE Roomy(n)
  <2>1. /\ table_size'[n] = INITIAL_SIZE
        /\ ~(2 * size'[n] >= table_size'[n])
        /\ ~(Cardinality(Known(n)') >= MAX_CHAIN_LENGTH)
    BY <1>8 DEF Roomy, HalfFull, Crowded
  <2>2. table_size[n] = INITIAL_SIZE /\ size'[n] >= size[n]
    BY <1>1, <1>5, <1>6, <2>1
  <2>3. Cardinality(Known(n)) \in Nat /\ Cardinality(Known(n)') \in Nat
    BY <1>7, KnownFinite
  <2>4. size[n] \in Nat /\ size'[n] \in Nat /\ INITIAL_SIZE \in Nat
    BY <1>1, <1>6
  <2>5. ~HalfFull(n)
    BY <2>1, <2>2, <2>4 DEF HalfFull
  <2>6. ~Crowded(n)
    BY <1>7, <2>1, <2>3 DEF Crowded
  <2> QED BY <2>2, <2>5, <2>6 DEF Roomy
<1> QED BY <1>2, <1>3, <1>4, <1>6, <1>8

-----------------------------------------------------------------------------
LEMMA InitInv == Init => IInv
<1> SUFFICES ASSUME Init PROVE IInv
  OBVIOUS
<1>1. Idle \in Messages /\ NoTable \in [Motes -> Addresses]
  BY DEF Idle, Messages, NoTable, Addresses
<1>2. TypeOK
  BY <1>1, NetworkAssumption DEF Init, U!Init, TypeOK, Addresses
<1>3. EntriesLead /\ HopsKnow
  BY DEF Init, NoTable, EntriesLead, HopsKnow
<1>4. \A m \in Motes : MessageOK(m, sending[m])
  BY IdleOK DEF Init
<1> QED BY <1>2, <1>3, <1>4, NetworkAssumption DEF Init, U!Init, IInv

(* A parent is taken and told, by DIO (broadcast_recv). *)
LEMMA ParentStep ==
  ASSUME IInv, NEW m \in Motes \ {Root}, NEW p \in Motes,
         sending' = Send(m, p, "DAO", m),
         in_dodag' \in [Motes -> BOOLEAN], in_dodag'[Root],
         parent' \in [Motes -> Addresses],
         UNCHANGED <<maps, faults, stable>>
  PROVE  IInv'
<1>1. /\ sending' \in [Motes -> Messages]
      /\ \A n \in Motes :
           \/ sending'[n] = sending[n]
           \/ n = m /\ sending'[n] = [type |-> "DAO", to |-> p, mote |-> m]
  BY SendAdds DEF IInv, Addresses
<1>2. MessageOK(m, [type |-> "DAO", to |-> p, mote |-> m])
  BY DEF MessageOK, Knows
<1>3. \A n \in Motes : MessageOK(n, sending[n])'
  BY <1>1, <1>2, SameTables, MessagesStay
<1> QED BY <1>1, <1>3, SameTables DEF IInv, TypeOK, maps

(* Only the connections change, by messages that are OK. *)
LEMMA SendStep ==
  ASSUME IInv, UNCHANGED <<tree, maps, faults>>,
         sending' \in [Motes -> Messages],
         \A n \in Motes : sending'[n] = sending[n] \/ MessageOK(n, sending'[n])
  PROVE  IInv'
<1>1. \A n \in Motes : MessageOK(n, sending[n])'
  BY SameTables, MessagesStay
<1> QED BY <1>1, SameTables DEF IInv, TypeOK, tree, maps

(* A message about x sent to the parent. *)
LEMMA SendUpStep ==
  ASSUME IInv, UNCHANGED <<tree, maps, faults>>,
         NEW m \in Motes, NEW x \in Motes, NEW type \in {"DAO", "DATA"},
         type = "DAO" => m = x /\ m # Root,
         sending' = SendUp(m, type, x)
  PROVE  IInv'
<1> DEFINE s == [type |-> type, to |-> parent[m], mote |-> x]
<1>1. MessageOK(m, s)
  BY DEF MessageOK, Knows
<1>2. parent[m] \in Addresses
  BY DEF IInv, TypeOK
<1>3. /\ sending' \in [Motes -> Messages]
      /\ \A n \in Motes : sending'[n] = sending[n] \/ (n = m /\ sending'[n] = s)
  BY <1>2, SendAdds DEF SendUp, IInv
<1> QED BY <1>1, <1>3, SendStep

(* After a fault only what entries name and what messages say is left.      *)
LEMMA FaultStep ==
  ASSUME IInv, faults < MaxFaults, faults' = faults + 1,
         in_dodag' \in [Motes -> BOOLEAN], in_dodag'[Root],
         parent' \in [Motes -> Addresses], stable' \in BOOLEAN,
         table' \in [Motes -> [Motes -> Addresses]], EntriesLead',
         size' \in [Motes -> Nat], table_size' \in [Motes -> INITIAL_SIZE .. MaxTable],
         sending' \in [Motes -> Messages],
         \A n \in Motes : sending'[n] = sending[n] \/ MessageOK(n, sending'[n])
  PROVE  IInv'
<1>1. \A n \in Motes : MessageOK(n, sending[n])'
  BY AfterFault, MessagesStay
<1>2. faults' \in 0 .. MaxFaults
  BY NetworkAssumption DEF IInv, TypeOK
<1> QED BY <1>1, <1>2, AfterFault DEF IInv, TypeOK, Keeps

(* detach() and a reboot: m gets a new routing table. *)
LEMMA NewTable ==
  ASSUME IInv, NEW m \in Motes, NewMap(m)
  PROVE  /\ table' \in [Motes -> [Motes -> Addresses]] /\ EntriesLead'
         /\ size' \in [Motes -> Nat]
         /\ table_size' \in [Motes -> INITIAL_SIZE .. MaxTable]
<1>1. NoTable \in [Motes -> Addresses] /\ \A x \in Motes : NoTable[x] = NoAddr
  BY DEF NoTable, Addresses
<1>2. /\ table \in [Motes -> [Motes -> Addresses]]
      /\ table' = [table EXCEPT ![m] = NoTable]
  BY DEF IInv, TypeOK, NewMap
<1>3. table' \in [Motes -> [Motes -> Addresses]]
  BY <1>1, <1>2
<1>4. \A n, x \in Motes : table'[n][x] \in {table[n][x], NoAddr}
  BY <1>1, <1>2
<1>5. size' \in [Motes -> Nat] /\ table_size' \in [Motes -> INITIAL_SIZE .. MaxTable]
  BY NetworkAssumption DEF IInv, TypeOK, NewMap
<1> QED BY <1>3, <1>4, <1>5 DEF IInv, EntriesLead, Leads

(* A DAO of x, sent by m, arrives at d. *)
LEMMA DAOStep ==
  ASSUME IInv, NEW m \in Motes, NEW d \in Motes, RecvDAO(m, d)
  PROVE  IInv'
<1> DEFINE x == sending[m].mote
           s == [type |-> "DAO", to |-> parent[d], mote |-> x]
<1>1. /\ x \in Motes /\ x # Root /\ m # Root /\ Leads(d, m)
      /\ faults = 0 => Knows(m, x)
  BY DEF RecvDAO, Received, IInv, MessageOK, Leads
<1>2. Put(d, x, m) /\ UNCHANGED <<tree, faults>>
  BY DEF RecvDAO
<1>3. /\ \A n, y \in Motes :
           table'[n][y] = IF n = d /\ y = x THEN m ELSE table[n][y]
      /\ \A n \in Motes : Roomy(n)' => Roomy(n)
  BY <1>1, <1>2, PutStep DEF IInv
<1>4. m # NoAddr /\ m \in Addresses /\ NoAddr \notin Motes
  BY NetworkAssumption DEF Addresses
<1>5. /\ table' \in [Motes -> [Motes -> Addresses]]
      /\ size' \in [Motes -> Nat]
      /\ table_size' \in [Motes -> INITIAL_SIZE .. MaxTable]
  BY <1>1, <1>2, PutStep DEF IInv
<1>6. Keeps
  BY <1>2, <1>3, <1>4 DEF Keeps, Calm
<1>7. EntriesLead'
  BY <1>1, <1>3 DEF IInv, EntriesLead, Leads
<1>8. HopsKnow'
  <2> SUFFICES ASSUME faults = 0, NEW n \in Motes, NEW y \in Motes,
                      table'[n][y] \notin {NoAddr, y}
               PROVE  table'[table'[n][y]][y] # NoAddr
    BY <1>2 DEF HopsKnow
  <2>1. CASE n = d /\ y = x
    <3>1. table'[n][y] = m /\ m # x
      BY <2>1, <1>3
    <3>2. table[m][x] # NoAddr
      BY <3>1, <1>1 DEF Knows
    <3> QED BY <2>1, <3>1, <3>2, <1>1, <1>6, <1>2 DEF Keeps
  <2>2. CASE ~(n = d /\ y = x)
    <3>1. table'[n][y] = table[n][y]
      BY <2>2, <1>3
    <3>2. table[n][y] \in Motes /\ table[table[n][y]][y] # NoAddr
      BY <3>1 DEF IInv, EntriesLead, Leads, HopsKnow
    <3> QED BY <3>1, <3>2, <1>6, <1>2 DEF Keeps
  <2> QED BY <2>1, <2>2
<1>9. /\ sending' \in [Motes -> Messages]
      /\ \A n \in Motes :
           \/ sending'[n] = sending[n]
           \/ n = d /\ d # Root /\ sending'[n] = s
  <2>1. CASE d = Root
    BY <2>1 DEF RecvDAO, IInv, TypeOK
  <2>2. CASE d # Root
    <3>1. sending' = Send(d, parent[d], "DAO", x) /\ parent[d] \in Addresses
      BY <2>2 DEF RecvDAO, SendUp, IInv, TypeOK
    <3> QED BY <2>2, <3>1, <1>1, SendAdds DEF IInv
  <2> QED BY <2>1, <2>2
<1>10. \A n \in Motes : MessageOK(n, sending[n])'
  <2>1. table'[d][x] # NoAddr
    BY <1>1, <1>3, <1>4
  <2>2. ASSUME d # Root, sending'[d] = s PROVE MessageOK(d, sending[d])'
    BY <1>1, <2>1, <2>2 DEF MessageOK, Knows
  <2> QED BY <1>6, <1>9, <2>2, MessagesStay
<1> QED BY <1>2, <1>5, <1>7, <1>8, <1>9, <1>10 DEF IInv, TypeOK, tree

-----------------------------------------------------------------------------
LEMMA InvStep == IInv /\ [Next]_vars => IInv'
<1> SUFFICES ASSUME IInv, [Next]_vars PROVE IInv'
  OBVIOUS
<1>1. ASSUME NEW m \in Motes, NEW p \in Motes, ParentNew(m, p) PROVE IInv'
  <2>1. m # Root
    BY <1>1 DEF ParentNew, U!Join, IInv
  <2>2. /\ in_dodag' \in [Motes -> BOOLEAN] /\ in_dodag'[Root]
        /\ parent' \in [Motes -> Addresses]
    BY <1>1, <2>1 DEF ParentNew, U!Join, IInv, TypeOK, Addresses
  <2> QED BY <1>1, <2>1, <2>2, ParentStep DEF ParentNew, U!Join
<1>2. ASSUME NEW m \in Motes, NEW p \in Motes, ParentChanged(m, p) PROVE IInv'
  <2>1. /\ in_dodag' \in [Motes -> BOOLEAN] /\ in_dodag'[Root]
        /\ parent' \in [Motes -> Addresses]
    BY <1>2 DEF ParentChanged, U!Change, IInv, TypeOK, Addresses
  <2> QED BY <1>2, <2>1, ParentStep DEF ParentChanged, U!Change
<1>3. ASSUME NEW m \in Motes, DAO_callback(m) PROVE IInv'
  BY <1>3, SendUpStep DEF DAO_callback
<1>4. ASSUME NEW m \in Motes, data_callback(m) PROVE IInv'
  BY <1>4, SendUpStep DEF data_callback
<1>5. ASSUME NEW x \in Sensors, ServerOpen(x) PROVE IInv'
  BY <1>5, SendDownAdds, SendStep, NetworkAssumption DEF ServerOpen
<1>6. ASSUME NEW m \in Motes, NEW d \in Motes, RecvDAO(m, d) PROVE IInv'
  BY <1>6, DAOStep
<1>15. ASSUME NEW m \in Motes, NEW d \in Motes, RecvDAOFails(m, d) PROVE IInv'
  BY <1>15, SendStep DEF RecvDAOFails, vars, IInv, TypeOK
<1>7. ASSUME NEW m \in Motes, NEW d \in Motes, RecvDATA(m, d) PROVE IInv'
  <2>1. sending[m].mote \in Motes /\ UNCHANGED <<tree, maps, faults>>
    BY <1>7 DEF RecvDATA, Received, IInv, MessageOK
  <2>2. CASE sending' = SendUp(d, "DATA", sending[m].mote)
    BY <2>1, <2>2, SendUpStep
  <2>3. CASE SendDown(d, sending[m].mote)
    BY <2>1, <2>3, SendDownAdds, SendStep
  <2> QED BY <1>7, <2>2, <2>3 DEF RecvDATA
<1>8. ASSUME NEW m \in Motes, NEW d \in Motes, RecvOPEN(m, d) PROVE IInv'
  <2>1. sending[m].mote \in Motes
    BY <1>8 DEF RecvOPEN, Received, IInv, MessageOK
  <2> QED BY <1>8, <2>1, SendDownAdds, SendStep DEF RecvOPEN
<1>9. ASSUME NEW m \in Motes, Finish(m) PROVE IInv'
  <2>1. Idle \in Messages
    BY DEF Idle, Messages, Addresses
  <2> QED BY <1>9, <2>1, IdleOK, SendStep DEF Finish, IInv, TypeOK
<1>10. ASSUME NEW m \in Motes, Detach(m) PROVE IInv'
  <2>1. in_dodag' \in [Motes -> BOOLEAN] /\ in_dodag'[Root]
    BY <1>10 DEF Detach, U!Detach, IInv, TypeOK
  <2>2. parent' \in [Motes -> Addresses]
    BY <1>10, NetworkAssumption DEF Detach, U!Detach, IInv, TypeOK, Addresses
  <2>3. /\ NewMap(m)
        /\ sending' = sending /\ stable' = FALSE
        /\ faults' = faults + 1 /\ faults < MaxFaults
    BY <1>10 DEF Detach, U!Detach
  <2> QED BY <2>1, <2>2, <2>3, NewTable, FaultStep DEF IInv, TypeOK
<1>11. ASSUME NEW m \in Motes, SendDIS(m) PROVE IInv'
  <2>1. parent' \in [Motes -> Addresses]
    BY <1>11, NetworkAssumption DEF SendDIS, U!Allocate, IInv, TypeOK, Addresses
  <2>2. UNCHANGED <<maps, faults>> /\ UNCHANGED <<in_dodag, stable, sending>>
    BY <1>11 DEF SendDIS, U!Allocate
  <2>3. \A n \in Motes : MessageOK(n, sending[n])'
    BY <2>2, SameTables, MessagesStay
  <2> QED BY <2>1, <2>2, <2>3, SameTables DEF IInv, TypeOK, maps
<1>12. ASSUME NEW m \in Motes, children_callback(m) PROVE IInv'
  <2>1. PICK gone \in SUBSET Motes :
          table' = [table EXCEPT ![m] = [x \in Motes |-> IF x \in gone THEN NoAddr ELSE @[x]]]
    BY <1>12 DEF children_callback
  <2>2. /\ UNCHANGED <<tree, size, table_size, sending>>
        /\ faults' = faults + 1 /\ faults < MaxFaults
    BY <1>12 DEF children_callback
  <2>3. /\ table' \in [Motes -> [Motes -> Addresses]]
        /\ EntriesLead'
    <3>1. table \in [Motes -> [Motes -> Addresses]] /\ NoAddr \in Addresses
      BY DEF IInv, TypeOK, Addresses
    <3>2. \A n, x \in Motes : table'[n][x] \in {table[n][x], NoAddr}
      BY <2>1, <3>1
    <3>3. table' \in [Motes -> [Motes -> Addresses]]
      <4>1. [x \in Motes |-> IF x \in gone THEN NoAddr ELSE table[m][x]] \in [Motes -> Addresses]
        BY <3>1
      <4> QED BY <2>1, <3>1, <4>1
    <3> QED BY <3>2, <3>3 DEF IInv, EntriesLead, Leads
  <2> QED BY <2>2, <2>3, FaultStep DEF IInv, TypeOK, tree
<1>13. ASSUME NEW m \in Motes, Reboot(m) PROVE IInv'
  <2>1. /\ in_dodag' \in [Motes -> BOOLEAN] /\ in_dodag'[Root]
        /\ parent' \in [Motes -> Addresses]
    BY <1>13 DEF Reboot, U!Reboot, IInv, TypeOK, Addresses
  <2>2. /\ sending' \in [Motes -> Messages]
        /\ \A n \in Motes : sending'[n] = sending[n] \/ sending'[n] = Idle
    BY <1>13 DEF Reboot, U!Reboot, IInv, TypeOK, Idle, Messages, Addresses
  <2>3. \A n \in Motes : sending'[n] = sending[n] \/ MessageOK(n, sending'[n])
    BY <2>2, IdleOK
  <2>4. /\ NewMap(m) /\ stable' = FALSE
        /\ faults' = faults + 1 /\ faults < MaxFaults
    BY <1>13 DEF Reboot, U!Reboot
  <2> QED BY <2>1, <2>2, <2>3, <2>4, NewTable, FaultStep
<1>14. CASE UNCHANGED vars
  BY <1>14, SendStep DEF vars, tree, IInv, TypeOK
<1> QED BY <1>1, <1>2, <1>3, <1>4, <1>5, <1>6, <1>7, <1>8, <1>9, <1>10, <1>11,
          <1>12, <1>13, <1>14, <1>15 DEF Next, Recv

(* The inductive invariant: routing entries and messages lead to radio      *)
(* neighbours, and DAOs leave no route that stops short (runicast_recv).    *)
THEOREM Invariant == Spec => []IInv
BY InitInv, InvStep, PTL DEF Spec

(* The network's variables keep their types, whatever motes detach, reboot  *)
(* or forget entries (runicast_recv, routing.c:132-285).                    *)
THEOREM TypeCorrect == Spec => []TypeOK
<1>1. IInv => TypeOK
  BY DEF IInv
<1> QED BY <1>1, Invariant, PTL

(* In any network a route never stops short of its destination before the   *)
(* first fault (sensor-mote.c:184-204).                                     *)
THEOREM NoRouteStopsShort == Spec => []HopsKnow
<1>1. IInv => HopsKnow
  BY DEF IInv
<1> QED BY <1>1, Invariant, PTL

(* In any network an OPEN is never sent to the root or out of range but for *)
(* what was read before a crowded table, and, while tables are roomy, is    *)
(* sent where it can be used or sent on before the first fault              *)
(* (routing.c:256-285). *)
THEOREM OpenNeverStuck == Spec => []OpenFindsHop
<1>1. IInv => OpenFindsHop
  <2> SUFFICES ASSUME IInv, NEW m \in Motes, sending[m].type = "OPEN"
               PROVE  LET d == sending[m].to  x == sending[m].mote IN
                      /\ d \in MapJunk \/ (d \in Motes \ {Root} /\ m \in Neighbours[d])
                      /\ Calm /\ d # x => table[d][x] # NoAddr
    BY DEF OpenFindsHop, Calm
  <2> QED BY DEF IInv, MessageOK, Leads, Knows
<1> QED BY <1>1, Invariant, PTL

-----------------------------------------------------------------------------
(* Fewer motes below the root than fill half of a new table, or one chain:  *)
(* up to six of them in the code. *)
FewMotes ==
  /\ 2 * Cardinality(Motes \ {Root}) < INITIAL_SIZE
  /\ Cardinality(Motes \ {Root}) < MAX_CHAIN_LENGTH

(* Until the first fault tables count what they hold, in their first array. *)
Counted ==
  faults = 0 =>
    \A m \in Motes : size[m] = Cardinality(Known(m)) /\ table_size[m] = INITIAL_SIZE

LEMMA CountedRoomy ==
  ASSUME FewMotes, IInv, Counted, faults = 0
  PROVE  Calm
<1> SUFFICES ASSUME NEW m \in Motes PROVE Roomy(m)
  BY DEF Calm
<1>1. Known(m) \in SUBSET (Motes \ {Root}) /\ IsFiniteSet(Motes \ {Root})
  BY NetworkAssumption, FS_Subset DEF Known, IInv, EntriesLead
<1>2. /\ Cardinality(Known(m)) <= Cardinality(Motes \ {Root})
      /\ Cardinality(Known(m)) \in Nat /\ Cardinality(Motes \ {Root}) \in Nat
  BY <1>1, FS_Subset, FS_CardinalityType
<1>3. size[m] = Cardinality(Known(m)) /\ table_size[m] = INITIAL_SIZE
  BY DEF Counted
<1> QED BY <1>2, <1>3, NetworkAssumption DEF FewMotes, Roomy, HalfFull, Crowded

LEMMA CountedInit == Init => Counted
<1> SUFFICES ASSUME Init, NEW m \in Motes PROVE Cardinality(Known(m)) = 0
  BY DEF Init, Counted
<1>1. Known(m) = {}
  BY DEF Init, NoTable, Known
<1> QED BY <1>1, FS_EmptySet

LEMMA CountedStep ==
  ASSUME FewMotes, IInv, Counted, [Next]_vars
  PROVE  Counted'
<1>1. CASE UNCHANGED maps /\ UNCHANGED faults
  BY <1>1 DEF maps, Counted, Known
<1>2. CASE faults' = faults + 1
  BY <1>2 DEF IInv, TypeOK, Counted
<1>3. ASSUME NEW m \in Motes, NEW d \in Motes, RecvDAO(m, d), faults' = 0
      PROVE  Counted'
  <2> DEFINE x == sending[m].mote
  <2>1. /\ x \in Motes /\ Put(d, x, m) /\ faults = 0 /\ TypeOK
        /\ size \in [Motes -> Nat] /\ table_size \in [Motes -> INITIAL_SIZE .. MaxTable]
    BY <1>3 DEF RecvDAO, Received, IInv, MessageOK, TypeOK
  <2>2. \A n \in Motes : Known(n)' = IF n = d THEN Known(n) \cup {x} ELSE Known(n)
    BY <2>1, PutStep
  <2>3. ~MustGrow(d, x)
    BY <2>1, CountedRoomy DEF Calm, Roomy, MustGrow
  <2>4. Fits(d, x)
    BY <2>1, <2>3 DEF Put, Grows
  <2>5. Cardinality(Known(d) \cup {x}) =
          IF x \in Known(d) THEN Cardinality(Known(d)) ELSE Cardinality(Known(d)) + 1
    BY KnownFinite, FS_AddElement
  <2>6. \A n \in Motes :
          size'[n] = IF n = d /\ x \notin Known(d) THEN size[n] + 1 ELSE size[n]
    BY <2>1, <2>4 DEF Fits, Known
  <2>7. \A n \in Motes : size'[n] = Cardinality(Known(n)')
    BY <2>1, <2>2, <2>5, <2>6 DEF Counted
  <2> QED BY <2>1, <2>4, <2>7 DEF Counted, Fits
<1>4. ASSUME Next
      PROVE  \/ UNCHANGED maps /\ UNCHANGED faults
             \/ faults' = faults + 1
             \/ \E m, d \in Motes : RecvDAO(m, d)
  BY <1>4 DEF Next, Recv, ParentNew, ParentChanged, DAO_callback, data_callback, Finish,
              ServerOpen, RecvDAOFails, RecvDATA, RecvOPEN, Detach, SendDIS,
              children_callback, Reboot, vars
<1>5. CASE UNCHANGED vars
  BY <1>1, <1>5 DEF vars
<1>6. ASSUME NEW m \in Motes, NEW d \in Motes, RecvDAO(m, d)
      PROVE  Counted'
  BY <1>3, <1>6 DEF Counted
<1> QED BY <1>1, <1>2, <1>4, <1>5, <1>6

(* In a network of few motes tables stay roomy until the first fault, so    *)
(* that each mote that gets an OPEN is its destination or finds a next hop, *)
(* without any condition on memory (routing.c:256-285, hashmap.c:34).       *)
THEOREM FewFindHops ==
  ASSUME FewMotes
  PROVE  Spec => [](faults = 0 =>
           \A m \in Motes : sending[m].type = "OPEN" =>
             LET d == sending[m].to  x == sending[m].mote IN
             /\ d \in Motes \ {Root} /\ m \in Neighbours[d]
             /\ d # x => table[d][x] # NoAddr)
<1> DEFINE Found ==
      faults = 0 =>
        \A m \in Motes : sending[m].type = "OPEN" =>
          LET d == sending[m].to  x == sending[m].mote IN
          /\ d \in Motes \ {Root} /\ m \in Neighbours[d]
          /\ d # x => table[d][x] # NoAddr
<1>1. IInv /\ Counted => Found
  BY CountedRoomy DEF IInv, MessageOK, Leads, Knows
<1>2. IInv /\ Counted /\ [Next]_vars => Counted'
  BY CountedStep
<1>3. Spec => []Counted
  BY <1>2, CountedInit, Invariant, PTL DEF Spec
<1> QED BY <1>1, <1>3, Invariant, PTL

-----------------------------------------------------------------------------
(* The parents are those of Uplinks, whatever the messages do: handing DAO, *)
(* DATA and OPEN on changes no parent (runicast_recv, children_callback).   *)
LEMMA RestsOnUplinks == Spec => U!Spec
<1>1. Init => U!Init
  BY DEF Init
<1>2. [Next]_vars => [U!Next]_(U!vars)
  <2> SUFFICES ASSUME [Next]_vars PROVE [U!Next]_(U!vars)
    OBVIOUS
  <2>1. CASE \E m, p \in Motes : ParentNew(m, p) \/ ParentChanged(m, p)
    BY <2>1 DEF ParentNew, ParentChanged, U!Next
  <2>2. CASE \E m, p \in Motes : Recv(m, p)
    BY <2>2 DEF Recv, RecvDAO, RecvDAOFails, RecvDATA, RecvOPEN, vars, tree, U!vars
  <2>3. CASE \E m \in Motes : DAO_callback(m) \/ data_callback(m) \/ Finish(m)
    BY <2>3 DEF DAO_callback, data_callback, Finish, tree, U!vars
  <2>4. CASE \E x \in Sensors : ServerOpen(x)
    BY <2>4 DEF ServerOpen, tree, U!vars
  <2>5. ASSUME NEW m \in Motes, Detach(m) \/ SendDIS(m) \/ Reboot(m)
        PROVE  U!Next
    BY <2>5 DEF Detach, SendDIS, Reboot, U!Next
  <2>6. ASSUME NEW m \in Motes, children_callback(m)
        PROVE  UNCHANGED U!vars
    BY <2>6 DEF children_callback, tree, U!vars
  <2>7. CASE UNCHANGED vars
    BY <2>7 DEF vars, tree, U!vars
  <2> QED BY <2>1, <2>2, <2>3, <2>4, <2>5, <2>6, <2>7 DEF Next
<1> QED BY <1>1, <1>2, PTL DEF Spec, U!Spec

ParentsOK == U!up \in [Motes -> Motes \cup {NoAddr}]

(* The root is at the top, and nothing outside the tree is a parent. *)
TopOK ==
  /\ U!up[Root] = NoAddr
  /\ \A m \in Motes : U!up[m] # NoAddr => U!T!InTree(U!up[m])

(* What holds of the tree until the first parent timeout or reboot.  That   *)
(* it hangs together below the root needs no induction on the depth, as     *)
(* Subtree is defined by the sets that are closed below. *)
TreeInv == ParentsOK /\ TopOK /\ U!T!UnderRoot

LEMMA SubtreeClosed ==
  ASSUME NEW m \in Motes
  PROVE  /\ m \in U!T!Subtree(m)
         /\ U!T!ClosedBelow(U!T!Subtree(m))
         /\ \A S \in SUBSET Motes : m \in S /\ U!T!ClosedBelow(S) => U!T!Subtree(m) \subseteq S
BY DEF U!T!Subtree, U!T!ClosedBelow

(* A member of the tree stays below the root when m is moved under p: what  *)
(* is below the root afterwards, with what is below m, is closed before the *)
(* move, and so holds every member; p, which is not below m, is thus below  *)
(* the root afterwards, m after it, and the motes below m after m.          *)
LEMMA SwitchUnderRoot ==
  ASSUME TreeInv, NEW m \in Motes, NEW p \in Motes, U!T!Switch(m, p)
  PROVE  \A x \in Motes : U!T!InTree(x) => x \in U!T!Subtree(Root)'
<1> USE NetworkAssumption
<1> DEFINE R == U!T!Subtree(Root)'
<1>1. \A y \in Motes : (U!up)'[y] = IF y = m THEN p ELSE U!up[y]
  BY DEF U!T!Switch, TreeInv, ParentsOK
<1>2. /\ Root \in R
      /\ R \subseteq Motes
      /\ \A y \in Motes : (U!up)'[y] \in R => y \in R
  BY DEF U!T!Subtree, U!T!ClosedBelow
<1>3. m \in U!T!Subtree(m) /\ U!T!ClosedBelow(U!T!Subtree(m)) /\ U!T!Subtree(m) \subseteq Motes
  BY SubtreeClosed DEF U!T!Subtree
<1> HIDE DEF R
<1>4. U!T!ClosedBelow(R \cup U!T!Subtree(m))
  BY <1>1, <1>2, <1>3 DEF U!T!ClosedBelow
<1>5. U!T!Subtree(Root) \subseteq R \cup U!T!Subtree(m)
  BY <1>2, <1>3, <1>4, SubtreeClosed
<1>6. p \in R
  BY <1>5 DEF U!T!Switch, TreeInv, U!T!UnderRoot
<1>7. m \in R
  BY <1>1, <1>2, <1>6
<1>8. U!T!ClosedBelow(R)
  BY <1>1, <1>2, <1>7 DEF U!T!ClosedBelow
<1>9. U!T!Subtree(m) \subseteq R
  BY <1>2, <1>7, <1>8, SubtreeClosed
<1> QED BY <1>5, <1>9 DEF TreeInv, U!T!UnderRoot, R

LEMMA AttachUnderRoot ==
  ASSUME TreeInv, NEW m \in Motes, NEW p \in Motes, U!T!Attach(m, p)
  PROVE  \A x \in Motes : U!T!InTree(x) \/ x = m => x \in U!T!Subtree(Root)'
<1> USE NetworkAssumption
<1> DEFINE R == U!T!Subtree(Root)'
<1>1. \A y \in Motes : (U!up)'[y] = IF y = m THEN p ELSE U!up[y]
  BY DEF U!T!Attach, TreeInv, ParentsOK
<1>2. /\ Root \in R
      /\ R \subseteq Motes
      /\ \A y \in Motes : (U!up)'[y] \in R => y \in R
  BY DEF U!T!Subtree, U!T!ClosedBelow
<1>3. U!up[m] = NoAddr /\ NoAddr \notin R
  BY <1>2 DEF U!T!Attach, U!T!InTree
<1> HIDE DEF R
<1>4. U!T!ClosedBelow(R)
  BY <1>1, <1>2, <1>3 DEF U!T!ClosedBelow
<1>5. U!T!Subtree(Root) \subseteq R
  BY <1>2, <1>4, SubtreeClosed
<1>6. p \in R
  BY <1>5 DEF U!T!Attach, TreeInv, U!T!UnderRoot
<1>7. m \in R
  BY <1>1, <1>2, <1>6
<1> QED BY <1>5, <1>7 DEF TreeInv, U!T!UnderRoot, R

LEMMA TreeInit ==
  ASSUME U!Init
  PROVE  TreeInv
<1>1. Root \in U!T!Subtree(Root)
  BY SubtreeClosed, NetworkAssumption
<1>2. U!up = [m \in Motes |-> NoAddr]
  BY DEF U!Init, U!up
<1> QED BY <1>1, <1>2, NetworkAssumption
        DEF TreeInv, ParentsOK, TopOK, U!T!UnderRoot, U!T!InTree

LEMMA TreeStep ==
  ASSUME TreeInv, [U!T!Next]_(U!up)
  PROVE  TreeInv'
<1> USE NetworkAssumption
<1>1. ASSUME NEW m \in Motes, NEW p \in Motes, U!T!Attach(m, p)
      PROVE  TreeInv'
  <2>1. \A y \in Motes : (U!up)'[y] = IF y = m THEN p ELSE U!up[y]
    BY <1>1 DEF U!T!Attach, TreeInv, ParentsOK
  <2>2. ParentsOK'
    BY <1>1 DEF U!T!Attach, TreeInv, ParentsOK
  <2>3. TopOK'
    BY <1>1, <2>1 DEF U!T!Attach, TreeInv, ParentsOK, TopOK, U!T!InTree
  <2>4. \A x \in Motes : U!T!InTree(x)' => U!T!InTree(x) \/ x = m
    BY <2>1 DEF U!T!InTree
  <2> QED BY <1>1, <2>2, <2>3, <2>4, AttachUnderRoot DEF TreeInv, U!T!UnderRoot
<1>2. ASSUME NEW m \in Motes, NEW p \in Motes, U!T!Switch(m, p)
      PROVE  TreeInv'
  <2>1. \A y \in Motes : (U!up)'[y] = IF y = m THEN p ELSE U!up[y]
    BY <1>2 DEF U!T!Switch, TreeInv, ParentsOK
  <2>2. ParentsOK'
    BY <1>2 DEF U!T!Switch, TreeInv, ParentsOK
  <2>3. TopOK'
    <3>1. U!up[Root] = NoAddr /\ m # Root /\ U!T!InTree(p)
      BY <1>2 DEF U!T!Switch, TreeInv, TopOK
    <3>2. \A y \in Motes : U!T!InTree(y) => U!T!InTree(y)'
      BY <2>1 DEF U!T!InTree
    <3>3. \A y \in Motes \ {m} : U!up[y] # NoAddr => U!up[y] \in Motes /\ U!T!InTree(U!up[y])
      BY <1>2 DEF TreeInv, ParentsOK, TopOK
    <3> QED BY <2>1, <3>1, <3>2, <3>3 DEF TopOK
  <2>4. \A x \in Motes : U!T!InTree(x)' => U!T!InTree(x)
    <3>1. U!T!InTree(m)
      BY <1>2 DEF U!T!Switch
    <3> QED BY <2>1, <3>1 DEF U!T!InTree
  <2> QED BY <1>2, <2>2, <2>3, <2>4, SwitchUnderRoot DEF TreeInv, U!T!UnderRoot
<1>3. CASE UNCHANGED U!up
  BY <1>3 DEF TreeInv, ParentsOK, TopOK, U!T!UnderRoot, U!T!InTree, U!T!Subtree, U!T!ClosedBelow
<1> QED BY <1>1, <1>2, <1>3 DEF U!T!Next

LEMMA TreeKept ==
  ASSUME TypeOK, stable => TreeInv, [U!Next]_(U!vars), stable'
  PROVE  TreeInv'
<1>1. CASE UNCHANGED U!vars
  <2>1. UNCHANGED U!up
    BY <1>1 DEF U!vars, U!up
  <2> QED BY <1>1, <2>1, TreeStep DEF U!vars
<1>2. ASSUME NEW m \in Motes, NEW p \in Motes, U!Join(m, p) \/ U!Change(m, p)
      PROVE  TreeInv'
  <2>1. stable /\ (U!T!Attach(m, p) \/ U!T!Switch(m, p))
    BY <1>2 DEF U!Join, U!Change
  <2>2. [U!T!Next]_(U!up)
    BY <2>1 DEF U!T!Next
  <2> QED BY <2>1, <2>2, TreeStep
<1>3. ASSUME NEW m \in Motes, U!Allocate(m)
      PROVE  TreeInv'
  <2>1. UNCHANGED U!up /\ UNCHANGED stable
    BY <1>3 DEF U!Allocate, U!up, TypeOK
  <2> QED BY <2>1, TreeStep
<1>4. ASSUME NEW m \in Motes, U!Detach(m) \/ U!Reboot(m)
      PROVE  FALSE
  BY <1>4 DEF U!Detach, U!Reboot
<1> QED BY <1>1, <1>2, <1>3, <1>4 DEF U!Next

(* In any network DATA and DAO messages have a way up: until the first      *)
(* parent timeout or reboot the parents lead every mote of the DODAG to the *)
(* root, also while routing entries time out (routing.c:144-195).           *)
THEOREM ParentsLeadUp == Spec => [](stable => U!T!UnderRoot)
<1> DEFINE TreeOK == stable => TreeInv
<1>1. Init => TreeOK
  BY TreeInit DEF Init
<1>2. TypeOK /\ TreeOK /\ [U!Next]_(U!vars) => TreeOK'
  BY TreeKept
<1>3. TreeOK => (stable => U!T!UnderRoot)
  BY DEF TreeInv
<1>4. Spec => []TreeOK
  BY <1>1, <1>2, TypeCorrect, RestsOnUplinks, PTL DEF Spec, U!Spec
<1> QED BY <1>3, <1>4, PTL
=============================================================================
