------------------------------- MODULE Dodag -------------------------------
(***************************************************************************)
(* The routing tree of the air quality network: how motes join the DODAG,  *)
(* choose and change their parent, keep their rank up to date and detach.  *)
(* It is the control plane of src/mote/routing.c together with the         *)
(* broadcast callbacks and the send and parent timers of sensor-mote.c,    *)
(* computation-mote.c and root-mote.c.                                     *)
(*                                                                         *)
(* The unicast plane (DAO, DATA, OPEN) never writes in_dodag, rank, parent *)
(* or the parent timer, so it is left to the other modules.  The Trickle   *)
(* period only says when a send timer fires: here it may fire at any time. *)
(***************************************************************************)
EXTENDS Integers, Sequences, FiniteSets

CONSTANTS
  Motes,          \* the addresses of the motes, root included
  Root,           \* the border router
  Neighbours,     \* Neighbours[m]: the motes in radio range of m
  NoAddr,         \* an address that no mote has
  Null,           \* what the address reads as through a NULL pointer
  INFINITE_RANK,  \* 255 in the code, the largest uint8_t
  Rss,            \* the signal strengths a frame may be received with
  RSS_THRESHOLD,
  HeapJunk,       \* what a freed parent_t may read as once its memory is reused
  MaxQueue,       \* frames a link holds before the MAC drops new ones
  MaxFaults       \* bound on parent timeouts and reboots in a behaviour

(* The type of a rank (uint8_t) and of a parent_t in memory.                *)
Ranks == 0 .. INFINITE_RANK
Memory == [addr : Motes \cup {NoAddr}, rank : Ranks, rss : Rss \cup {0}]

(* mote.parent is NULL until the first parent is chosen.  Reading through   *)
(* it yields bytes 0 and 1 of the address space, special function registers *)
(* that are no mote's address.                                              *)
NullParent == [addr |-> Null, rank |-> 0, rss |-> 0]

Parents == Memory \cup {NullParent}

ASSUME DodagAssumption ==
  /\ IsFiniteSet(Motes)
  /\ Root \in Motes
  /\ NoAddr \notin Motes
  /\ Null \notin Motes \cup {NoAddr}
  /\ Neighbours \in [Motes -> SUBSET Motes]
  /\ \A m \in Motes : m \notin Neighbours[m]
  /\ INFINITE_RANK \in Nat \ {0}
  /\ Rss \subseteq Int
  /\ Rss # {}
  /\ RSS_THRESHOLD \in Nat
  /\ HeapJunk \subseteq Memory
  /\ MaxQueue \in Nat \ {0}
  /\ MaxFaults \in Nat

VARIABLES
  in_dodag,      \* mote.in_dodag
  rank,          \* mote.rank
  parent,        \* the memory mote.parent points to
  parent_timer,  \* TRUE while the callback timer parent_timer is armed
  air,           \* air[s][d]: frames s has broadcast and d has yet to process
  faults         \* parent timeouts and reboots so far

vars == <<in_dodag, rank, parent, parent_timer, air, faults>>

-----------------------------------------------------------------------------
(* Messages.  A DIS carries its type only; its rank field is a filler.      *)
DIS == [type |-> "DIS", rank |-> 0]
DIO(r) == [type |-> "DIO", rank |-> r]
Frames == [type : {"DIS", "DIO"}, rank : Ranks]

(* Mutants of RankBelow: the sum is not cut to a uint8_t; no sum at all.    *)
RankNotCut(r) == r + 1
SameRank(r) == r

(* parent_rank + 1, stored in a uint8_t. *)
RankBelow(r) == (r + 1) % (INFINITE_RANK + 1)

(* What may be found in mote.parent after a handler of m that allocates     *)
(* memory, when p was there before: a mote outside the DODAG has freed its  *)
(* parent_t but still uses the pointer.                                     *)
HeapContents(m, p) ==
  IF in_dodag[m] \/ p = NullParent THEN {p} ELSE {p} \cup HeapJunk

(* The root's broadcast_recv looks at DIS messages only. *)
Hears(d, f) == d # Root \/ f.type = "DIS"

(* The queues out of s once it has broadcast frame f.  A full queue drops it. *)
Broadcast(s, f) ==
  [d \in Motes |->
     IF d \in Neighbours[s] /\ Hears(d, f) /\ Len(air[s][d]) < MaxQueue
       THEN Append(air[s][d], f) ELSE air[s][d]]

-----------------------------------------------------------------------------
(* init_root and init_mote *)
Init ==
  /\ in_dodag = [m \in Motes |-> m = Root]
  /\ rank = [m \in Motes |-> IF m = Root THEN 0 ELSE INFINITE_RANK]
  /\ parent = [m \in Motes |-> NullParent]
  /\ parent_timer = [m \in Motes |-> FALSE]
  /\ air = [s \in Motes |-> [d \in Motes |-> <<>>]]
  /\ faults = 0

-----------------------------------------------------------------------------
(* send_callback of a mote in the DODAG *)
SendDIO(m) ==
  /\ in_dodag[m]
  /\ air' = [air EXCEPT ![m] = Broadcast(m, DIO(rank[m]))]
  /\ UNCHANGED <<in_dodag, rank, parent, parent_timer, faults>>

(* send_callback of a mote outside the DODAG.  The message is allocated on  *)
(* the heap, possibly over the freed parent_t.                              *)
SendDIS(m) ==
  /\ ~in_dodag[m]
  /\ air' = [air EXCEPT ![m] = Broadcast(m, DIS)]
  /\ \E p \in HeapContents(m, parent[m]) : parent' = [parent EXCEPT ![m] = p]
  /\ UNCHANGED <<in_dodag, rank, parent_timer, faults>>

(* The radio loses a frame. *)
Lose(s, d) ==
  /\ air[s][d] # <<>>
  /\ air' = [air EXCEPT ![s][d] = Tail(@)]
  /\ UNCHANGED <<in_dodag, rank, parent, parent_timer, faults>>

-----------------------------------------------------------------------------
(* broadcast_recv at d of a frame from s *)
Received(s, d, type) ==
  /\ air[s][d] # <<>>
  /\ Head(air[s][d]).type = type

(* The air once d has processed the frame from s, without and with an       *)
(* answering broadcast of f by d.                                           *)
Consume(s, d) == [air EXCEPT ![s][d] = Tail(@)]
ConsumeAndSend(s, d, f) == [air EXCEPT ![s][d] = Tail(@), ![d] = Broadcast(d, f)]

(* Mutant of RecvDIS: a mote outside the DODAG answers too. *)
AnswersAlways(s, d) ==
  /\ Received(s, d, "DIS")
  /\ air' = ConsumeAndSend(s, d, DIO(rank[d]))
  /\ UNCHANGED <<in_dodag, rank, parent, parent_timer, faults>>

(* A mote in the DODAG answers a DIS with its rank. *)
RecvDIS(s, d) ==
  /\ Received(s, d, "DIS")
  /\ air' = IF in_dodag[d] THEN ConsumeAndSend(s, d, DIO(rank[d])) ELSE Consume(s, d)
  /\ UNCHANGED <<in_dodag, rank, parent, parent_timer, faults>>

(* detach(): frees parent_t without clearing the pointer. *)
detach(m) ==
  /\ in_dodag' = [in_dodag EXCEPT ![m] = FALSE]
  /\ rank' = [rank EXCEPT ![m] = INFINITE_RANK]
  /\ \E p \in {parent[m]} \cup HeapJunk : parent' = [parent EXCEPT ![m] = p]

(* The sender's address equals the one read through mote.parent, which a    *)
(* mote outside the DODAG reads in freed memory. *)
FromParent(s, d) == s = parent[d].addr

(* The parent advertises INFINITE_RANK: detach, unless already detached,    *)
(* and stop_timers. *)
ParentGone(s, d) ==
  /\ Received(s, d, "DIO")
  /\ FromParent(s, d)
  /\ Head(air[s][d]).rank = INFINITE_RANK
  /\ IF in_dodag[d] THEN detach(d) ELSE UNCHANGED <<in_dodag, rank, parent>>
  /\ parent_timer' = [parent_timer EXCEPT ![d] = FALSE]
  /\ air' = Consume(s, d)
  /\ UNCHANGED faults

(* A DIO of the parent with the rank already known: update_parent returns 0. *)
ParentSameRank(s, d) ==
  /\ Received(s, d, "DIO")
  /\ FromParent(s, d)
  /\ Head(air[s][d]).rank # INFINITE_RANK
  /\ Head(air[s][d]).rank = parent[d].rank
  /\ \E rss \in Rss : parent' = [parent EXCEPT ![d].rss = rss]
  /\ parent_timer' = [parent_timer EXCEPT ![d] = TRUE]
  /\ air' = Consume(s, d)
  /\ UNCHANGED <<in_dodag, rank, faults>>

(* A DIO of the parent with a new rank: update_parent returns 1 and the new *)
(* rank is broadcast. *)
ParentNewRank(s, d) ==
  LET r == Head(air[s][d]).rank IN
  /\ Received(s, d, "DIO")
  /\ FromParent(s, d)
  /\ r # INFINITE_RANK
  /\ r # parent[d].rank
  /\ \E rss \in Rss :
       \E p \in HeapContents(d, [addr |-> s, rank |-> r, rss |-> rss]) :
         parent' = [parent EXCEPT ![d] = p]
  /\ rank' = [rank EXCEPT ![d] = RankBelow(r)]
  /\ parent_timer' = [parent_timer EXCEPT ![d] = TRUE]
  /\ air' = ConsumeAndSend(s, d, DIO(RankBelow(r)))
  /\ UNCHANGED <<in_dodag, faults>>

(* Mutant of ParentNew: the parent timer is not started. *)
ParentNewUnwatched(s, d) ==
  LET r == Head(air[s][d]).rank IN
  /\ Received(s, d, "DIO")
  /\ ~FromParent(s, d)
  /\ ~in_dodag[d]
  /\ in_dodag' = [in_dodag EXCEPT ![d] = TRUE]
  /\ rank' = [rank EXCEPT ![d] = RankBelow(r)]
  /\ \E rss \in Rss :
       parent' = [parent EXCEPT ![d] = [addr |-> s, rank |-> r, rss |-> rss]]
  /\ air' = Consume(s, d)
  /\ UNCHANGED <<parent_timer, faults>>

(* choose_parent, PARENT_NEW: a mote outside the DODAG takes the sender as  *)
(* its parent, whatever rank it advertises, and starts its timers.          *)
ParentNew(s, d) ==
  LET r == Head(air[s][d]).rank IN
  /\ Received(s, d, "DIO")
  /\ ~FromParent(s, d)
  /\ ~in_dodag[d]
  /\ in_dodag' = [in_dodag EXCEPT ![d] = TRUE]
  /\ rank' = [rank EXCEPT ![d] = RankBelow(r)]
  /\ \E rss \in Rss :
       parent' = [parent EXCEPT ![d] = [addr |-> s, rank |-> r, rss |-> rss]]
  /\ parent_timer' = [parent_timer EXCEPT ![d] = TRUE]
  /\ air' = Consume(s, d)
  /\ UNCHANGED faults

(* Mutants of is_better_parent: the rank compared with the mote's own; only *)
(* a rank better by two counts; any stronger signal counts.                 *)
BetterThanMe(d, r, rss) == r <= rank[d]
BetterByTwo(d, r, rss) == r + 1 < parent[d].rank
AnyStronger(d, r, rss) ==
  \/ r < parent[d].rank
  \/ r = parent[d].rank /\ rss > parent[d].rss

is_better_parent(d, r, rss) ==
  \/ r < parent[d].rank
  \/ r = parent[d].rank /\ rss > parent[d].rss + RSS_THRESHOLD

(* Mutant of ParentChanged: the rank is left as it was. *)
ParentChangedOnly(s, d) ==
  LET r == Head(air[s][d]).rank IN
  /\ Received(s, d, "DIO")
  /\ ~FromParent(s, d)
  /\ in_dodag[d]
  /\ \E rss \in Rss :
       /\ is_better_parent(d, r, rss)
       /\ parent' = [parent EXCEPT ![d] = [addr |-> s, rank |-> r, rss |-> rss]]
  /\ air' = ConsumeAndSend(s, d, DIO(rank[d]))
  /\ UNCHANGED <<in_dodag, rank, parent_timer, faults>>

(* choose_parent, PARENT_CHANGED: the new rank is broadcast.  The parent    *)
(* timer is not restarted. *)
ParentChanged(s, d) ==
  LET r == Head(air[s][d]).rank IN
  /\ Received(s, d, "DIO")
  /\ ~FromParent(s, d)
  /\ in_dodag[d]
  /\ \E rss \in Rss :
       /\ is_better_parent(d, r, rss)
       /\ parent' = [parent EXCEPT ![d] = [addr |-> s, rank |-> r, rss |-> rss]]
  /\ rank' = [rank EXCEPT ![d] = RankBelow(r)]
  /\ air' = ConsumeAndSend(s, d, DIO(RankBelow(r)))
  /\ UNCHANGED <<in_dodag, parent_timer, faults>>

(* choose_parent, PARENT_NOT_CHANGED *)
ParentNotChanged(s, d) ==
  /\ Received(s, d, "DIO")
  /\ ~FromParent(s, d)
  /\ in_dodag[d]
  /\ \E rss \in Rss : ~is_better_parent(d, Head(air[s][d]).rank, rss)
  /\ air' = Consume(s, d)
  /\ UNCHANGED <<in_dodag, rank, parent, parent_timer, faults>>

RecvParentDIO(s, d) ==
  ParentGone(s, d) \/ ParentSameRank(s, d) \/ ParentNewRank(s, d)

RecvOtherDIO(s, d) ==
  ParentNew(s, d) \/ ParentChanged(s, d) \/ ParentNotChanged(s, d)

RecvDIO(s, d) == RecvParentDIO(s, d) \/ RecvOtherDIO(s, d)

-----------------------------------------------------------------------------
(* parent_callback of a mote in the DODAG: detach, stop_timers.  Nothing is *)
(* sent.  (Outside the DODAG the callback only restarts its timer.)         *)
ParentTimeout(m) ==
  /\ faults < MaxFaults
  /\ parent_timer[m]
  /\ in_dodag[m]
  /\ detach(m)
  /\ parent_timer' = [parent_timer EXCEPT ![m] = FALSE]
  /\ faults' = faults + 1
  /\ UNCHANGED air

(* A mote is removed from the network and started again: init_mote.  The    *)
(* frames on their way from and to it are lost. *)
Reboot(m) ==
  /\ faults < MaxFaults
  /\ m # Root
  /\ in_dodag' = [in_dodag EXCEPT ![m] = FALSE]
  /\ rank' = [rank EXCEPT ![m] = INFINITE_RANK]
  /\ parent' = [parent EXCEPT ![m] = NullParent]
  /\ parent_timer' = [parent_timer EXCEPT ![m] = FALSE]
  /\ air' = [s \in Motes |-> [d \in Motes |-> IF m \in {s, d} THEN <<>> ELSE air[s][d]]]
  /\ faults' = faults + 1

-----------------------------------------------------------------------------
SendCallback(m) == SendDIO(m) \/ SendDIS(m)

StableNext ==
  \/ \E m \in Motes : SendCallback(m)
  \/ \E s, d \in Motes : Lose(s, d) \/ RecvDIS(s, d) \/ RecvDIO(s, d)

FaultNext == \E m \in Motes : ParentTimeout(m) \/ Reboot(m)

Next == StableNext \/ FaultNext

(* The behaviours in which no parent timer expires and no mote reboots.     *)
(* Frames may still be delayed, dropped and lost. *)
StableSpec == Init /\ [][StableNext]_vars

Spec == Init /\ [][Next]_vars

(* ctimer callbacks are run by the Contiki scheduler, and the radio does not *)
(* lose every DIO that a link carries.                                       *)
Fairness ==
  /\ \A m \in Motes : WF_vars(SendCallback(m))
  /\ \A s \in Motes : \A d \in Neighbours[s] :
       SF_vars(RecvDIO(s, d)) /\ WF_vars(RecvDIS(s, d))

FairStableSpec == StableSpec /\ Fairness
FairSpec == Spec /\ Fairness
-----------------------------------------------------------------------------
Joined == {m \in Motes : in_dodag[m]}

TypeOK ==
  /\ in_dodag \in [Motes -> BOOLEAN]
  /\ rank \in [Motes -> Ranks]
  /\ parent \in [Motes -> Parents]
  /\ parent_timer \in [Motes -> BOOLEAN]
  /\ air \in [Motes -> [Motes -> Seq(Frames)]]
  /\ faults \in 0 .. MaxFaults

(* The rank of a mote in the DODAG is one more, in uint8_t arithmetic, than *)
(* the rank it last recorded for its parent, through any sequence of parent *)
(* changes, parent updates, detachments and reboots (routing.c:79-125).     *)
RankFollowsParent ==
  \A m \in Joined \ {Root} : rank[m] = RankBelow(parent[m].rank)

(* A mote in the DODAG has a radio neighbour as its parent and runs the     *)
(* timer that notices the loss of that parent: no order of detaching,       *)
(* joining and stale memory leaves it attached and unwatched.               *)
ParentWatched ==
  \A m \in Joined \ {Root} :
    /\ parent[m].addr \in Motes
    /\ m \in Neighbours[parent[m].addr]
    /\ parent_timer[m]

(* Without timeouts and reboots every mote in the DODAG is strictly further *)
(* from the root, by rank, than the mote it has chosen as its parent, which *)
(* is in the DODAG too.  Hence no cycle: "rank ... will be used by other    *)
(* nodes in the network to avoid cycles" (report.pdf, section 2).           *)
RanksDescend ==
  \A m \in Joined \ {Root} :
    parent[m].addr \in Joined /\ rank[parent[m].addr] < rank[m]

(* Without timeouts and reboots a mote never leaves the DODAG and its rank  *)
(* never gets worse, however late or incompletely DIOs arrive.              *)
NeverWorse ==
  [][\A m \in Joined : in_dodag'[m] /\ rank'[m] <= rank[m]]_vars

(* Hops[m]: the distance of m from the root in the radio graph, the largest *)
(* number that grows by at most one along each link.                        *)
AlongLinks ==
  {D \in [Motes -> 0 .. Cardinality(Motes)] :
     D[Root] = 0 /\ \A s \in Motes : \A m \in Neighbours[s] : D[m] <= D[s] + 1}
Hops ==
  [m \in Motes |->
     CHOOSE n \in {D[m] : D \in AlongLinks} : \A D \in AlongLinks : D[m] <= n]

(* Without timeouts and reboots no mote believes to be closer to the root   *)
(* than it is, and once DIOs have had the time to spread every mote is in   *)
(* the DODAG at its true distance: a node "always chooses the parent with   *)
(* the smaller number of hops to the border router" (report.pdf, section 2).*)
NeverTooClose == \A m \in Joined : \A D \in AlongLinks : rank[m] >= D[m]
ShortestPaths == <>[](\A m \in Motes : in_dodag[m] /\ rank[m] = Hops[m])

(* When the signal of a link varies by no more than RSS_THRESHOLD, motes    *)
(* stop changing parents (routing.c:197-202).                               *)
ParentsSettle == <>[][\A m \in Motes : parent'[m].addr = parent[m].addr]_vars

(* The tree that the motes form, a mote outside the DODAG being outside it. *)
up == [m \in Motes |->
         IF in_dodag[m] /\ m # Root THEN parent[m].addr ELSE NoAddr]
T == INSTANCE Tree

(* Without timeouts and reboots the protocol builds and reshapes one tree   *)
(* below the root: each PARENT_NEW attaches a mote and each PARENT_CHANGED  *)
(* moves one to a parent outside its own subtree (routing.c:203-226).       *)
FormsTree == T!Spec

(* Without timeouts and reboots every mote in the DODAG is in the subtree   *)
(* of the root: what it sends to its parent can climb to the root           *)
(* (routing.c:176-195).                                                     *)
ReachesRoot == T!UnderRoot

(* How the motes' parents look to the unicast plane. *)
U == INSTANCE Uplinks WITH
       HeapJunk <- {p.addr : p \in HeapJunk},
       parent <- [m \in Motes |-> parent[m].addr],
       stable <- faults = 0

(* Whatever frames are lost and motes fail, parents change only as Uplinks  *)
(* says: module Network, which rests on Uplinks, covers all that choosing,  *)
(* updating and losing parents does (routing.c:79-140, 197-226).  In        *)
(* particular the tree is kept until the first parent timeout or reboot,    *)
(* and no mote detaches before. *)
ImplementsUplinks == U!Spec

-----------------------------------------------------------------------------
(* What the documentation says of all behaviours, and Spec violates.        *)

(* Parents never form a cycle, faults or not: "rank ... will be used by     *)
(* other nodes in the network to avoid cycles" (report.pdf, section 2).     *)
NoCycle ==
  \A S \in SUBSET (Joined \ {Root}) :
    S # {} => \E m \in S : parent[m].addr \notin S

(* A mote that has left the DODAG while motes in it remain in range gets    *)
(* back: "Motes can be removed and added to the network" (README.md:61).    *)
Rejoins == \A m \in Motes : ~in_dodag[m] ~> in_dodag[m]
=============================================================================
