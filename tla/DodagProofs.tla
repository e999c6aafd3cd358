---------------------------- MODULE DodagProofs ----------------------------
(***************************************************************************)
(* Theorems about Dodag, for any number of motes and any radio graph: with *)
(* any number of frames, timeouts and reboots in the first part (they rest *)
(* on FaultInv), without timeouts and reboots in the second: ranks descend *)
(* towards the root, never get worse, and the parents form the tree of     *)
(* module Tree (they rest on StableInv).  The third part joins the two: up *)
(* to the first timeout or reboot the second holds, and so the whole of    *)
(* Dodag implements module Uplinks. *)
(***************************************************************************)
EXTENDS DodagInv, Arithmetic, SequenceTheorems

(* The queues between motes after each of the things that happen to them.   *)
LEMMA BroadcastType ==
  ASSUME TypeOK, NEW s \in Motes, NEW f \in Frames
  PROVE  Broadcast(s, f) \in [Motes -> Seq(Frames)]
PROOF BY DEF TypeOK, Broadcast

LEMMA DIOType ==
  ASSUME NEW r \in Ranks
  PROVE  DIO(r) \in Frames /\ DIS \in Frames /\ RankBelow(r) \in Ranks
PROOF BY DodagAssumption DEF DIO, DIS, Frames, Ranks, RankBelow

LEMMA HeadType ==
  ASSUME TypeOK, NEW s \in Motes, NEW d \in Motes, air[s][d] # <<>>
  PROVE  /\ air[s][d] \in Seq(Frames)
         /\ Head(air[s][d]) \in Frames
         /\ Head(air[s][d]).rank \in Ranks
         /\ Tail(air[s][d]) \in Seq(Frames)
<1>1. air[s][d] \in Seq(Frames)
  BY DEF TypeOK
<1>2. Head(air[s][d]) \in Frames /\ Tail(air[s][d]) \in Seq(Frames)
  BY <1>1, HeadTailProperties, Zenon
<1> QED BY <1>1, <1>2 DEF Frames

LEMMA ParentType ==
  ASSUME NEW s \in Motes, NEW r \in Ranks, NEW rss \in Rss
  PROVE  [addr |-> s, rank |-> r, rss |-> rss] \in Parents
PROOF BY DEF Parents, Memory

(* A parent_t that is not NULL is read from memory, where no address reads  *)
(* as one read through NULL. *)
LEMMA PointerType ==
  ASSUME NEW p \in Parents
  PROVE  /\ p.rank \in Ranks
         /\ p.addr = Null => p = NullParent
         /\ p # NullParent => p \in Memory /\ p.addr \in Motes \cup {NoAddr}
<1>1. CASE p = NullParent
  BY <1>1, DodagAssumption DEF NullParent, Ranks
<1>2. CASE p \in Memory
  BY <1>2, DodagAssumption DEF Memory
<1> QED BY <1>1, <1>2 DEF Parents

LEMMA JunkType == HeapJunk \subseteq Parents
PROOF BY DodagAssumption DEF Parents

LEMMA HeapType ==
  ASSUME TypeOK, NEW m \in Motes, NEW p \in Parents
  PROVE  HeapContents(m, p) \subseteq Parents
PROOF BY DodagAssumption DEF HeapContents, Parents

LEMMA NullType == NullParent \in Parents
PROOF BY DodagAssumption DEF NullParent, Parents, Ranks

(* Every variable keeps its type, ranks included: uint8_t arithmetic, the   *)
(* freed parent_t and the frames in the air stay within bounds whatever     *)
(* motes fail (routing.c:79-140). *)
LEMMA InitType == Init => TypeOK
<1> SUFFICES ASSUME Init PROVE TypeOK
  OBVIOUS
<1>1. 0 \in Ranks /\ INFINITE_RANK \in Ranks /\ 0 \in 0 .. MaxFaults
  BY DodagAssumption DEF Ranks
<1>2. <<>> \in Seq(Frames)
  OBVIOUS
<1> QED BY <1>1, <1>2, NullType DEF Init, TypeOK

LEMMA StableNextType == TypeOK /\ StableNext => TypeOK'
<1> SUFFICES ASSUME TypeOK, StableNext PROVE TypeOK'
  OBVIOUS
<1> USE DEF TypeOK
<1>1. ASSUME NEW m \in Motes, SendDIO(m) PROVE TypeOK'
  BY <1>1, BroadcastType, DIOType DEF SendDIO
<1>2. ASSUME NEW m \in Motes, SendDIS(m) PROVE TypeOK'
  BY <1>2, BroadcastType, DIOType, HeapType, DodagAssumption DEF SendDIS, Ranks
<1>3. ASSUME NEW s \in Motes, NEW d \in Motes, Lose(s, d) PROVE TypeOK'
  BY <1>3, HeadType DEF Lose
<1>4. ASSUME NEW s \in Motes, NEW d \in Motes, Received(s, d, "DIO") \/ Received(s, d, "DIS")
      PROVE  /\ Consume(s, d) \in [Motes -> [Motes -> Seq(Frames)]]
             /\ \A f \in Frames :
                  ConsumeAndSend(s, d, f) \in [Motes -> [Motes -> Seq(Frames)]]
  BY <1>4, HeadType, BroadcastType DEF Received, Consume, ConsumeAndSend
<1>5. ASSUME NEW s \in Motes, NEW d \in Motes, RecvDIS(s, d) PROVE TypeOK'
  BY <1>5, <1>4, DIOType DEF RecvDIS
<1>6. ASSUME NEW s \in Motes, NEW d \in Motes, RecvDIO(s, d) PROVE TypeOK'
  <2> DEFINE r == Head(air[s][d]).rank
  <2>1. r \in Ranks /\ RankBelow(r) \in Ranks /\ DIO(RankBelow(r)) \in Frames
    BY <1>6, HeadType, DIOType
       DEF RecvDIO, RecvParentDIO, RecvOtherDIO, ParentGone, ParentSameRank,
           ParentNewRank, ParentNew, ParentChanged, ParentNotChanged, Received
  <2>2. Received(s, d, "DIO") /\ air' \in [Motes -> [Motes -> Seq(Frames)]]
    <3>1. Received(s, d, "DIO")
      BY <1>6 DEF RecvDIO, RecvParentDIO, RecvOtherDIO, ParentGone, ParentSameRank,
                  ParentNewRank, ParentNew, ParentChanged, ParentNotChanged
    <3>2. air' = Consume(s, d) \/ air' = ConsumeAndSend(s, d, DIO(RankBelow(r)))
      BY <1>6 DEF RecvDIO, RecvParentDIO, RecvOtherDIO, ParentGone, ParentSameRank,
                  ParentNewRank, ParentNew, ParentChanged, ParentNotChanged
    <3>3. /\ Consume(s, d) \in [Motes -> [Motes -> Seq(Frames)]]
          /\ \A f \in Frames :
               ConsumeAndSend(s, d, f) \in [Motes -> [Motes -> Seq(Frames)]]
      BY <3>1, <1>4
    <3> QED BY <3>1, <3>2, <3>3, <2>1, Zenon
  <2> HIDE DEF r
  <2>3. CASE ParentGone(s, d)
    <3>1. \A p \in {parent[d]} \cup HeapJunk : p \in Parents
      BY JunkType
    <3>2. INFINITE_RANK \in Ranks
      BY DodagAssumption DEF Ranks
    <3> QED BY <2>3, <2>2, <3>1, <3>2 DEF ParentGone, detach
  <2>4. CASE ParentSameRank(s, d)
    <3>1. PICK rss \in Rss : parent' = [parent EXCEPT ![d].rss = rss]
      BY <2>4 DEF ParentSameRank
    <3>2. parent' \in [Motes -> Parents]
      <4>1. parent[d] \in Memory
        BY <2>4, PointerType, DodagAssumption
           DEF ParentSameRank, FromParent, NullParent
      <4>2. [parent[d] EXCEPT !.rss = rss] \in Parents
        BY <4>1 DEF Parents, Memory
      <4>3. parent' = [parent EXCEPT ![d] = [parent[d] EXCEPT !.rss = rss]]
        BY <3>1
      <4> QED BY <4>2, <4>3
    <3> QED BY <2>4, <2>2, <3>2 DEF ParentSameRank
  <2>5. CASE ParentNewRank(s, d)
    <3>1. PICK rss \in Rss :
            \E p \in HeapContents(d, [addr |-> s, rank |-> r, rss |-> rss]) :
              parent' = [parent EXCEPT ![d] = p]
      BY <2>5 DEF ParentNewRank, r
    <3>2. HeapContents(d, [addr |-> s, rank |-> r, rss |-> rss]) \subseteq Parents
      BY <2>1, ParentType, HeapType
    <3> QED BY <2>5, <2>1, <2>2, <3>1, <3>2 DEF ParentNewRank, r
  <2>6. CASE ParentNew(s, d)
    <3>1. PICK rss \in Rss :
            parent' = [parent EXCEPT ![d] = [addr |-> s, rank |-> r, rss |-> rss]]
      BY <2>6 DEF ParentNew, r
    <3>2. [addr |-> s, rank |-> r, rss |-> rss] \in Parents
      BY <2>1, ParentType
    <3> QED BY <2>6, <2>1, <2>2, <3>1, <3>2 DEF ParentNew, r
  <2>7. CASE ParentChanged(s, d)
    <3>1. PICK rss \in Rss :
            parent' = [parent EXCEPT ![d] = [addr |-> s, rank |-> r, rss |-> rss]]
      BY <2>7 DEF ParentChanged, r
    <3>2. [addr |-> s, rank |-> r, rss |-> rss] \in Parents
      BY <2>1, ParentType
    <3> QED BY <2>7, <2>1, <2>2, <3>1, <3>2 DEF ParentChanged, r
  <2>8. CASE ParentNotChanged(s, d)
    BY <2>8, <2>2 DEF ParentNotChanged
  <2> QED BY <1>6, <2>3, <2>4, <2>5, <2>6, <2>7, <2>8
             DEF RecvDIO, RecvParentDIO, RecvOtherDIO
<1> QED BY <1>1, <1>2, <1>3, <1>5, <1>6 DEF StableNext, SendCallback

LEMMA FaultNextType == TypeOK /\ FaultNext => TypeOK'
<1> SUFFICES ASSUME TypeOK, FaultNext PROVE TypeOK'
  OBVIOUS
<1>1. INFINITE_RANK \in Ranks
  BY DodagAssumption DEF Ranks
<1>2. ASSUME NEW m \in Motes, ParentTimeout(m) PROVE TypeOK'
  BY <1>1, <1>2, JunkType, DodagAssumption DEF TypeOK, ParentTimeout, detach
<1>3. ASSUME NEW m \in Motes, Reboot(m) PROVE TypeOK'
  <2>1. air' \in [Motes -> [Motes -> Seq(Frames)]]
    BY <1>3 DEF TypeOK, Reboot
  <2>2. faults' \in 0 .. MaxFaults
    BY <1>3, DodagAssumption DEF TypeOK, Reboot
  <2> QED BY <1>1, <1>3, <2>1, <2>2, NullType DEF TypeOK, Reboot
<1> QED BY <1>2, <1>3 DEF FaultNext

THEOREM TypeCorrect == Spec => []TypeOK
<1>1. TypeOK /\ UNCHANGED vars => TypeOK'
  BY DEF TypeOK, vars
<1>2. TypeOK /\ [Next]_vars => TypeOK'
  BY <1>1, StableNextType, FaultNextType DEF Next
<1> QED BY InitType, <1>2, PTL DEF Spec

-----------------------------------------------------------------------------
(* What a queue holds after its head is taken and after a frame is added.   *)
LEMMA TailElements ==
  ASSUME NEW q \in Seq(Frames), q # <<>>
  PROVE  /\ Len(q) \in Nat \ {0}
         /\ Tail(q) \in Seq(Frames)
         /\ Len(Tail(q)) = Len(q) - 1
         /\ \A i \in 1 .. Len(Tail(q)) : Tail(q)[i] = q[i+1]
         /\ Head(q) = q[1]
PROOF BY HeadTailProperties, EmptySeq

LEMMA AppendElements ==
  ASSUME NEW q \in Seq(Frames), NEW f \in Frames
  PROVE  /\ Len(q) \in Nat
         /\ Append(q, f) \in Seq(Frames)
         /\ Len(Append(q, f)) = Len(q) + 1
         /\ \A i \in 1 .. Len(q) : Append(q, f)[i] = q[i]
         /\ Append(q, f)[Len(q) + 1] = f
PROOF BY AppendProperties, LenProperties

(* A frame is received from a neighbour, and a DIO never by the root. *)
LEMMA ReceivedFrom ==
  ASSUME TypeOK, AirOK, NEW s \in Motes, NEW d \in Motes, NEW type, Received(s, d, type)
  PROVE  /\ d \in Neighbours[s]
         /\ s # d
         /\ air[s][d] \in Seq(Frames)
         /\ air[s][d] # <<>>
         /\ type = "DIO" => d # Root
<1>1. air[s][d] \in Seq(Frames) /\ air[s][d] # <<>>
  BY DEF TypeOK, Received
<1>2. Len(air[s][d]) \in Nat \ {0} /\ Head(air[s][d]) = air[s][d][1]
  BY <1>1, TailElements
<1>3. 1 \in 1 .. Len(air[s][d])
  BY <1>2
<1>4. Hears(d, Head(air[s][d])) /\ d \in Neighbours[s]
  BY <1>1, <1>2, <1>3 DEF AirOK
<1> QED BY <1>1, <1>4, DodagAssumption DEF Received, Hears

LEMMA ConsumeAir ==
  ASSUME TypeOK, AirOK, NEW s \in Motes, NEW d \in Motes, air[s][d] # <<>>,
         air' = Consume(s, d)
  PROVE  AirOK'
<1> SUFFICES ASSUME NEW x \in Motes, NEW y \in Motes
             PROVE  /\ air'[x][y] # <<>> => y \in Neighbours[x]
                    /\ \A i \in 1 .. Len(air'[x][y]) : Hears(y, air'[x][y][i])
  BY DEF AirOK, Hears
<1>1. CASE x = s /\ y = d
  <2>1. air'[x][y] = Tail(air[s][d]) /\ air[s][d] \in Seq(Frames)
    BY <1>1 DEF TypeOK, Consume
  <2>2. \A i \in 1 .. Len(Tail(air[s][d])) :
          i + 1 \in 1 .. Len(air[s][d]) /\ Tail(air[s][d])[i] = air[s][d][i+1]
    BY <2>1, TailElements
  <2> QED BY <1>1, <2>1, <2>2 DEF AirOK
<1>2. CASE ~(x = s /\ y = d)
  BY <1>2 DEF TypeOK, Consume, AirOK
<1> QED BY <1>1, <1>2

LEMMA BroadcastAir ==
  ASSUME TypeOK, AirOK, NEW s \in Motes, NEW f \in Frames, NEW y \in Motes
  PROVE  /\ Broadcast(s, f)[y] # <<>> => y \in Neighbours[s]
         /\ \A i \in 1 .. Len(Broadcast(s, f)[y]) : Hears(y, Broadcast(s, f)[y][i])
<1>1. air[s][y] \in Seq(Frames)
  BY DEF TypeOK
<1>2. CASE Broadcast(s, f)[y] = air[s][y]
  BY <1>2 DEF AirOK
<1>3. CASE Broadcast(s, f)[y] = Append(air[s][y], f) /\ y \in Neighbours[s] /\ Hears(y, f)
  <2>1. \A i \in 1 .. Len(Append(air[s][y], f)) :
          \/ i \in 1 .. Len(air[s][y]) /\ Append(air[s][y], f)[i] = air[s][y][i]
          \/ Append(air[s][y], f)[i] = f
    BY <1>1, AppendElements
  <2> QED BY <1>3, <2>1 DEF AirOK
<1> QED BY <1>2, <1>3 DEF Broadcast

LEMMA SendAir ==
  ASSUME TypeOK, AirOK, NEW s \in Motes, NEW f \in Frames,
         air' = [air EXCEPT ![s] = Broadcast(s, f)]
  PROVE  AirOK'
<1>1. \A x, y \in Motes : air'[x][y] = IF x = s THEN Broadcast(s, f)[y] ELSE air[x][y]
  BY DEF TypeOK
<1>2. \A y \in Motes :
        /\ Broadcast(s, f)[y] # <<>> => y \in Neighbours[s]
        /\ \A i \in 1 .. Len(Broadcast(s, f)[y]) : Hears(y, Broadcast(s, f)[y][i])
  BY BroadcastAir
<1> QED BY <1>1, <1>2 DEF AirOK, Hears

LEMMA ConsumeAndSendAir ==
  ASSUME TypeOK, AirOK, NEW s \in Motes, NEW d \in Motes, s # d, air[s][d] # <<>>,
         NEW f \in Frames, air' = ConsumeAndSend(s, d, f)
  PROVE  AirOK'
<1> DEFINE GoodLink(q, x, y) ==
             /\ q # <<>> => y \in Neighbours[x]
             /\ \A i \in 1 .. Len(q) : Hears(y, q[i])
<1>1. \A x, y \in Motes :
        air'[x][y] = IF x = d THEN Broadcast(d, f)[y]
                     ELSE IF x = s /\ y = d THEN Tail(air[s][d]) ELSE air[x][y]
  BY DEF TypeOK, ConsumeAndSend
<1>2. \A y \in Motes : GoodLink(Broadcast(d, f)[y], d, y)
  BY BroadcastAir
<1>3. GoodLink(Tail(air[s][d]), s, d)
  <2>1. air[s][d] \in Seq(Frames)
    BY DEF TypeOK
  <2>2. \A i \in 1 .. Len(Tail(air[s][d])) :
          i + 1 \in 1 .. Len(air[s][d]) /\ Tail(air[s][d])[i] = air[s][d][i+1]
    BY <2>1, TailElements
  <2> QED BY <2>2 DEF AirOK
<1>4. \A x, y \in Motes : GoodLink(air[x][y], x, y)
  BY DEF AirOK
<1>5. \A x, y \in Motes : GoodLink(air'[x][y], x, y)
  <2> HIDE DEF GoodLink
  <2> QED BY <1>1, <1>2, <1>3, <1>4
<1> QED BY <1>5 DEF AirOK, Hears

LEMMA StableNextAir == TypeOK /\ AirOK /\ StableNext => AirOK'
<1> SUFFICES ASSUME TypeOK, AirOK, StableNext PROVE AirOK'
  OBVIOUS
<1>1. ASSUME NEW m \in Motes, SendDIO(m) \/ SendDIS(m) PROVE AirOK'
  BY <1>1, DIOType, SendAir DEF SendDIO, SendDIS, TypeOK
<1>2. ASSUME NEW s \in Motes, NEW d \in Motes, Lose(s, d) PROVE AirOK'
  BY <1>2, ConsumeAir DEF Lose, Consume
<1>3. ASSUME NEW s \in Motes, NEW d \in Motes, RecvDIS(s, d) PROVE AirOK'
  <2>1. s # d /\ air[s][d] # <<>>
    BY <1>3, ReceivedFrom DEF RecvDIS
  <2>2. DIO(rank[d]) \in Frames
    BY DIOType DEF TypeOK
  <2>3. CASE air' = Consume(s, d)
    BY <2>1, <2>3, ConsumeAir
  <2>4. CASE air' = ConsumeAndSend(s, d, DIO(rank[d]))
    BY <2>1, <2>2, <2>4, ConsumeAndSendAir
  <2> QED BY <1>3, <2>3, <2>4 DEF RecvDIS
<1>4. ASSUME NEW s \in Motes, NEW d \in Motes, RecvDIO(s, d) PROVE AirOK'
  <2> DEFINE f == DIO(RankBelow(Head(air[s][d]).rank))
  <2>1. Received(s, d, "DIO") /\ (air' = Consume(s, d) \/ air' = ConsumeAndSend(s, d, f))
    BY <1>4 DEF RecvDIO, RecvParentDIO, RecvOtherDIO, ParentGone, ParentSameRank,
                ParentNewRank, ParentNew, ParentChanged, ParentNotChanged
  <2>2. s # d /\ air[s][d] # <<>>
    BY <2>1, ReceivedFrom
  <2>3. f \in Frames
    BY <2>2, HeadType, DIOType
  <2>4. CASE air' = Consume(s, d)
    BY <2>2, <2>4, ConsumeAir
  <2>5. CASE air' = ConsumeAndSend(s, d, f)
    <3> HIDE DEF f
    <3> QED BY <2>2, <2>3, <2>5, ConsumeAndSendAir
  <2> QED BY <2>1, <2>4, <2>5
<1> QED BY <1>1, <1>2, <1>3, <1>4 DEF StableNext, SendCallback

LEMMA FaultNextAir == TypeOK /\ AirOK /\ FaultNext => AirOK'
<1> SUFFICES ASSUME TypeOK, AirOK, FaultNext PROVE AirOK'
  OBVIOUS
<1>1. ASSUME NEW m \in Motes, ParentTimeout(m) PROVE AirOK'
  BY <1>1 DEF ParentTimeout, AirOK, Hears
<1>2. ASSUME NEW m \in Motes, Reboot(m) PROVE AirOK'
  <2>1. \A x, y \in Motes : air'[x][y] = <<>> \/ air'[x][y] = air[x][y]
    BY <1>2 DEF Reboot
  <2>2. Len(<<>>) = 0
    OBVIOUS
  <2>3. 1 .. Len(<<>>) = {}
    BY <2>2
  <2> QED BY <2>1, <2>3 DEF AirOK, Hears
<1> QED BY <1>1, <1>2 DEF FaultNext

-----------------------------------------------------------------------------
(* The rank of a mote follows the rank recorded for its parent, and that    *)
(* parent is a watched neighbour, in every behaviour with faults.           *)
WatchedOK == RankFollowsParent /\ ParentWatched

LEMMA StableNextWatched == FaultInv /\ StableNext => WatchedOK'
<1> SUFFICES ASSUME FaultInv, StableNext PROVE WatchedOK'
  OBVIOUS
<1> USE DEF FaultInv, TypeOK
<1>1. SUFFICES ASSUME NEW m \in Motes \ {Root}, in_dodag'[m]
               PROVE  /\ rank'[m] = RankBelow(parent'[m].rank)
                      /\ parent'[m].addr \in Motes
                      /\ m \in Neighbours[parent'[m].addr]
                      /\ parent_timer'[m]
  BY DEF WatchedOK, RankFollowsParent, ParentWatched, Joined, RankBelow
<1> DEFINE Attached ==
      /\ in_dodag[m]
      /\ rank[m] = RankBelow(parent[m].rank)
      /\ parent[m].addr \in Motes
      /\ m \in Neighbours[parent[m].addr]
      /\ parent_timer[m]
<1>2. in_dodag[m] => Attached
  BY DEF RankFollowsParent, ParentWatched, Joined
<1>3. CASE UNCHANGED <<in_dodag, rank, parent, parent_timer>>
  BY <1>1, <1>2, <1>3
<1>4. ASSUME NEW n \in Motes, SendDIS(n) PROVE m # n /\ parent'[m] = parent[m]
  BY <1>1, <1>4 DEF SendDIS
<1>5. CASE \E n \in Motes : SendDIS(n)
  BY <1>1, <1>2, <1>4, <1>5 DEF SendDIS
<1>6. ASSUME NEW s \in Motes, NEW d \in Motes, RecvDIO(s, d)
      PROVE  /\ rank'[m] = RankBelow(parent'[m].rank)
             /\ parent'[m].addr \in Motes
             /\ m \in Neighbours[parent'[m].addr]
             /\ parent_timer'[m]
  <2> DEFINE r == Head(air[s][d]).rank
  <2>1. Received(s, d, "DIO")
    BY <1>6 DEF RecvDIO, RecvParentDIO, RecvOtherDIO, ParentGone, ParentSameRank,
                ParentNewRank, ParentNew, ParentChanged, ParentNotChanged
  <2>2. d \in Neighbours[s]
    BY <2>1, ReceivedFrom
  <2>3. CASE d # m
    <3>1. /\ in_dodag'[m] = in_dodag[m]
          /\ rank'[m] = rank[m]
          /\ parent'[m] = parent[m]
          /\ parent_timer'[m] = parent_timer[m]
      BY <1>6, <2>3 DEF RecvDIO, RecvParentDIO, RecvOtherDIO, ParentGone, detach,
           ParentSameRank, ParentNewRank, ParentNew, ParentChanged, ParentNotChanged
    <3> QED BY <1>1, <1>2, <3>1
  <2>4. CASE d = m /\ ParentGone(s, d)
    BY <1>1, <2>4 DEF ParentGone, detach
  <2>5. CASE d = m /\ ParentSameRank(s, d)
    <3>1. PICK rss \in Rss : parent' = [parent EXCEPT ![d].rss = rss]
      BY <2>5 DEF ParentSameRank
    <3>2. parent'[m].addr = parent[m].addr /\ parent'[m].rank = parent[m].rank
      BY <2>5, <3>1 DEF Parents
    <3> QED BY <1>1, <1>2, <2>5, <3>2 DEF ParentSameRank
  <2>6. CASE d = m /\ ParentNewRank(s, d)
    <3>1. in_dodag[d]
      BY <1>1, <2>6 DEF ParentNewRank
    <3>2. PICK rss \in Rss :
            parent' = [parent EXCEPT ![d] = [addr |-> s, rank |-> r, rss |-> rss]]
      BY <2>6, <3>1 DEF ParentNewRank, HeapContents
    <3>3. rank'[m] = RankBelow(r) /\ parent_timer'[m]
      BY <2>6 DEF ParentNewRank
    <3> QED BY <2>2, <2>6, <3>2, <3>3
  <2>7. CASE d = m /\ (ParentNew(s, d) \/ ParentChanged(s, d))
    <3>1. PICK rss \in Rss :
            parent' = [parent EXCEPT ![d] = [addr |-> s, rank |-> r, rss |-> rss]]
      BY <2>7 DEF ParentNew, ParentChanged
    <3>2. rank'[m] = RankBelow(r)
      BY <2>7 DEF ParentNew, ParentChanged
    <3>3. parent_timer'[m]
      BY <1>2, <2>7 DEF ParentNew, ParentChanged
    <3> QED BY <2>2, <2>7, <3>1, <3>2, <3>3
  <2>8. CASE ParentNotChanged(s, d)
    BY <1>3, <2>8 DEF ParentNotChanged
  <2> QED BY <1>6, <2>3, <2>4, <2>5, <2>6, <2>7, <2>8
             DEF RecvDIO, RecvParentDIO, RecvOtherDIO
<1> QED
  <2>1. CASE \E n \in Motes : SendDIO(n)
    BY <1>3, <2>1 DEF SendDIO
  <2>2. CASE \E s, d \in Motes : Lose(s, d) \/ RecvDIS(s, d)
    BY <1>3, <2>2 DEF Lose, RecvDIS
  <2>3. CASE \E s, d \in Motes : RecvDIO(s, d)
    BY <1>6, <2>3
  <2> QED BY <1>5, <2>1, <2>2, <2>3 DEF StableNext, SendCallback

LEMMA FaultNextWatched == FaultInv /\ FaultNext => WatchedOK'
<1> SUFFICES ASSUME FaultInv, FaultNext PROVE WatchedOK'
  OBVIOUS
<1> PICK n \in Motes : ParentTimeout(n) \/ Reboot(n)
  BY DEF FaultNext
<1>1. ~in_dodag'[n]
  BY DEF ParentTimeout, Reboot, detach, FaultInv, TypeOK
<1>2. \A m \in Motes \ {n} :
        /\ in_dodag'[m] = in_dodag[m]
        /\ rank'[m] = rank[m]
        /\ parent'[m] = parent[m]
        /\ parent_timer'[m] = parent_timer[m]
  BY DEF ParentTimeout, Reboot, detach, FaultInv, TypeOK
<1> QED BY <1>1, <1>2
  DEF FaultInv, WatchedOK, RankFollowsParent, ParentWatched, Joined, RankBelow

(* The root acts upon no DIO, and has no timer that could expire. *)
LEMMA RootKeptStep == FaultInv /\ Next => RootKept'
<1> SUFFICES ASSUME FaultInv, Next PROVE RootKept'
  OBVIOUS
<1> USE DEF FaultInv, TypeOK, RootKept
<1>1. ASSUME NEW m \in Motes, SendCallback(m) PROVE RootKept'
  BY <1>1 DEF SendCallback, SendDIO, SendDIS
<1>2. ASSUME NEW s \in Motes, NEW d \in Motes, Lose(s, d) \/ RecvDIS(s, d) PROVE RootKept'
  BY <1>2 DEF Lose, RecvDIS
<1>3. ASSUME NEW s \in Motes, NEW d \in Motes, RecvDIO(s, d) PROVE RootKept'
  <2>1. Received(s, d, "DIO")
    BY <1>3 DEF RecvDIO, RecvParentDIO, RecvOtherDIO, ParentGone, ParentSameRank,
                ParentNewRank, ParentNew, ParentChanged, ParentNotChanged
  <2>2. d # Root
    BY <2>1, ReceivedFrom
  <2>3. CASE ParentGone(s, d)
    <3>1. ~parent_timer'[Root]
      BY <2>2, <2>3 DEF ParentGone
    <3>2. in_dodag' = in_dodag \/ in_dodag' = [in_dodag EXCEPT ![d] = FALSE]
      BY <2>3, Zenon DEF ParentGone, detach
    <3>3. in_dodag'[Root]
      <4>1. CASE in_dodag' = in_dodag
        BY <4>1
      <4>2. CASE in_dodag' = [in_dodag EXCEPT ![d] = FALSE]
        BY <2>2, <4>2, DodagAssumption
      <4> QED BY <3>2, <4>1, <4>2
    <3> QED BY <3>1, <3>3
  <2>4. CASE ParentSameRank(s, d) \/ ParentNewRank(s, d)
    <3>1. in_dodag' = in_dodag /\ parent_timer' = [parent_timer EXCEPT ![d] = TRUE]
      BY <2>4 DEF ParentSameRank, ParentNewRank
    <3> QED BY <2>2, <3>1
  <2>5. CASE ParentNew(s, d)
    BY <2>2, <2>5 DEF ParentNew
  <2>6. CASE ParentChanged(s, d) \/ ParentNotChanged(s, d)
    BY <2>6 DEF ParentChanged, ParentNotChanged
  <2> QED BY <1>3, <2>3, <2>4, <2>5, <2>6 DEF RecvDIO, RecvParentDIO, RecvOtherDIO
<1>4. ASSUME NEW m \in Motes, ParentTimeout(m) PROVE RootKept'
  BY <1>4 DEF ParentTimeout, detach
<1>5. ASSUME NEW m \in Motes, Reboot(m) PROVE RootKept'
  BY <1>5 DEF Reboot
<1> QED BY <1>1, <1>2, <1>3, <1>4, <1>5 DEF Next, StableNext, FaultNext

LEMMA FaultInvCorrect == Spec => []FaultInv
<1>1. Init => FaultInv
  <2> SUFFICES ASSUME Init PROVE AirOK /\ RankFollowsParent /\ ParentWatched /\ RootKept
    BY InitType DEF FaultInv
  <2>1. \A s, d \in Motes : air[s][d] = <<>>
    BY DEF Init
  <2>2. 1 .. Len(<<>>) = {}
    OBVIOUS
  <2>3. Joined \ {Root} = {}
    BY DEF Init, Joined
  <2>4. RootKept
    BY DodagAssumption DEF Init, RootKept
  <2> QED BY <2>1, <2>2, <2>3, <2>4 DEF AirOK, RankFollowsParent, ParentWatched
<1>2. FaultInv /\ Next => FaultInv'
  BY StableNextType, FaultNextType, StableNextAir, FaultNextAir, StableNextWatched,
     FaultNextWatched, RootKeptStep DEF Next, FaultInv, WatchedOK
<1>3. FaultInv /\ UNCHANGED vars => FaultInv'
  BY DEF FaultInv, vars, TypeOK, AirOK, Hears, RankFollowsParent, ParentWatched,
         Joined, RankBelow, RootKept
<1> QED BY <1>1, <1>2, <1>3, PTL DEF Spec

(* Whatever motes are lost, restarted and detached, a mote in the DODAG has *)
(* rank one more than the rank it last heard from its parent                *)
(* (routing.c:79-125). *)
THEOREM RankFollows == Spec => []RankFollowsParent
BY FaultInvCorrect, PTL DEF FaultInv

(* Whatever motes are lost, restarted and detached, a mote in the DODAG has *)
(* a radio neighbour as parent and runs the timer that notices its loss     *)
(* (sensor-mote.c:283, 304). *)
THEOREM Watched == Spec => []ParentWatched
BY FaultInvCorrect, PTL DEF FaultInv
-----------------------------------------------------------------------------

(* Queues of DIOs in descending order of rank. *)
LEMMA DescendsWeaken ==
  ASSUME NEW q \in Seq(Frames), NEW lo \in Int, NEW hi \in Int, Descends(q, lo, hi),
         NEW lo2 \in Int, NEW hi2 \in Int, lo2 <= lo, hi <= hi2
  PROVE  Descends(q, lo2, hi2)
<1>1. \A i \in 1 .. Len(q) : q[i].rank \in Int
  <2>1. \A i \in 1 .. Len(q) : q[i] \in Frames
    BY ElementOfSeq
  <2> QED BY <2>1, DodagAssumption DEF Frames, Ranks
<1> QED BY <1>1 DEF Descends

LEMMA DescendsTail ==
  ASSUME NEW q \in Seq(Frames), q # <<>>, NEW lo \in Int, NEW hi \in Int,
         Descends(q, lo, hi)
  PROVE  Descends(Tail(q), lo, hi)
<1> DEFINE t == Tail(q)
<1>1. \A i \in 1 .. Len(t) : i + 1 \in 1 .. Len(q) /\ t[i] = q[i+1]
  BY TailElements
<1>2. \A i \in 1 .. Len(t) : \A j \in 1 .. i : j \in 1 .. Len(t) /\ j + 1 \in 1 .. i + 1
  BY TailElements
<1> HIDE DEF t
<1> QED BY <1>1, <1>2 DEF Descends, t

LEMMA DescendsAppend ==
  ASSUME NEW q \in Seq(Frames), NEW f \in Frames,
         NEW lo \in Int, NEW hi \in Int, Descends(q, lo, hi),
         NEW lo2 \in Int, lo2 <= lo, f.type = "DIO" => f.rank = lo2 /\ lo2 <= hi
  PROVE  Descends(Append(q, f), lo2, hi)
<1> DEFINE a == Append(q, f)  n == Len(q)
<1>1. /\ n \in Nat
      /\ Len(a) = n + 1
      /\ \A i \in 1 .. n : a[i] = q[i]
      /\ a[n+1] = f
  BY AppendElements
<1>2. Descends(q, lo2, hi)
  BY DescendsWeaken
<1> HIDE DEF a, n
<1>3. SUFFICES ASSUME NEW i \in 1 .. n + 1, a[i].type = "DIO"
               PROVE  /\ lo2 <= a[i].rank
                      /\ a[i].rank <= hi
                      /\ \A j \in 1 .. i : a[j].type = "DIO" => a[i].rank <= a[j].rank
  BY <1>1 DEF Descends, a
<1>4. CASE i \in 1 .. n
  <2>1. \A j \in 1 .. i : j \in 1 .. n
    BY <1>1, <1>4
  <2> QED BY <1>1, <1>2, <1>3, <1>4, <2>1 DEF Descends, n
<1>5. CASE i = n + 1
  <2>1. \A j \in 1 .. i : j \in 1 .. n \/ j = n + 1
    BY <1>1, <1>5
  <2>2. \A j \in 1 .. n : q[j].type = "DIO" => lo2 <= q[j].rank
    BY <1>2 DEF Descends, n
  <2> QED BY <1>1, <1>3, <1>5, <2>1, <2>2
<1> QED BY <1>1, <1>4, <1>5

LEMMA DescendsHead ==
  ASSUME NEW q \in Seq(Frames), q # <<>>, NEW lo \in Int, NEW hi \in Int,
         Descends(q, lo, hi), Head(q).type = "DIO"
  PROVE  /\ lo <= Head(q).rank
         /\ Head(q).rank <= hi
         /\ Descends(q, lo, Head(q).rank)
<1>1. 1 \in 1 .. Len(q) /\ Head(q) = q[1] /\ \A i \in 1 .. Len(q) : 1 \in 1 .. i
  BY TailElements
<1> QED BY <1>1 DEF Descends

LEMMA DescendsBroadcast ==
  ASSUME TypeOK, NEW s \in Motes, NEW y \in Motes, NEW f \in Frames,
         NEW lo \in Int, NEW hi \in Int, Descends(air[s][y], lo, hi),
         NEW lo2 \in Int, lo2 <= lo, f.type = "DIO" => f.rank = lo2 /\ lo2 <= hi
  PROVE  Descends(Broadcast(s, f)[y], lo2, hi)
<1>1. air[s][y] \in Seq(Frames)
  BY DEF TypeOK
<1>2. Descends(air[s][y], lo2, hi)
  BY <1>1, DescendsWeaken
<1>3. Descends(Append(air[s][y], f), lo2, hi)
  BY <1>1, DescendsAppend
<1> QED BY <1>2, <1>3 DEF Broadcast

-----------------------------------------------------------------------------
(* Facts about one state of a behaviour without timeouts and reboots. *)
LEMMA JoinedCount ==
  ASSUME TypeOK, FewMotes
  PROVE  /\ IsFiniteSet(Joined)
         /\ Cardinality(Joined) \in Nat
         /\ Cardinality(Joined) <= INFINITE_RANK
<1>1. Joined \in SUBSET Motes
  BY DEF Joined
<1> QED BY <1>1, FS_Subset, FS_CardinalityType, DodagAssumption DEF FewMotes

LEMMA RanksAreInts ==
  ASSUME TypeOK, FewMotes
  PROVE  /\ \A m \in Motes : rank[m] \in Nat /\ parent[m].rank \in Nat
         /\ \A s, d \in Motes : LatestRank(s, d) \in Int
<1>1. \A m \in Motes : rank[m] \in Ranks /\ parent[m] \in Parents
  BY DEF TypeOK
<1>2. \A m \in Motes : rank[m] \in Nat /\ parent[m].rank \in Nat
  BY <1>1, PointerType, DodagAssumption DEF Ranks
<1> QED BY <1>2, JoinedCount DEF LatestRank

(* What d may expect of s is at least the rank of s, and less than the      *)
(* number of motes that have joined. *)
LEMMA LatestRankBounds ==
  ASSUME StableInv, FewMotes, NEW s \in Motes, NEW d \in Motes
  PROVE  /\ LatestRank(s, d) <= Cardinality(Joined) - 1
         /\ s \in Joined => rank[s] <= LatestRank(s, d)
<1>1. Cardinality(Joined) \in Nat
  BY JoinedCount DEF StableInv
<1>2. rank[s] \in Nat /\ rank[d] \in Nat /\ parent[d].rank \in Nat
  BY RanksAreInts DEF StableInv
<1>3. CASE d \in Joined \ {Root} /\ parent[d].addr = s
  <2>1. rank[d] = parent[d].rank + 1 /\ rank[s] <= parent[d].rank
    BY <1>3 DEF StableInv, ParentOK, IsChild
  <2>2. rank[d] < Cardinality(Joined)
    BY <1>3 DEF StableInv, BoundOK
  <2> QED BY <1>1, <1>2, <1>3, <2>1, <2>2 DEF LatestRank
<1>4. CASE ~(d \in Joined \ {Root} /\ parent[d].addr = s)
  <2>1. s \in Joined => rank[s] < Cardinality(Joined)
    BY DEF StableInv, BoundOK
  <2> QED BY <1>1, <1>2, <1>4, <2>1 DEF LatestRank
<1> QED BY <1>3, <1>4

(* The DIO that d receives from s. *)
LEMMA ReceivedRank ==
  ASSUME StableInv, FewMotes, NEW s \in Motes, NEW d \in Motes, Received(s, d, "DIO"),
         NEW r, r = Head(air[s][d]).rank
  PROVE  /\ s # d /\ d # Root /\ d \in Neighbours[s]
         /\ s \in Joined
         /\ r \in Nat /\ r < Cardinality(Joined) /\ r # INFINITE_RANK
         /\ RankBelow(r) = r + 1
         /\ rank[s] <= r /\ r <= LatestRank(s, d)
         /\ Descends(Tail(air[s][d]), rank[s], r)
<1>1. /\ s # d /\ d # Root /\ d \in Neighbours[s]
      /\ air[s][d] \in Seq(Frames) /\ air[s][d] # <<>>
  BY ReceivedFrom DEF StableInv
<1>2. Cardinality(Joined) \in Nat /\ Cardinality(Joined) <= INFINITE_RANK
  BY JoinedCount DEF StableInv
<1>3. rank[s] \in Int /\ LatestRank(s, d) \in Int
  BY RanksAreInts DEF StableInv
<1>4. Descends(air[s][d], rank[s], LatestRank(s, d))
  BY DEF StableInv, DescentOK
<1>5. rank[s] <= r /\ r <= LatestRank(s, d) /\ Descends(air[s][d], rank[s], r)
  BY <1>1, <1>3, <1>4, DescendsHead DEF Received
<1>6. r \in Nat
  BY <1>1, HeadType, DodagAssumption DEF StableInv, Ranks
<1>7. Descends(Tail(air[s][d]), rank[s], r)
  BY <1>1, <1>3, <1>5, <1>6, DescendsTail
<1>8. LatestRank(s, d) <= Cardinality(Joined) - 1
  BY LatestRankBounds
<1>9. r < Cardinality(Joined) /\ r < INFINITE_RANK
  BY <1>2, <1>3, <1>5, <1>6, <1>8, DodagAssumption
<1>10. RankBelow(r) = r + 1
  <2>1. r + 1 \in 0 .. INFINITE_RANK
    BY <1>6, <1>9, DodagAssumption
  <2> QED BY <2>1, DodagAssumption DEF RankBelow
<1>11. s \in Joined
  BY <1>2, <1>3, <1>5, <1>6, <1>9, DodagAssumption DEF StableInv, OutsideOK
<1> QED BY <1>1, <1>5, <1>6, <1>7, <1>9, <1>10, <1>11

(* A mote takes a DIO for its parent's only if it has joined. *)
LEMMA FromParentJoined ==
  ASSUME StableInv, NEW s \in Motes, NEW d \in Motes, FromParent(s, d)
  PROVE  d \in Joined
PROOF BY DodagAssumption DEF StableInv, OutsideOK, FromParent, NullParent

-----------------------------------------------------------------------------
(* The three ways a step changes the tree, as the variables show them: not  *)
(* at all, d moves up to rank r + 1 below s, or d joins below s.            *)
SameTree ==
  /\ UNCHANGED <<in_dodag, rank>>
  /\ \A m \in Motes :
       /\ parent'[m].addr = parent[m].addr
       /\ parent'[m].rank = parent[m].rank
       /\ parent[m] = NullParent => parent'[m] = NullParent

ChildAt(s, d, r) ==
  /\ s \in Joined /\ d # Root /\ s # d /\ d \in Neighbours[s]
  /\ r \in Nat /\ rank[s] <= r /\ r < Cardinality(Joined)
  /\ rank' = [rank EXCEPT ![d] = r + 1]
  /\ parent'[d].addr = s /\ parent'[d].rank = r
  /\ \A m \in Motes \ {d} : parent'[m] = parent[m]

MovesUp(s, d, r) ==
  /\ ChildAt(s, d, r)
  /\ UNCHANGED in_dodag
  /\ in_dodag[d]
  /\ r + 1 <= rank[d]
  /\ air' = ConsumeAndSend(s, d, DIO(r + 1))

Joins(s, d, r) ==
  /\ ChildAt(s, d, r)
  /\ ~in_dodag[d]
  /\ in_dodag' = [in_dodag EXCEPT ![d] = TRUE]
  /\ air' = Consume(s, d)

LEMMA RecvDIOCases ==
  ASSUME StableInv, FewMotes, NEW s \in Motes, NEW d \in Motes, RecvDIO(s, d),
         NEW r, r = Head(air[s][d]).rank
  PROVE  \/ SameTree /\ air' = Consume(s, d)
         \/ MovesUp(s, d, r) /\ (FromParent(s, d) => ParentNewRank(s, d))
         \/ Joins(s, d, r)
<1> USE DEF StableInv, TypeOK
<1>1. Received(s, d, "DIO")
  BY DEF RecvDIO, RecvParentDIO, RecvOtherDIO, ParentGone, ParentSameRank,
         ParentNewRank, ParentNew, ParentChanged, ParentNotChanged
<1>2. /\ s # d /\ d # Root /\ d \in Neighbours[s]
      /\ s \in Joined
      /\ r \in Nat /\ r < Cardinality(Joined) /\ r # INFINITE_RANK
      /\ RankBelow(r) = r + 1
      /\ rank[s] <= r /\ r <= LatestRank(s, d)
  BY <1>1, ReceivedRank
<1>3. ~ParentGone(s, d)
  BY <1>2 DEF ParentGone
<1>4. CASE ParentSameRank(s, d)
  <2>1. PICK rss \in Rss : parent' = [parent EXCEPT ![d].rss = rss]
    BY <1>4 DEF ParentSameRank
  <2>2. d \in Joined
    BY <1>4, FromParentJoined DEF ParentSameRank
  <2>3. parent[d] # NullParent
    BY <1>4, DodagAssumption DEF ParentSameRank, FromParent, NullParent
  <2>4. parent[d] \in Parents
    OBVIOUS
  <2>5. parent'[d].addr = parent[d].addr /\ parent'[d].rank = parent[d].rank
    BY <2>1, <2>4 DEF Parents
  <2>6. \A m \in Motes \ {d} : parent'[m] = parent[m]
    BY <2>1
  <2>7. SameTree
    BY <1>4, <2>3, <2>5, <2>6 DEF SameTree, ParentSameRank
  <2> QED BY <1>4, <2>7 DEF ParentSameRank
<1>5. CASE ParentNewRank(s, d)
  <2>1. d \in Joined
    BY <1>5, FromParentJoined DEF ParentNewRank
  <2>2. PICK rss \in Rss :
          parent' = [parent EXCEPT ![d] = [addr |-> s, rank |-> r, rss |-> rss]]
    BY <1>5, <2>1 DEF ParentNewRank, HeapContents, Joined
  <2>3. rank[d] = parent[d].rank + 1 /\ r <= parent[d].rank
    BY <1>2, <1>5, <2>1 DEF ParentOK, IsChild, LatestRank, ParentNewRank, FromParent
  <2>4. rank[d] \in Nat /\ parent[d].rank \in Nat
    BY RanksAreInts
  <2>5. r + 1 <= rank[d]
    BY <1>2, <2>3, <2>4
  <2>6. ChildAt(s, d, r)
    BY <1>2, <1>5, <2>2 DEF ChildAt, ParentNewRank
  <2> QED BY <1>2, <1>5, <2>1, <2>5, <2>6 DEF MovesUp, ParentNewRank, Joined
<1>6. CASE ParentChanged(s, d)
  <2>1. d \in Joined
    BY <1>6 DEF ParentChanged, Joined
  <2>2. PICK rss \in Rss :
          /\ is_better_parent(d, r, rss)
          /\ parent' = [parent EXCEPT ![d] = [addr |-> s, rank |-> r, rss |-> rss]]
    BY <1>6 DEF ParentChanged
  <2>3. rank[d] \in Nat /\ parent[d].rank \in Nat
    BY RanksAreInts
  <2>4. rank[d] = parent[d].rank + 1
    BY <1>2, <2>1 DEF ParentOK, IsChild
  <2>5. r + 1 <= rank[d]
    BY <1>2, <2>2, <2>3, <2>4 DEF is_better_parent
  <2>6. ChildAt(s, d, r)
    BY <1>2, <1>6, <2>2 DEF ChildAt, ParentChanged
  <2> QED BY <1>2, <1>6, <2>1, <2>5, <2>6 DEF MovesUp, ParentChanged, Joined
<1>7. CASE ParentNew(s, d)
  <2>1. PICK rss \in Rss :
          parent' = [parent EXCEPT ![d] = [addr |-> s, rank |-> r, rss |-> rss]]
    BY <1>7 DEF ParentNew
  <2>2. ChildAt(s, d, r)
    BY <1>2, <1>7, <2>1 DEF ChildAt, ParentNew
  <2> QED BY <1>7, <2>2 DEF Joins, ParentNew
<1>8. CASE ParentNotChanged(s, d)
  BY <1>8 DEF ParentNotChanged, SameTree
<1> QED BY <1>3, <1>4, <1>5, <1>6, <1>7, <1>8 DEF RecvDIO, RecvParentDIO, RecvOtherDIO

-----------------------------------------------------------------------------
(* Each kind of step keeps StableInv, and improves ranks. *)
LatestRises(s, d) ==
  \A x, y \in Motes : x # s \/ y # d => LatestRank(x, y) <= LatestRank(x, y)'

NotWorse == \A m \in Joined : in_dodag'[m] /\ rank'[m] <= rank[m]

LEMMA SameTreeInv ==
  ASSUME StableInv, SameTree
  PROVE  /\ RootOK' /\ OutsideOK' /\ BoundOK' /\ ParentOK' /\ NotWorse
         /\ \A x, y \in Motes : LatestRank(x, y)' = LatestRank(x, y)
<1>1. Joined' = Joined
  BY DEF SameTree, Joined
<1>2. RootOK' /\ OutsideOK' /\ BoundOK'
  BY <1>1 DEF StableInv, SameTree, RootOK, OutsideOK, BoundOK, Joined, NullParent
<1>3. ParentOK'
  BY <1>1 DEF StableInv, SameTree, ParentOK, IsChild, Joined
<1>4. NotWorse
  BY DodagAssumption DEF StableInv, TypeOK, Ranks, SameTree, NotWorse, Joined
<1>5. \A x, y \in Motes : LatestRank(x, y)' = LatestRank(x, y)
  BY <1>1 DEF SameTree, LatestRank
<1> QED BY <1>2, <1>3, <1>4, <1>5

LEMMA MovesUpInv ==
  ASSUME StableInv, FewMotes, NEW s \in Motes, NEW d \in Motes, NEW r, MovesUp(s, d, r)
  PROVE  /\ RootOK' /\ OutsideOK' /\ BoundOK' /\ ParentOK' /\ NotWorse
         /\ LatestRises(s, d) /\ LatestRank(s, d)' = r
<1> USE DEF MovesUp, ChildAt
<1>1. Joined' = Joined /\ d \in Joined
  BY DEF Joined
<1>2. \A m \in Motes : /\ rank[m] \in Nat /\ rank'[m] \in Nat
                       /\ rank'[m] = IF m = d THEN r + 1 ELSE rank[m]
  BY RanksAreInts DEF StableInv, TypeOK
<1>3. \A m \in Motes : rank'[m] <= rank[m]
  BY <1>2
<1>4. Cardinality(Joined) \in Nat
  BY JoinedCount DEF StableInv
<1>5. RootOK' /\ OutsideOK'
  BY <1>1, <1>2 DEF StableInv, RootOK, OutsideOK, NullParent, Joined
<1>6. BoundOK'
  BY <1>1, <1>2, <1>3, <1>4 DEF StableInv, BoundOK, Joined
<1>7. NotWorse
  BY <1>1, <1>3 DEF NotWorse, Joined
<1>8. \A m \in Motes : parent[m].rank \in Nat
  BY RanksAreInts DEF StableInv
<1>9. ASSUME NEW m \in Joined \ {Root} PROVE IsChild(m, parent[m])'
  <2>1. CASE m = d
    BY <1>1, <1>2, <2>1 DEF IsChild
  <2>2. CASE m # d
    <3>1. IsChild(m, parent[m]) /\ parent[m].addr \in Motes /\ m \in Motes
      BY DEF StableInv, ParentOK, IsChild, Joined
    <3>2. parent'[m] = parent[m] /\ rank'[m] = rank[m]
      BY <1>2, <2>2, <3>1
    <3>3. rank'[parent[m].addr] <= parent[m].rank
      BY <1>2, <1>3, <1>8, <3>1 DEF IsChild
    <3> QED BY <1>1, <3>1, <3>2, <3>3 DEF IsChild
  <2> QED BY <2>1, <2>2
<1>10. ParentOK'
  BY <1>1, <1>9 DEF ParentOK
<1>11. LatestRank(s, d)' = r
  BY <1>1 DEF LatestRank
<1>12. LatestRises(s, d)
  <2> SUFFICES ASSUME NEW x \in Motes, NEW y \in Motes, x # s \/ y # d
               PROVE  LatestRank(x, y) <= LatestRank(x, y)'
    BY DEF LatestRises
  <2>1. LatestRank(x, y) \in Int /\ LatestRank(x, y) <= Cardinality(Joined) - 1
    BY LatestRankBounds, RanksAreInts DEF StableInv
  <2>2. CASE y = d
    BY <1>1, <2>1, <2>2 DEF LatestRank
  <2>3. CASE y # d
    BY <1>1, <2>1, <2>3 DEF LatestRank
  <2> QED BY <2>2, <2>3
<1> QED BY <1>5, <1>6, <1>7, <1>10, <1>11, <1>12

LEMMA JoinsInv ==
  ASSUME StableInv, FewMotes, NEW s \in Motes, NEW d \in Motes, NEW r, Joins(s, d, r)
  PROVE  /\ RootOK' /\ OutsideOK' /\ BoundOK' /\ ParentOK' /\ NotWorse
         /\ LatestRises(s, d) /\ LatestRank(s, d)' = r
         /\ \A m \in Motes : rank'[m] <= rank[m]
<1> USE DEF Joins, ChildAt
<1>1. Joined' = Joined \cup {d} /\ d \notin Joined
  BY DEF Joined, StableInv, TypeOK
<1>2. \A m \in Motes : /\ rank[m] \in Nat /\ rank'[m] \in Nat
                       /\ rank'[m] = IF m = d THEN r + 1 ELSE rank[m]
  BY RanksAreInts DEF StableInv, TypeOK
<1>3. /\ Cardinality(Joined) \in Nat
      /\ Cardinality(Joined) <= INFINITE_RANK
      /\ Cardinality(Joined') = Cardinality(Joined) + 1
  BY <1>1, JoinedCount, FS_AddElement DEF StableInv
<1>4. rank[d] = INFINITE_RANK
  BY <1>1 DEF StableInv, OutsideOK
<1>5. \A m \in Motes : rank'[m] <= rank[m]
  BY <1>2, <1>3, <1>4, DodagAssumption
<1>6. RootOK' /\ OutsideOK'
  BY <1>1, <1>2 DEF StableInv, RootOK, OutsideOK, NullParent, Joined
<1>7. BoundOK'
  BY <1>1, <1>2, <1>3 DEF StableInv, BoundOK, Joined
<1>8. NotWorse
  BY <1>1, <1>5 DEF NotWorse, Joined
<1>9. \A m \in Motes : parent[m].rank \in Nat
  BY RanksAreInts DEF StableInv
<1>10. ASSUME NEW m \in Joined' \ {Root} PROVE IsChild(m, parent[m])'
  <2>1. CASE m = d
    BY <1>1, <1>2, <2>1 DEF IsChild
  <2>2. CASE m # d
    <3>1. IsChild(m, parent[m]) /\ parent[m].addr \in Joined /\ m \in Motes
      BY <1>1, <2>2 DEF StableInv, ParentOK, IsChild, Joined
    <3>2. parent'[m] = parent[m] /\ rank'[m] = rank[m] /\ parent[m].addr \in Motes
      BY <1>2, <2>2, <3>1 DEF Joined
    <3>3. rank'[parent[m].addr] <= parent[m].rank
      BY <1>2, <1>5, <1>9, <3>1, <3>2 DEF IsChild
    <3> QED BY <1>1, <3>1, <3>2, <3>3 DEF IsChild
  <2> QED BY <2>1, <2>2
<1>11. ParentOK'
  BY <1>10 DEF ParentOK
<1>12. LatestRank(s, d)' = r
  BY <1>1 DEF LatestRank
<1>13. LatestRises(s, d)
  <2> SUFFICES ASSUME NEW x \in Motes, NEW y \in Motes, x # s \/ y # d
               PROVE  LatestRank(x, y) <= LatestRank(x, y)'
    BY DEF LatestRises
  <2>1. LatestRank(x, y) \in Int /\ LatestRank(x, y) <= Cardinality(Joined) - 1
    BY LatestRankBounds, RanksAreInts DEF StableInv
  <2>2. CASE y = d
    BY <1>1, <1>3, <2>1, <2>2 DEF LatestRank
  <2>3. CASE y # d
    BY <1>1, <1>3, <1>9, <2>1, <2>3 DEF LatestRank
  <2> QED BY <2>2, <2>3
<1> QED BY <1>5, <1>6, <1>7, <1>8, <1>11, <1>12, <1>13

-----------------------------------------------------------------------------
(* The queues stay in descending order: the links that only lose their      *)
(* head, those that a broadcast is added to, and the others. *)
LEMMA OldDescent ==
  ASSUME StableInv, FewMotes, NEW x \in Motes, NEW y \in Motes
  PROVE  /\ Descends(air[x][y], rank[x], LatestRank(x, y))
         /\ air[x][y] \in Seq(Frames)
         /\ rank[x] \in Int /\ LatestRank(x, y) \in Int
PROOF BY RanksAreInts DEF StableInv, DescentOK, TypeOK

LEMMA KeepsDescent ==
  ASSUME StableInv, FewMotes, NEW x \in Motes, NEW y \in Motes,
         NEW lo \in Int, NEW hi \in Int, lo <= rank[x], LatestRank(x, y) <= hi
  PROVE  /\ Descends(air[x][y], lo, hi)
         /\ air[x][y] # <<>> => Descends(Tail(air[x][y]), lo, hi)
<1>1. Descends(air[x][y], lo, hi)
  BY OldDescent, DescendsWeaken
<1> QED BY <1>1, OldDescent, DescendsTail

LEMMA SendsDescent ==
  ASSUME StableInv, FewMotes, NEW m \in Motes, NEW y \in Motes, NEW f \in Frames,
         NEW lo \in Int, NEW hi \in Int, lo <= rank[m], LatestRank(m, y) <= hi,
         f.type = "DIO" => m \in Joined /\ f.rank = lo
  PROVE  Descends(Broadcast(m, f)[y], lo, hi)
<1>1. Descends(air[m][y], lo, hi)
  BY KeepsDescent
<1>2. m \in Joined => rank[m] <= LatestRank(m, y)
  BY LatestRankBounds
<1>3. rank[m] \in Int /\ LatestRank(m, y) \in Int
  BY OldDescent
<1>4. m \in Joined => lo <= hi
  BY <1>2, <1>3
<1>5. TypeOK
  BY DEF StableInv
<1> QED BY <1>1, <1>4, <1>5, DescendsBroadcast

LEMMA SameTreeInts ==
  ASSUME StableInv, FewMotes, SameTree, NEW x \in Motes, NEW y \in Motes
  PROVE  /\ rank'[x] = rank[x] /\ rank[x] \in Int
         /\ LatestRank(x, y)' = LatestRank(x, y) /\ LatestRank(x, y) \in Int
PROOF BY SameTreeInv, OldDescent DEF SameTree

LEMMA SendDescent ==
  ASSUME StableInv, FewMotes, SameTree, NEW m \in Motes, NEW f \in Frames,
         f.type = "DIO" => m \in Joined /\ f.rank = rank[m],
         air' = [air EXCEPT ![m] = Broadcast(m, f)]
  PROVE  DescentOK'
<1> SUFFICES ASSUME NEW x \in Motes, NEW y \in Motes
             PROVE  Descends(air'[x][y], rank'[x], LatestRank(x, y)')
  BY DEF DescentOK, Descends
<1>1. air'[x][y] = IF x = m THEN Broadcast(m, f)[y] ELSE air[x][y]
  BY DEF StableInv, TypeOK
<1>2. /\ rank'[x] = rank[x] /\ rank[x] \in Int
      /\ LatestRank(x, y)' = LatestRank(x, y) /\ LatestRank(x, y) \in Int
  BY SameTreeInts
<1>3. Descends(air[x][y], rank[x], LatestRank(x, y))
  BY OldDescent
<1>4. x = m => Descends(Broadcast(m, f)[y], rank[x], LatestRank(x, y))
  BY <1>2, SendsDescent
<1> QED BY <1>1, <1>2, <1>3, <1>4

LEMMA ConsumeDescent ==
  ASSUME StableInv, FewMotes, SameTree, NEW s \in Motes, NEW d \in Motes,
         air[s][d] # <<>>, air' = Consume(s, d)
  PROVE  DescentOK'
<1> SUFFICES ASSUME NEW x \in Motes, NEW y \in Motes
             PROVE  Descends(air'[x][y], rank'[x], LatestRank(x, y)')
  BY DEF DescentOK, Descends
<1>1. air'[x][y] = IF x = s /\ y = d THEN Tail(air[x][y]) ELSE air[x][y]
  BY DEF StableInv, TypeOK, Consume
<1>2. /\ rank'[x] = rank[x] /\ rank[x] \in Int
      /\ LatestRank(x, y)' = LatestRank(x, y) /\ LatestRank(x, y) \in Int
  BY SameTreeInts
<1>3. /\ Descends(air[x][y], rank[x], LatestRank(x, y))
      /\ air[x][y] # <<>> => Descends(Tail(air[x][y]), rank[x], LatestRank(x, y))
  BY <1>2, KeepsDescent
<1> QED BY <1>1, <1>2, <1>3

LEMMA AnswerDescent ==
  ASSUME StableInv, FewMotes, SameTree, NEW s \in Motes, NEW d \in Motes, s # d,
         air[s][d] # <<>>, d \in Joined, air' = ConsumeAndSend(s, d, DIO(rank[d]))
  PROVE  DescentOK'
<1> SUFFICES ASSUME NEW x \in Motes, NEW y \in Motes
             PROVE  Descends(air'[x][y], rank'[x], LatestRank(x, y)')
  BY DEF DescentOK, Descends
<1> DEFINE f == DIO(rank[d])
<1>1. air'[x][y] = IF x = d THEN Broadcast(d, f)[y]
                   ELSE IF x = s /\ y = d THEN Tail(air[x][y]) ELSE air[x][y]
  BY DEF StableInv, TypeOK, ConsumeAndSend
<1>2. /\ rank'[x] = rank[x] /\ rank[x] \in Int
      /\ LatestRank(x, y)' = LatestRank(x, y) /\ LatestRank(x, y) \in Int
  BY SameTreeInts
<1>3. /\ Descends(air[x][y], rank[x], LatestRank(x, y))
      /\ air[x][y] # <<>> => Descends(Tail(air[x][y]), rank[x], LatestRank(x, y))
  BY <1>2, KeepsDescent
<1>4. f \in Frames /\ f.rank = rank[d]
  BY DIOType DEF StableInv, TypeOK, DIO
<1> HIDE DEF f
<1>5. x = d => Descends(Broadcast(d, f)[y], rank[x], LatestRank(x, y))
  BY <1>2, <1>4, SendsDescent
<1> QED BY <1>1, <1>2, <1>3, <1>5

LEMMA ChildInts ==
  ASSUME StableInv, FewMotes, NEW s \in Motes, NEW d \in Motes, NEW r, ChildAt(s, d, r),
         NEW x \in Motes
  PROVE  /\ rank[x] \in Int /\ rank'[x] \in Int /\ r \in Nat
         /\ rank'[x] = IF x = d THEN r + 1 ELSE rank[x]
         /\ parent'[x].rank \in Nat
<1>1. rank[x] \in Nat /\ parent[x].rank \in Nat
  BY RanksAreInts DEF StableInv
<1>2. rank'[x] = IF x = d THEN r + 1 ELSE rank[x]
  BY DEF ChildAt, StableInv, TypeOK
<1>3. x # d => parent'[x] = parent[x]
  BY DEF ChildAt
<1> QED BY <1>1, <1>2, <1>3 DEF ChildAt

LEMMA MovesUpDescent ==
  ASSUME StableInv, FewMotes, NEW s \in Motes, NEW d \in Motes, NEW r, MovesUp(s, d, r),
         Descends(Tail(air[s][d]), rank[s], r)
  PROVE  DescentOK'
<1> SUFFICES ASSUME NEW x \in Motes, NEW y \in Motes
             PROVE  Descends(air'[x][y], rank'[x], LatestRank(x, y)')
  BY DEF DescentOK, Descends
<1> DEFINE f == DIO(r + 1)
<1>1. air'[x][y] = IF x = d THEN Broadcast(d, f)[y]
                   ELSE IF x = s /\ y = d THEN Tail(air[x][y]) ELSE air[x][y]
  BY DEF StableInv, TypeOK, ConsumeAndSend, MovesUp, ChildAt
<1>2. /\ rank[x] \in Int /\ rank'[x] \in Int /\ r \in Nat
      /\ rank'[x] = IF x = d THEN r + 1 ELSE rank[x]
      /\ rank'[x] <= rank[x]
  BY ChildInts DEF MovesUp
<1>3. f \in Frames /\ f.rank = r + 1
  <2>1. rank[d] \in Ranks /\ r + 1 <= rank[d] /\ r \in Nat
    BY DEF StableInv, TypeOK, MovesUp, ChildAt
  <2>2. r + 1 \in Ranks
    BY <2>1, DodagAssumption DEF Ranks
  <2> QED BY <2>2, DIOType DEF DIO
<1> HIDE DEF f
<1>4. CASE x = s /\ y = d
  <2>1. s # d
    BY DEF MovesUp, ChildAt
  <2>2. LatestRank(s, d)' = r
    BY MovesUpInv
  <2>3. air'[x][y] = Tail(air[s][d]) /\ rank'[x] = rank[s]
    BY <1>1, <1>2, <1>4, <2>1
  <2> QED BY <1>4, <2>2, <2>3
<1>5. CASE ~(x = s /\ y = d)
  <2>1. LatestRank(x, y) <= LatestRank(x, y)'
    BY <1>5, MovesUpInv DEF LatestRises
  <2>2. LatestRank(x, y)' \in Int
    <3>1. Joined' = Joined /\ d \in Joined
      BY DEF MovesUp, Joined
    <3>2. parent'[y].rank \in Nat
      BY ChildInts DEF MovesUp
    <3> QED BY <3>1, <3>2, JoinedCount DEF LatestRank, StableInv
  <2>3. Descends(air[x][y], rank'[x], LatestRank(x, y)')
    BY <1>2, <2>1, <2>2, KeepsDescent
  <2>4. x = d => Descends(Broadcast(d, f)[y], rank'[x], LatestRank(x, y)')
    <3>1. d \in Joined
      BY DEF MovesUp, Joined
    <3> QED BY <1>2, <1>3, <2>1, <2>2, <3>1, SendsDescent
  <2> QED BY <1>1, <1>5, <2>3, <2>4
<1> QED BY <1>4, <1>5

LEMMA JoinsDescent ==
  ASSUME StableInv, FewMotes, NEW s \in Motes, NEW d \in Motes, NEW r, Joins(s, d, r),
         Descends(Tail(air[s][d]), rank[s], r)
  PROVE  DescentOK'
<1> SUFFICES ASSUME NEW x \in Motes, NEW y \in Motes
             PROVE  Descends(air'[x][y], rank'[x], LatestRank(x, y)')
  BY DEF DescentOK, Descends
<1>1. air'[x][y] = IF x = s /\ y = d THEN Tail(air[x][y]) ELSE air[x][y]
  BY DEF StableInv, TypeOK, Consume, Joins
<1>2. /\ rank[x] \in Int /\ rank'[x] \in Int /\ r \in Nat
      /\ rank'[x] = IF x = d THEN r + 1 ELSE rank[x]
      /\ rank'[x] <= rank[x]
  <2>1. ChildAt(s, d, r)
    BY DEF Joins
  <2>2. rank'[x] <= rank[x]
    BY JoinsInv
  <2> QED BY <2>1, <2>2, ChildInts
<1>3. CASE x = s /\ y = d
  BY <1>1, <1>2, <1>3, JoinsInv DEF Joins, ChildAt
<1>4. CASE ~(x = s /\ y = d)
  <2>1. LatestRank(x, y) <= LatestRank(x, y)'
    BY <1>4, JoinsInv DEF LatestRises
  <2>2. LatestRank(x, y)' \in Int
    <3>1. Cardinality(Joined') \in Nat
      <4>1. Joined' = Joined \cup {d}
        BY DEF Joins, Joined, StableInv, TypeOK
      <4>2. IsFiniteSet(Joined)
        BY JoinedCount DEF StableInv
      <4>3. IsFiniteSet(Joined')
        BY <4>1, <4>2, FS_AddElement
      <4> QED BY <4>3, FS_CardinalityType
    <3>2. parent'[y].rank \in Nat
      <4>1. ChildAt(s, d, r)
        BY DEF Joins
      <4> QED BY <4>1, ChildInts
    <3> QED BY <3>1, <3>2 DEF LatestRank
  <2>3. Descends(air[x][y], rank'[x], LatestRank(x, y)')
    BY <1>2, <2>1, <2>2, KeepsDescent
  <2> QED BY <1>1, <1>4, <2>3
<1> QED BY <1>3, <1>4

-----------------------------------------------------------------------------
(* StableInv is inductive. *)
LEMMA StableInit == FewMotes /\ Init => StableInv
<1> SUFFICES ASSUME FewMotes, Init PROVE StableInv
  OBVIOUS
<1>1. TypeOK
  BY InitType
<1>2. \A s, d \in Motes : air[s][d] = <<>>
  BY DEF Init
<1>3. 1 .. Len(<<>>) = {}
  OBVIOUS
<1>4. Joined = {Root}
  BY DodagAssumption DEF Init, Joined
<1>5. AirOK /\ DescentOK
  BY <1>2, <1>3 DEF AirOK, DescentOK, Descends
<1>6. RootOK /\ OutsideOK /\ ParentOK
  BY <1>4, DodagAssumption DEF Init, RootOK, OutsideOK, ParentOK, Joined
<1>7. BoundOK
  <2>1. Cardinality(Joined) = 1
    BY <1>4, FS_Singleton, Zenon
  <2>2. rank[Root] = 0
    BY DodagAssumption DEF Init
  <2> QED BY <1>4, <2>1, <2>2 DEF BoundOK
<1> QED BY <1>1, <1>5, <1>6, <1>7 DEF StableInv

(* Steps that leave the tree as it is, and what they do to the air. *)
LEMMA StableNextCases ==
  ASSUME StableInv, FewMotes, StableNext
  PROVE  \/ SameTree /\ DescentOK'
         \/ \E s, d \in Motes, r \in Nat :
              /\ RecvDIO(s, d)
              /\ \/ MovesUp(s, d, r) /\ (FromParent(s, d) => ParentNewRank(s, d))
                 \/ Joins(s, d, r)
              /\ DescentOK'
<1>1. ASSUME NEW m \in Motes, SendDIO(m) PROVE SameTree /\ DescentOK'
  <2>1. SameTree
    BY <1>1 DEF SendDIO, SameTree
  <2>2. DIO(rank[m]) \in Frames
    BY DIOType DEF StableInv, TypeOK
  <2>3. m \in Joined /\ DIO(rank[m]).rank = rank[m]
    BY <1>1 DEF SendDIO, Joined, DIO
  <2> QED BY <1>1, <2>1, <2>2, <2>3, SendDescent DEF SendDIO
<1>2. ASSUME NEW m \in Motes, SendDIS(m) PROVE SameTree /\ DescentOK'
  <2>1. parent[m] = NullParent
    BY <1>2 DEF SendDIS, StableInv, OutsideOK, Joined
  <2>2. parent' = parent
    BY <1>2, <2>1 DEF SendDIS, HeapContents, StableInv, TypeOK
  <2>3. SameTree
    BY <1>2, <2>2 DEF SendDIS, SameTree
  <2>4. DIS \in Frames /\ DIS.type # "DIO"
    BY DodagAssumption DEF DIS, Frames, Ranks
  <2> QED BY <1>2, <2>3, <2>4, SendDescent DEF SendDIS
<1>3. ASSUME NEW s \in Motes, NEW d \in Motes, Lose(s, d) PROVE SameTree /\ DescentOK'
  <2>1. SameTree
    BY <1>3 DEF Lose, SameTree
  <2> QED BY <1>3, <2>1, ConsumeDescent DEF Lose, Consume
<1>4. ASSUME NEW s \in Motes, NEW d \in Motes, RecvDIS(s, d) PROVE SameTree /\ DescentOK'
  <2>1. SameTree
    BY <1>4 DEF RecvDIS, SameTree
  <2>2. s # d /\ air[s][d] # <<>>
    BY <1>4, ReceivedFrom DEF RecvDIS, StableInv
  <2>3. CASE air' = Consume(s, d)
    BY <2>1, <2>2, <2>3, ConsumeDescent
  <2>4. CASE air' = ConsumeAndSend(s, d, DIO(rank[d])) /\ d \in Joined
    BY <2>1, <2>2, <2>4, AnswerDescent
  <2> QED BY <1>4, <2>1, <2>3, <2>4 DEF RecvDIS, Joined
<1>5. ASSUME NEW s \in Motes, NEW d \in Motes, RecvDIO(s, d)
      PROVE  \/ SameTree /\ DescentOK'
             \/ \E r \in Nat :
                  /\ \/ MovesUp(s, d, r) /\ (FromParent(s, d) => ParentNewRank(s, d))
                     \/ Joins(s, d, r)
                  /\ DescentOK'
  <2> DEFINE r == Head(air[s][d]).rank
  <2>1. Received(s, d, "DIO")
    BY <1>5 DEF RecvDIO, RecvParentDIO, RecvOtherDIO, ParentGone, ParentSameRank,
                ParentNewRank, ParentNew, ParentChanged, ParentNotChanged
  <2>2. Descends(Tail(air[s][d]), rank[s], r) /\ r \in Nat
    BY <2>1, ReceivedRank
  <2>3. air[s][d] # <<>>
    BY <2>1 DEF Received
  <2>4. \/ SameTree /\ air' = Consume(s, d)
        \/ MovesUp(s, d, r) /\ (FromParent(s, d) => ParentNewRank(s, d))
        \/ Joins(s, d, r)
    BY <1>5, RecvDIOCases
  <2> HIDE DEF r
  <2>5. CASE SameTree /\ air' = Consume(s, d)
    BY <2>3, <2>5, ConsumeDescent
  <2>6. CASE MovesUp(s, d, r) /\ (FromParent(s, d) => ParentNewRank(s, d))
    BY <2>2, <2>6, MovesUpDescent
  <2>7. CASE Joins(s, d, r)
    BY <2>2, <2>7, JoinsDescent
  <2> QED BY <2>4, <2>5, <2>6, <2>7
<1> QED BY <1>1, <1>2, <1>3, <1>4, <1>5 DEF StableNext, SendCallback

LEMMA StableStep ==
  ASSUME StableInv, FewMotes, StableNext
  PROVE  StableInv' /\ NotWorse
<1>1. TypeOK' /\ AirOK'
  BY StableNextType, StableNextAir DEF StableInv
<1>2. CASE SameTree /\ DescentOK'
  BY <1>1, <1>2, SameTreeInv DEF StableInv
<1>3. ASSUME NEW s \in Motes, NEW d \in Motes, NEW r \in Nat, MovesUp(s, d, r), DescentOK'
      PROVE  StableInv' /\ NotWorse
  BY <1>1, <1>3, MovesUpInv DEF StableInv
<1>4. ASSUME NEW s \in Motes, NEW d \in Motes, NEW r \in Nat, Joins(s, d, r), DescentOK'
      PROVE  StableInv' /\ NotWorse
  BY <1>1, <1>4, JoinsInv DEF StableInv
<1> QED BY <1>2, <1>3, <1>4, StableNextCases

LEMMA StableInvStep ==
  ASSUME StableInv, FewMotes, [StableNext]_vars
  PROVE  StableInv'
<1>1. CASE StableNext
  BY <1>1, StableStep
<1>2. CASE UNCHANGED vars
  <2>1. Joined' = Joined
    BY <1>2 DEF vars, Joined
  <2>2. TypeOK' /\ AirOK'
    BY <1>2 DEF StableInv, vars, TypeOK, AirOK, Hears
  <2>3. RootOK' /\ OutsideOK' /\ BoundOK' /\ ParentOK'
    BY <1>2, <2>1
       DEF StableInv, vars, RootOK, OutsideOK, BoundOK, ParentOK, IsChild, NullParent
  <2>4. \A s, d \in Motes : LatestRank(s, d)' = LatestRank(s, d)
    BY <1>2, <2>1 DEF vars, LatestRank
  <2>5. DescentOK'
    BY <1>2, <2>4 DEF StableInv, vars, DescentOK, Descends
  <2> QED BY <2>2, <2>3, <2>5 DEF StableInv
<1> QED BY <1>1, <1>2

LEMMA StableInvCorrect == FewMotes => (StableSpec => []StableInv)
<1>1. SUFFICES ASSUME FewMotes PROVE StableSpec => []StableInv
  OBVIOUS
<1>2. Init => StableInv
  BY <1>1, StableInit
<1>3. StableInv /\ [StableNext]_vars => StableInv'
  BY <1>1, StableInvStep
<1> QED BY <1>2, <1>3, PTL DEF StableSpec

LEMMA StableDescends ==
  ASSUME StableInv, FewMotes
  PROVE  RanksDescend
<1> SUFFICES ASSUME NEW m \in Joined \ {Root}
             PROVE  parent[m].addr \in Joined /\ rank[parent[m].addr] < rank[m]
  BY DEF RanksDescend
<1>1. IsChild(m, parent[m]) /\ m \in Motes
  BY DEF StableInv, ParentOK, Joined
<1>2. parent[m].addr \in Motes
  BY <1>1 DEF IsChild, Joined
<1>3. rank[m] \in Nat /\ parent[m].rank \in Nat /\ rank[parent[m].addr] \in Nat
  BY <1>1, <1>2, RanksAreInts DEF StableInv
<1> QED BY <1>1, <1>3 DEF IsChild

(* Without timeouts and reboots, and with no more motes than ranks, every   *)
(* mote in the DODAG has a parent in the DODAG of a strictly smaller rank,  *)
(* so parents form no cycle (routing.c:79-125, 197-226). *)
THEOREM Descending == FewMotes => (StableSpec => []RanksDescend)
<1>1. SUFFICES ASSUME FewMotes PROVE StableSpec => []RanksDescend
  OBVIOUS
<1>2. StableInv => RanksDescend
  BY <1>1, StableDescends
<1>3. StableSpec => []StableInv
  BY <1>1, StableInvCorrect
<1> QED BY <1>2, <1>3, PTL

(* Without timeouts and reboots no mote leaves the DODAG or gets a larger   *)
(* rank, however late DIOs arrive and however many are lost. *)
THEOREM Improving == FewMotes => (StableSpec => NeverWorse)
<1>1. SUFFICES ASSUME FewMotes PROVE StableSpec => NeverWorse
  OBVIOUS
<1>2. StableInv /\ [StableNext]_vars => [NotWorse]_vars
  BY <1>1, StableStep
<1>3. NotWorse <=> \A m \in Joined : in_dodag'[m] /\ rank'[m] <= rank[m]
  BY DEF NotWorse
<1>4. StableInv /\ [StableNext]_vars
        => [\A m \in Joined : in_dodag'[m] /\ rank'[m] <= rank[m]]_vars
  BY <1>2, <1>3
<1>5. StableSpec => []StableInv
  BY <1>1, StableInvCorrect
<1> QED BY <1>4, <1>5, PTL DEF StableSpec, NeverWorse

(* A mote that takes a parent, or its parent's new rank, stays as far away  *)
(* as the radio links say: the rank it goes by was true when it was sent.   *)
LEMMA ChildNotTooClose ==
  ASSUME StableInv, FewMotes, NeverTooClose, NEW s \in Motes, NEW d \in Motes, NEW r,
         ChildAt(s, d, r), Joined' \subseteq Joined \cup {d}
  PROVE  NeverTooClose'
<1> SUFFICES ASSUME NEW m \in Joined', NEW D \in AlongLinks PROVE rank'[m] >= D[m]
  BY DEF NeverTooClose, AlongLinks
<1>1. /\ \A x \in Motes : D[x] \in Int
      /\ \A x \in Motes : \A y \in Neighbours[x] : D[y] <= D[x] + 1
  <2>1. \A n \in 0 .. Cardinality(Motes) : n \in Int
    OBVIOUS
  <2> QED BY <2>1 DEF AlongLinks
<1>2. m \in Motes /\ rank'[m] = (IF m = d THEN r + 1 ELSE rank[m])
  BY DEF ChildAt, StableInv, TypeOK, Joined
<1>3. CASE m = d
  <2>1. D[d] <= D[s] + 1
    BY <1>1 DEF ChildAt
  <2>2. rank[s] >= D[s] /\ rank[s] <= r /\ r \in Nat
    BY DEF NeverTooClose, ChildAt
  <2>3. rank[s] \in Int
    BY RanksAreInts DEF StableInv
  <2> QED BY <1>1, <1>2, <1>3, <2>1, <2>2, <2>3
<1>4. CASE m # d
  BY <1>2, <1>4 DEF NeverTooClose
<1> QED BY <1>3, <1>4

LEMMA NotTooCloseInit ==
  ASSUME Init
  PROVE  NeverTooClose
<1> SUFFICES ASSUME NEW m \in Joined, NEW D \in AlongLinks PROVE rank[m] >= D[m]
  BY DEF NeverTooClose
<1>1. m = Root /\ rank[Root] = 0
  BY DodagAssumption DEF Init, Joined
<1>2. D[Root] = 0
  BY DEF AlongLinks
<1> QED BY <1>1, <1>2

LEMMA NotTooCloseStep ==
  ASSUME StableInv, FewMotes, NeverTooClose, [StableNext]_vars
  PROVE  NeverTooClose'
<1>1. CASE UNCHANGED <<in_dodag, rank>>
  <2> SUFFICES ASSUME NEW m \in Joined', NEW D \in AlongLinks PROVE rank'[m] >= D[m]
    BY DEF NeverTooClose, AlongLinks
  <2>1. m \in Joined /\ rank' = rank
    BY <1>1 DEF Joined
  <2> QED BY <2>1 DEF NeverTooClose
<1>2. ASSUME NEW s \in Motes, NEW d \in Motes, NEW r \in Nat,
             MovesUp(s, d, r) \/ Joins(s, d, r)
      PROVE  NeverTooClose'
  <2>1. ChildAt(s, d, r)
    BY <1>2 DEF MovesUp, Joins
  <2>2. Joined' \subseteq Joined \cup {d}
    <3>1. in_dodag' = in_dodag \/ in_dodag' = [in_dodag EXCEPT ![d] = TRUE]
      BY <1>2 DEF MovesUp, Joins
    <3>2. in_dodag \in [Motes -> BOOLEAN]
      BY DEF StableInv, TypeOK
    <3> QED BY <3>1, <3>2 DEF Joined
  <2> QED BY <2>1, <2>2, ChildNotTooClose
<1>3. CASE StableNext
  BY <1>1, <1>2, <1>3, StableNextCases DEF SameTree
<1> QED BY <1>1, <1>3 DEF vars

(* Without timeouts and reboots no mote's rank is smaller than its distance *)
(* from the root (routing.c:79-125, 213-226). *)
THEOREM NotTooClose == FewMotes => (StableSpec => []NeverTooClose)
<1>1. SUFFICES ASSUME FewMotes PROVE StableSpec => []NeverTooClose
  OBVIOUS
<1>2. Init => NeverTooClose
  BY NotTooCloseInit
<1>3. StableInv /\ NeverTooClose /\ [StableNext]_vars => NeverTooClose'
  BY <1>1, NotTooCloseStep
<1>4. StableSpec => []StableInv
  BY <1>1, StableInvCorrect
<1> QED BY <1>2, <1>3, <1>4, PTL DEF StableSpec

-----------------------------------------------------------------------------
(* The refinement of Tree.  The motes at or below the rank of m form a set  *)
(* that is closed below and leaves out every mote of a smaller rank.        *)
LEMMA SubtreeRanks ==
  ASSUME StableInv, FewMotes, NEW m \in Joined, NEW x \in T!Subtree(m)
  PROVE  rank[m] <= rank[x]
<1> DEFINE S == {y \in Joined : rank[m] <= rank[y]}
<1>1. \A y \in Motes : rank[y] \in Nat /\ parent[y].rank \in Nat
  BY RanksAreInts DEF StableInv
<1>2. m \in S /\ S \in SUBSET Motes /\ NoAddr \notin S
  BY <1>1, DodagAssumption DEF Joined
<1>3. ASSUME NEW y \in Motes, up[y] \in S PROVE y \in S
  <2>1. y \in Joined \ {Root} /\ up[y] = parent[y].addr
    BY <1>2, <1>3 DEF up, Joined
  <2>2. rank[y] = parent[y].rank + 1 /\ rank[parent[y].addr] <= parent[y].rank
    BY <2>1 DEF StableInv, ParentOK, IsChild
  <2>3. parent[y].addr \in Motes /\ rank[m] <= rank[parent[y].addr]
    BY <1>2, <1>3, <2>1
  <2>4. rank[m] \in Nat /\ rank[y] \in Nat /\ parent[y].rank \in Nat
        /\ rank[parent[y].addr] \in Nat
    BY <1>1, <2>3 DEF Joined
  <2> QED BY <2>1, <2>2, <2>3, <2>4
<1>4. T!ClosedBelow(S)
  BY <1>3 DEF T!ClosedBelow
<1> HIDE DEF S
<1>5. x \in S
  BY <1>2, <1>4 DEF T!Subtree
<1> QED BY <1>5 DEF S

LEMMA InTreeJoined ==
  ASSUME StableInv, NEW m \in Motes
  PROVE  /\ T!InTree(m) <=> m \in Joined
         /\ m \in Joined \ {Root} => up[m] = parent[m].addr /\ parent[m].addr \in Motes
<1>1. m \in Joined \ {Root} => parent[m].addr \in Joined
  BY DEF StableInv, ParentOK, IsChild
<1>2. Joined \subseteq Motes /\ Root \in Joined
  BY DodagAssumption DEF Joined, StableInv, RootOK
<1> QED BY <1>1, <1>2, DodagAssumption DEF T!InTree, up, Joined

LEMMA MovesUpTree ==
  ASSUME StableInv, FewMotes, NEW s \in Motes, NEW d \in Motes, NEW r \in Nat,
         MovesUp(s, d, r), ~FromParent(s, d)
  PROVE  T!Switch(d, s)
<1>1. /\ s \in Joined /\ d \in Joined /\ d # Root /\ s # d /\ d \in Neighbours[s]
      /\ rank[s] <= r /\ r + 1 <= rank[d]
  BY DEF MovesUp, ChildAt, Joined
<1>2. up' = [up EXCEPT ![d] = s]
  <2>1. \A y \in Motes : parent'[y].addr = IF y = d THEN s ELSE parent[y].addr
    BY DEF MovesUp, ChildAt
  <2> QED BY <1>1, <2>1 DEF up, MovesUp, Joined
<1>3. d \in T!Subtree(d) /\ s \notin T!Subtree(d)
  <2>1. rank[s] \in Nat /\ rank[d] \in Nat
    BY RanksAreInts DEF StableInv
  <2>2. ~(rank[d] <= rank[s])
    BY <1>1, <2>1
  <2> QED BY <1>1, <2>2, SubtreeRanks DEF T!Subtree
<1> QED BY <1>1, <1>2, <1>3, InTreeJoined DEF T!Switch

LEMMA JoinsTree ==
  ASSUME StableInv, FewMotes, NEW s \in Motes, NEW d \in Motes, NEW r \in Nat, Joins(s, d, r)
  PROVE  T!Attach(d, s)
<1>1. s \in Joined /\ d \notin Joined /\ d # Root /\ d \in Neighbours[s]
  BY DEF Joins, ChildAt, Joined
<1>2. up' = [up EXCEPT ![d] = s]
  <2>1. \A y \in Motes : parent'[y].addr = IF y = d THEN s ELSE parent[y].addr
    BY DEF Joins, ChildAt
  <2>2. \A y \in Motes : in_dodag'[y] = IF y = d THEN TRUE ELSE in_dodag[y]
    BY DEF Joins, StableInv, TypeOK
  <2> QED BY <1>1, <2>1, <2>2 DEF up
<1> QED BY <1>1, <1>2, InTreeJoined DEF T!Attach

LEMMA StableStepTree ==
  ASSUME StableInv, FewMotes, StableNext
  PROVE  [T!Next]_up
<1>1. CASE SameTree
  BY <1>1 DEF SameTree, up
<1>2. ASSUME NEW s \in Motes, NEW d \in Motes, NEW r \in Nat, MovesUp(s, d, r)
      PROVE  [T!Next]_up
  <2>1. CASE FromParent(s, d)
    <3>1. \A y \in Motes : parent'[y].addr = parent[y].addr
      BY <1>2, <2>1 DEF MovesUp, ChildAt, FromParent
    <3> QED BY <1>2, <3>1 DEF up, MovesUp
  <2>2. CASE ~FromParent(s, d)
    BY <1>2, <2>2, MovesUpTree DEF T!Next
  <2> QED BY <2>1, <2>2
<1>3. ASSUME NEW s \in Motes, NEW d \in Motes, NEW r \in Nat, Joins(s, d, r)
      PROVE  [T!Next]_up
  BY <1>3, JoinsTree DEF T!Next
<1> QED BY <1>1, <1>2, <1>3, StableNextCases

(* Without timeouts and reboots, and with no more motes than ranks, the     *)
(* protocol implements Tree: joining attaches a mote to the tree, and a     *)
(* change of parent never moves a mote below itself (routing.c:203-226).    *)
THEOREM ImplementsTree == FewMotes => (StableSpec => FormsTree)
<1>1. SUFFICES ASSUME FewMotes PROVE StableSpec => FormsTree
  OBVIOUS
<1>2. Init => T!Init
  BY DEF Init, T!Init, up
<1>3. StableInv /\ [StableNext]_vars => [T!Next]_up
  <2>1. StableInv /\ StableNext => [T!Next]_up
    BY <1>1, StableStepTree
  <2>2. UNCHANGED vars => UNCHANGED up
    BY DEF vars, up
  <2> QED BY <2>1, <2>2
<1>4. StableSpec => []StableInv
  BY <1>1, StableInvCorrect
<1> QED BY <1>2, <1>3, <1>4, PTL DEF StableSpec, FormsTree, T!Spec

(* Every mote of the DODAG is below the root: the one with the least rank   *)
(* among those that are not would have a parent with a lower rank, which is *)
(* below the root, and so would be the mote. *)
LEMMA StableReaches ==
  ASSUME StableInv, FewMotes
  PROVE  ReachesRoot
<1> SUFFICES ASSUME NEW m \in Joined, NEW S \in SUBSET Motes, Root \in S, T!ClosedBelow(S)
             PROVE  m \in S
  BY InTreeJoined, DodagAssumption DEF ReachesRoot, T!UnderRoot, T!Subtree, Joined
<1>1. SUFFICES ASSUME m \notin S PROVE FALSE
  OBVIOUS
<1>2. \A y \in Joined : y \in Motes /\ rank[y] \in Nat
  BY RanksAreInts DEF StableInv, Joined
<1>3. PICK x \in Joined \ S : \A y \in Joined \ S : rank[x] <= rank[y]
  <2> DEFINE Far == {rank[y] : y \in Joined \ S}
  <2>1. Far \in SUBSET Nat /\ Far # {}
    BY <1>1, <1>2
  <2>2. PICK r \in Far : \A k \in Far : r <= k
    <3> HIDE DEF Far
    <3> QED BY <2>1, Least
  <2> QED BY <2>2
<1>4. /\ x # Root
      /\ parent[x].addr \in Joined
      /\ rank[x] = parent[x].rank + 1
      /\ rank[parent[x].addr] <= parent[x].rank
  BY DEF StableInv, ParentOK, IsChild
<1>5. rank[parent[x].addr] < rank[x]
  <2>1. parent[x].rank \in Nat
    BY <1>2, RanksAreInts DEF StableInv
  <2> QED BY <1>2, <1>4, <2>1
<1>6. parent[x].addr \in S
  BY <1>2, <1>3, <1>4, <1>5
<1>7. up[x] = parent[x].addr /\ x \in Motes
  BY <1>2, <1>4, InTreeJoined
<1> QED BY <1>6, <1>7 DEF T!ClosedBelow

(* Without timeouts and reboots every mote in the DODAG reaches the root by *)
(* following parents: it is in the root's subtree (routing.c:144-195).      *)
THEOREM AllUnderRoot == FewMotes => (StableSpec => []ReachesRoot)
<1>1. SUFFICES ASSUME FewMotes PROVE StableSpec => []ReachesRoot
  OBVIOUS
<1>2. StableInv => ReachesRoot
  BY <1>1, StableReaches
<1>3. StableSpec => []StableInv
  BY <1>1, StableInvCorrect
<1> QED BY <1>2, <1>3, PTL

-----------------------------------------------------------------------------
(* The behaviours with faults are those without until the first one.        *)
LEMMA FaultsCount ==
  ASSUME TypeOK, Next
  PROVE  \/ StableNext /\ faults' = faults
         \/ FaultNext /\ faults' # 0
<1>1. StableNext => faults' = faults
  BY DEF StableNext, SendCallback, SendDIO, SendDIS, Lose, RecvDIS, RecvDIO, RecvParentDIO,
     RecvOtherDIO, ParentGone, ParentSameRank, ParentNewRank, ParentNew, ParentChanged,
     ParentNotChanged
<1>2. FaultNext => faults' # 0
  BY DEF FaultNext, ParentTimeout, Reboot, TypeOK
<1> QED BY <1>1, <1>2 DEF Next

QuietInv == StableInv /\ NeverTooClose

LEMMA QuietStep ==
  ASSUME FewMotes, TypeOK, faults = 0 => QuietInv, [Next]_vars, faults' = 0
  PROVE  /\ faults = 0
         /\ QuietInv'
         /\ StableNext \/ UNCHANGED vars
<1>1. faults = 0 /\ (StableNext \/ UNCHANGED vars)
  BY FaultsCount DEF vars
<1>2. StableInv'
  BY <1>1, StableInvStep DEF QuietInv
<1>3. NeverTooClose'
  BY <1>1, NotTooCloseStep DEF QuietInv
<1> QED BY <1>1, <1>2, <1>3 DEF QuietInv

LEMMA QuietUntilFault == FewMotes => (Spec => [](faults = 0 => QuietInv))
<1>1. SUFFICES ASSUME FewMotes PROVE Spec => [](faults = 0 => QuietInv)
  OBVIOUS
<1>2. Init => (faults = 0 => QuietInv)
  BY <1>1, StableInit, NotTooCloseInit DEF QuietInv
<1>3. TypeOK /\ (faults = 0 => QuietInv) /\ [Next]_vars => (faults = 0 => QuietInv)'
  BY <1>1, QuietStep
<1> QED BY <1>2, <1>3, TypeCorrect, PTL DEF Spec

(* Whatever happens afterwards, until the first parent timeout or reboot    *)
(* ranks descend towards the root, are not below the true distances, and    *)
(* every mote in the DODAG is below the root (routing.c:79-125, 197-226).   *)
THEOREM SoundUntilFault ==
  FewMotes => (Spec => [](faults = 0 => RanksDescend /\ NeverTooClose /\ ReachesRoot))
<1>1. SUFFICES ASSUME FewMotes
               PROVE Spec => [](faults = 0 => RanksDescend /\ NeverTooClose /\ ReachesRoot)
  OBVIOUS
<1>2. QuietInv => RanksDescend /\ NeverTooClose /\ ReachesRoot
  BY <1>1, StableDescends, StableReaches DEF QuietInv
<1>3. Spec => [](faults = 0 => QuietInv)
  BY <1>1, QuietUntilFault
<1> QED BY <1>2, <1>3, PTL

(* Until the first parent timeout or reboot no mote leaves the DODAG, not   *)
(* even because a parent advertises INFINITE_RANK, and no rank gets worse   *)
(* (sensor-mote.c:276-290). *)
THEOREM ImprovingUntilFault ==
  FewMotes =>
    (Spec => [][faults' = 0 => \A m \in Joined : in_dodag'[m] /\ rank'[m] <= rank[m]]_vars)
<1> DEFINE Better == \A m \in Joined : in_dodag'[m] /\ rank'[m] <= rank[m]
<1>1. SUFFICES ASSUME FewMotes PROVE Spec => [][faults' = 0 => Better]_vars
  OBVIOUS
<1>2. TypeOK /\ (faults = 0 => QuietInv) /\ [Next]_vars => [faults' = 0 => Better]_vars
  BY <1>1, QuietStep, StableStep DEF QuietInv, NotWorse
<1>3. Spec => [](faults = 0 => QuietInv)
  BY <1>1, QuietUntilFault
<1> QED BY <1>2, <1>3, TypeCorrect, PTL DEF Spec

-----------------------------------------------------------------------------
(* The refinement of Uplinks.  Its tree is the tree of ImplementsTree.      *)
Addr == [m \in Motes |-> parent[m].addr]
SameLinks == UNCHANGED <<in_dodag, Addr>>

LEMMA UplinksTree ==
  /\ U!up = up
  /\ (U!up)' = up'
  /\ \A m, p \in Motes : T!Attach(m, p) => U!T!Attach(m, p)
  /\ \A m, p \in Motes : T!Switch(m, p) => U!T!Switch(m, p)
<1>1. U!up = up /\ (U!up)' = up'
  BY DEF U!up, up
<1>2. ASSUME NEW m \in Motes, NEW p \in Motes
      PROVE  /\ T!Attach(m, p) => U!T!Attach(m, p)
             /\ T!Switch(m, p) => U!T!Switch(m, p)
  <2>1. \A x : U!T!InTree(x) <=> T!InTree(x)
    BY <1>1 DEF U!T!InTree, T!InTree
  <2>2. U!T!Subtree(m) = T!Subtree(m)
    BY <1>1 DEF U!T!Subtree, T!Subtree, U!T!ClosedBelow, T!ClosedBelow
  <2> QED BY <1>1, <2>1, <2>2 DEF U!T!Attach, T!Attach, U!T!Switch, T!Switch
<1> QED BY <1>1, <1>2

(* How the addresses change when one mote's parent does. *)
LEMMA NewAddr ==
  ASSUME TypeOK, NEW d \in Motes, NEW p, parent' = [parent EXCEPT ![d] = p]
  PROVE  Addr' = [Addr EXCEPT ![d] = p.addr]
BY DEF TypeOK, Addr

LEMMA NewSender ==
  ASSUME TypeOK, NEW d \in Motes, NEW s, NEW r, NEW rss,
         parent' = [parent EXCEPT ![d] = [addr |-> s, rank |-> r, rss |-> rss]]
  PROVE  Addr' = [Addr EXCEPT ![d] = s]
<1> DEFINE p == [addr |-> s, rank |-> r, rss |-> rss]
<1>1. p.addr = s /\ parent' = [parent EXCEPT ![d] = p]
  OBVIOUS
<1> HIDE DEF p
<1> QED BY <1>1, NewAddr

(* A handler of a mote outside the DODAG that allocates memory. *)
LEMMA AllocateLinks ==
  ASSUME TypeOK, NEW m \in Motes, ~in_dodag[m], parent[m] # NullParent,
         NEW p, p.addr = parent[m].addr \/ p \in HeapJunk,
         parent' = [parent EXCEPT ![m] = p], UNCHANGED <<in_dodag, faults>>
  PROVE  SameLinks \/ U!Allocate(m)
<1>1. Addr' = [Addr EXCEPT ![m] = p.addr]
  BY NewAddr
<1>2. CASE p.addr = parent[m].addr
  BY <1>1, <1>2 DEF Addr, SameLinks
<1>3. CASE p \in HeapJunk
  <2>1. parent[m].addr # Null
    BY PointerType DEF TypeOK
  <2>2. p.addr \in {q.addr : q \in HeapJunk}
    BY <1>3
  <2> QED BY <1>1, <2>1, <2>2 DEF U!Allocate, Addr
<1> QED BY <1>2, <1>3

(* detach() *)
LEMMA DetachLinks ==
  ASSUME TypeOK, NEW m \in Motes \ {Root}, in_dodag[m], detach(m), faults' # 0
  PROVE  U!Detach(m)
<1>1. PICK p \in {parent[m]} \cup HeapJunk : parent' = [parent EXCEPT ![m] = p]
  BY DEF detach
<1>2. Addr' = [Addr EXCEPT ![m] = p.addr]
  BY <1>1, NewAddr
<1>3. p.addr \in {Addr[m]} \cup {q.addr : q \in HeapJunk}
  BY <1>1 DEF Addr
<1> QED BY <1>2, <1>3 DEF U!Detach, detach, Addr

(* Until the first fault. *)
LEMMA QuietLinks ==
  ASSUME FewMotes, StableInv, StableNext, UNCHANGED faults
  PROVE  SameLinks \/ U!Next
<1>1. CASE SameTree
  BY <1>1 DEF SameTree, SameLinks, Addr
<1>2. ASSUME NEW s \in Motes, NEW d \in Motes, NEW r \in Nat, MovesUp(s, d, r),
             FromParent(s, d) => ParentNewRank(s, d)
      PROVE  SameLinks \/ U!Next
  <2>1. Addr' = [Addr EXCEPT ![d] = s]
    BY <1>2 DEF MovesUp, ChildAt, Addr
  <2>2. CASE FromParent(s, d)
    BY <1>2, <2>1, <2>2 DEF SameLinks, MovesUp, Addr, FromParent
  <2>3. CASE ~FromParent(s, d)
    <3>1. T!Switch(d, s)
      BY <1>2, <2>3, MovesUpTree
    <3>2. U!Change(d, s)
      BY <1>2, <2>1, <2>3, <3>1, UplinksTree
         DEF U!Change, MovesUp, ChildAt, FromParent, Addr
    <3> QED BY <3>2 DEF U!Next
  <2> QED BY <2>2, <2>3
<1>3. ASSUME NEW s \in Motes, NEW d \in Motes, NEW r \in Nat, Joins(s, d, r)
      PROVE  SameLinks \/ U!Next
  <2>1. Addr' = [Addr EXCEPT ![d] = s]
    BY <1>3 DEF Joins, ChildAt, Addr
  <2>2. s # parent[d].addr
    BY <1>3, DodagAssumption DEF Joins, StableInv, OutsideOK, Joined, NullParent
  <2>3. T!Attach(d, s)
    BY <1>3, JoinsTree
  <2>4. U!Join(d, s)
    BY <1>3, <2>1, <2>2, <2>3, UplinksTree DEF U!Join, Joins, ChildAt, Addr
  <2> QED BY <2>4 DEF U!Next
<1> QED BY <1>1, <1>2, <1>3, StableNextCases

(* After the first fault: what a DIO changes. *)
LEMMA FaultyDIOLinks ==
  ASSUME FaultInv, faults # 0, UNCHANGED faults, NEW s \in Motes, NEW d \in Motes,
         RecvDIO(s, d)
  PROVE  SameLinks \/ U!Next
<1> DEFINE r == Head(air[s][d]).rank
<1>1. Received(s, d, "DIO")
  BY DEF RecvDIO, RecvParentDIO, RecvOtherDIO, ParentGone, ParentSameRank,
         ParentNewRank, ParentNew, ParentChanged, ParentNotChanged
<1>2. d \in Neighbours[s] /\ d # Root /\ TypeOK
  BY <1>1, ReceivedFrom DEF FaultInv
<1> HIDE DEF r
<1>3. CASE ParentGone(s, d)
  <2>1. CASE in_dodag[d]
    <3>1. detach(d)
      BY <1>3, <2>1 DEF ParentGone
    <3> QED BY <1>2, <2>1, <3>1, DetachLinks DEF U!Next
  <2>2. CASE ~in_dodag[d]
    BY <1>3, <2>2 DEF ParentGone, SameLinks, Addr
  <2> QED BY <2>1, <2>2
<1>4. CASE ParentSameRank(s, d)
  <2>1. PICK rss \in Rss : parent' = [parent EXCEPT ![d].rss = rss]
    BY <1>4 DEF ParentSameRank
  <2>2. parent[d] \in Memory
    BY <1>2, <1>4, PointerType, DodagAssumption
       DEF ParentSameRank, FromParent, NullParent, TypeOK
  <2>3. parent' = [parent EXCEPT ![d] = [parent[d] EXCEPT !.rss = rss]]
    BY <2>1
  <2>4. [parent[d] EXCEPT !.rss = rss].addr = parent[d].addr
    BY <2>2 DEF Memory
  <2> QED BY <1>2, <1>4, <2>3, <2>4, NewAddr DEF ParentSameRank, SameLinks, Addr
<1>5. CASE ParentNewRank(s, d)
  <2>1. PICK rss \in Rss :
          \E p \in HeapContents(d, [addr |-> s, rank |-> r, rss |-> rss]) :
            parent' = [parent EXCEPT ![d] = p]
    BY <1>5 DEF ParentNewRank, r
  <2>2. PICK p : /\ p \in HeapContents(d, [addr |-> s, rank |-> r, rss |-> rss])
                 /\ parent' = [parent EXCEPT ![d] = p]
    BY <2>1
  <2>3. s = parent[d].addr /\ parent[d] # NullParent /\ UNCHANGED in_dodag
    BY <1>5, DodagAssumption DEF ParentNewRank, FromParent, NullParent
  <2>4. p.addr = parent[d].addr \/ (~in_dodag[d] /\ p \in HeapJunk)
    BY <2>2, <2>3 DEF HeapContents
  <2>5. CASE p.addr = parent[d].addr
    BY <1>2, <2>2, <2>3, <2>5, NewAddr DEF SameLinks, Addr
  <2>6. CASE ~in_dodag[d] /\ p \in HeapJunk
    BY <1>2, <2>2, <2>3, <2>6, AllocateLinks DEF U!Next
  <2> QED BY <2>4, <2>5, <2>6
<1>6. CASE ParentNew(s, d)
  <2>1. PICK rss \in Rss :
          parent' = [parent EXCEPT ![d] = [addr |-> s, rank |-> r, rss |-> rss]]
    BY <1>6 DEF ParentNew, r
  <2>2. Addr' = [Addr EXCEPT ![d] = s]
    BY <1>2, <2>1, NewSender
  <2>3. U!Join(d, s)
    BY <1>2, <1>6, <2>2 DEF U!Join, ParentNew, FromParent, Addr
  <2> QED BY <2>3 DEF U!Next
<1>7. CASE ParentChanged(s, d)
  <2>1. PICK rss \in Rss :
          parent' = [parent EXCEPT ![d] = [addr |-> s, rank |-> r, rss |-> rss]]
    BY <1>7 DEF ParentChanged, r
  <2>2. Addr' = [Addr EXCEPT ![d] = s]
    BY <1>2, <2>1, NewSender
  <2>3. U!Change(d, s)
    BY <1>2, <1>7, <2>2 DEF U!Change, ParentChanged, FromParent, Addr
  <2> QED BY <2>3 DEF U!Next
<1>8. CASE ParentNotChanged(s, d)
  BY <1>8 DEF ParentNotChanged, SameLinks, Addr
<1> QED BY <1>3, <1>4, <1>5, <1>6, <1>7, <1>8 DEF RecvDIO, RecvParentDIO, RecvOtherDIO

LEMMA FaultyLinks ==
  ASSUME FaultInv, faults # 0, UNCHANGED faults, StableNext
  PROVE  SameLinks \/ U!Next
<1>1. ASSUME NEW m \in Motes, SendDIO(m) PROVE SameLinks
  BY <1>1 DEF SendDIO, SameLinks, Addr
<1>2. ASSUME NEW m \in Motes, SendDIS(m) PROVE SameLinks \/ U!Next
  <2>1. PICK p \in HeapContents(m, parent[m]) : parent' = [parent EXCEPT ![m] = p]
    BY <1>2 DEF SendDIS
  <2>2. ~in_dodag[m] /\ UNCHANGED in_dodag
    BY <1>2 DEF SendDIS
  <2>3. CASE p = parent[m]
    BY <2>1, <2>2, <2>3, NewAddr DEF SameLinks, Addr, FaultInv
  <2>4. CASE p \in HeapJunk /\ parent[m] # NullParent
    BY <2>1, <2>2, <2>4, AllocateLinks DEF U!Next, FaultInv
  <2> QED BY <2>1, <2>2, <2>3, <2>4 DEF HeapContents
<1>3. ASSUME NEW s \in Motes, NEW d \in Motes, Lose(s, d) \/ RecvDIS(s, d) PROVE SameLinks
  BY <1>3 DEF Lose, RecvDIS, SameLinks, Addr
<1> QED BY <1>1, <1>2, <1>3, FaultyDIOLinks DEF StableNext, SendCallback

LEMMA FaultLinks ==
  ASSUME FaultInv, FaultNext
  PROVE  U!Next
<1>1. TypeOK /\ RootKept
  BY DEF FaultInv
<1>2. ASSUME NEW m \in Motes, ParentTimeout(m) PROVE U!Next
  <2>1. m # Root /\ in_dodag[m] /\ detach(m) /\ faults' # 0
    BY <1>1, <1>2 DEF ParentTimeout, RootKept, TypeOK
  <2> QED BY <1>1, <2>1, DetachLinks DEF U!Next
<1>3. ASSUME NEW m \in Motes, Reboot(m) PROVE U!Next
  <2>1. Addr' = [Addr EXCEPT ![m] = NullParent.addr] /\ NullParent.addr = Null
    BY <1>1, <1>3, NewAddr DEF Reboot, NullParent
  <2>2. faults' # 0
    BY <1>1, <1>3 DEF Reboot, TypeOK
  <2>3. U!Reboot(m)
    BY <1>3, <2>1, <2>2 DEF U!Reboot, Reboot, Addr
  <2> QED BY <2>3 DEF U!Next
<1> QED BY <1>2, <1>3 DEF FaultNext

(* Whatever is lost and whatever fails, the parents of motes change as      *)
(* Uplinks allows, with no more motes than ranks.  So what NetworkProofs    *)
(* proves over Uplinks holds over the control plane (routing.c:79-226,      *)
(* sensor-mote.c:108-133, 266-318). *)
THEOREM Links == FewMotes => (Spec => ImplementsUplinks)
<1>1. SUFFICES ASSUME FewMotes PROVE Spec => ImplementsUplinks
  OBVIOUS
<1>2. Init => U!Init
  BY DEF Init, U!Init, NullParent
<1>3. FaultInv /\ (faults = 0 => QuietInv) /\ [Next]_vars => [U!Next]_(U!vars)
  <2> SUFFICES ASSUME FaultInv, faults = 0 => QuietInv, [Next]_vars
               PROVE  [U!Next]_(U!vars)
    OBVIOUS
  <2>1. SameLinks /\ UNCHANGED faults => UNCHANGED U!vars
    BY DEF SameLinks, Addr, U!vars
  <2>2. CASE StableNext /\ UNCHANGED faults
    <3>1. CASE faults = 0
      BY <1>1, <2>1, <2>2, <3>1, QuietLinks DEF QuietInv
    <3>2. CASE faults # 0
      BY <2>1, <2>2, <3>2, FaultyLinks
    <3> QED BY <3>1, <3>2
  <2>3. CASE FaultNext
    BY <2>3, FaultLinks
  <2>4. CASE UNCHANGED vars
    BY <2>1, <2>4 DEF vars, SameLinks, Addr
  <2> QED BY <2>2, <2>3, <2>4, FaultsCount DEF FaultInv
<1>4. Spec => [](faults = 0 => QuietInv)
  BY <1>1, QuietUntilFault
<1> QED BY <1>2, <1>3, <1>4, FaultInvCorrect, PTL DEF Spec, ImplementsUplinks, U!Spec
=============================================================================
