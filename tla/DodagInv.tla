------------------------------ MODULE DodagInv ------------------------------
(***************************************************************************)
(* The inductive invariants behind the properties of Dodag: one that holds *)
(* whatever motes are lost and restarted, and a stronger one for the       *)
(* behaviours without parent timeouts and reboots.                         *)
(***************************************************************************)
EXTENDS Dodag

(* Frames travel between radio neighbours, and the root is sent no DIO that *)
(* it would act upon. *)
AirOK ==
  \A s, d \in Motes :
    /\ air[s][d] # <<>> => d \in Neighbours[s]
    /\ \A i \in 1 .. Len(air[s][d]) : Hears(d, air[s][d][i])

(* The root stays in the DODAG, and without a parent timer. *)
RootKept == in_dodag[Root] /\ ~parent_timer[Root]

(* Holds in every behaviour of Spec. *)
FaultInv == TypeOK /\ AirOK /\ RankFollowsParent /\ ParentWatched /\ RootKept

-----------------------------------------------------------------------------
(* The DIOs of queue q carry ranks between lo and hi, the later the smaller. *)
Descends(q, lo, hi) ==
  \A i \in 1 .. Len(q) :
    q[i].type = "DIO" =>
      /\ lo <= q[i].rank
      /\ q[i].rank <= hi
      /\ \A j \in 1 .. i : q[j].type = "DIO" => q[i].rank <= q[j].rank

(* The root is in the DODAG with rank 0. *)
RootOK == in_dodag[Root] /\ rank[Root] = 0

(* A mote outside the DODAG has no parent yet. *)
OutsideOK ==
  \A m \in Motes \ Joined : rank[m] = INFINITE_RANK /\ parent[m] = NullParent

(* Ranks do not exceed the number of motes that have joined. *)
BoundOK == \A m \in Joined : rank[m] < Cardinality(Joined)

(* What m recorded of its parent p is what p advertised at some time, and   *)
(* ranks never grow. *)
IsChild(m, p) ==
  /\ p.addr \in Joined
  /\ m \in Neighbours[p.addr]
  /\ rank[m] = p.rank + 1
  /\ rank[p.addr] <= p.rank
ParentOK == \A m \in Joined \ {Root} : IsChild(m, parent[m])

(* The DIOs from s on their way to d: none is below the rank of s, they     *)
(* arrive in descending order, and if s is the parent of d none is above    *)
(* what d knows already. *)
LatestRank(s, d) ==
  IF d \in Joined \ {Root} /\ parent[d].addr = s
    THEN parent[d].rank ELSE Cardinality(Joined) - 1
DescentOK == \A s, d \in Motes : Descends(air[s][d], rank[s], LatestRank(s, d))

(* Holds in every behaviour of StableSpec, as long as there are no more     *)
(* motes than ranks. *)
FewMotes == Cardinality(Motes) <= INFINITE_RANK

StableInv ==
  /\ TypeOK
  /\ AirOK
  /\ RootOK
  /\ OutsideOK
  /\ BoundOK
  /\ ParentOK
  /\ DescentOK
=============================================================================
