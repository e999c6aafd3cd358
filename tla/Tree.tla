-------------------------------- MODULE Tree --------------------------------
(***************************************************************************)
(* What the routing protocol promises, seen from outside: the motes form a *)
(* tree under the border router.  A mote enters the tree below one of its  *)
(* members, and may later move, with everything below it, under another    *)
(* member that is not below itself.  Ranks, messages and timers are gone.  *)
(***************************************************************************)
CONSTANTS Motes, Root, Neighbours, NoAddr

VARIABLE up  \* up[m]: the parent of m, NoAddr for the root and outside the tree

InTree(m) == m = Root \/ up[m] # NoAddr

(* The motes below m, m included: what every set holds that has m in it and *)
(* is closed under taking children.                                         *)
ClosedBelow(S) == \A y \in Motes : up[y] \in S => y \in S
Subtree(m) ==
  {x \in Motes : \A S \in SUBSET Motes : m \in S /\ ClosedBelow(S) => x \in S}

Init == up = [m \in Motes |-> NoAddr]

(* m hears p and enters the tree below it. *)
Attach(m, p) ==
  /\ ~InTree(m)
  /\ InTree(p)
  /\ m \in Neighbours[p]
  /\ up' = [up EXCEPT ![m] = p]

(* m moves below p, which is not in its own subtree. *)
Switch(m, p) ==
  /\ m # Root
  /\ InTree(m)
  /\ InTree(p)
  /\ m \in Neighbours[p]
  /\ p \notin Subtree(m)
  /\ up' = [up EXCEPT ![m] = p]

Next == \E m, p \in Motes : Attach(m, p) \/ Switch(m, p)

Spec == Init /\ [][Next]_up

(* Every mote in the tree is below the root, so it can send to the root and *)
(* the parents form no cycle: the tree-shaped network of report.pdf,        *)
(* section 2, that DATA and DAO messages climb (routing.c:176-195).         *)
UnderRoot == \A m \in Motes : InTree(m) => m \in Subtree(Root)
=============================================================================
