------------------------------- MODULE Uplinks -------------------------------
(***************************************************************************)
(* What the control plane of the motes promises to their unicast plane:    *)
(* whose parent changes when, and to what.  Until the first parent timeout *)
(* or reboot the motes build and reshape the tree of module Tree.  Later a *)
(* mote may take any neighbour as its parent, one below itself included,   *)
(* and reads the address of its parent in memory that it has freed.        *)
(***************************************************************************)
CONSTANTS
  Motes, Root, Neighbours,
  NoAddr,   \* an address that no mote has
  Null,     \* in place of an address: mote.parent is NULL
  HeapJunk  \* what the address in a freed parent_t may read as

VARIABLES
  in_dodag,  \* mote.in_dodag
  parent,    \* the address read through mote.parent
  stable     \* TRUE until the first parent timeout or reboot

vars == <<in_dodag, parent, stable>>

up == [m \in Motes |-> IF in_dodag[m] /\ m # Root THEN parent[m] ELSE NoAddr]
T == INSTANCE Tree

Init ==
  /\ in_dodag = [m \in Motes |-> m = Root]
  /\ parent = [m \in Motes |-> Null]
  /\ stable = TRUE

(* m, outside the DODAG, hears p, takes it as its parent and is inside.     *)
Join(m, p) ==
  /\ ~in_dodag[m]
  /\ p # parent[m]
  /\ m \in Neighbours[p]
  /\ in_dodag' = [in_dodag EXCEPT ![m] = TRUE]
  /\ parent' = [parent EXCEPT ![m] = p]
  /\ UNCHANGED stable
  /\ stable => T!Attach(m, p)

(* m hears p and changes its parent. *)
Change(m, p) ==
  /\ in_dodag[m]
  /\ m # Root
  /\ p # parent[m]
  /\ m \in Neighbours[p]
  /\ parent' = [parent EXCEPT ![m] = p]
  /\ UNCHANGED <<in_dodag, stable>>
  /\ stable => T!Switch(m, p)

(* m loses its parent, and frees the memory that parent[m] is read from.    *)
Detach(m) ==
  /\ in_dodag[m]
  /\ m # Root
  /\ in_dodag' = [in_dodag EXCEPT ![m] = FALSE]
  /\ \E p \in {parent[m]} \cup HeapJunk : parent' = [parent EXCEPT ![m] = p]
  /\ stable' = FALSE

(* m, detached, allocates memory, possibly where its parent was.            *)
Allocate(m) ==
  /\ ~in_dodag[m]
  /\ parent[m] # Null
  /\ \E p \in HeapJunk : parent' = [parent EXCEPT ![m] = p]
  /\ UNCHANGED <<in_dodag, stable>>

(* m starts again. *)
Reboot(m) ==
  /\ m # Root
  /\ in_dodag' = [in_dodag EXCEPT ![m] = FALSE]
  /\ parent' = [parent EXCEPT ![m] = Null]
  /\ stable' = FALSE

Next ==
  \/ \E m, p \in Motes : Join(m, p) \/ Change(m, p)
  \/ \E m \in Motes : Detach(m) \/ Allocate(m) \/ Reboot(m)

Spec == Init /\ [][Next]_vars
=============================================================================
