----------------------------- MODULE Dictionary -----------------------------
(***************************************************************************)
(* What a routing table promises: a set of entries, at most one per key,   *)
(* each with the time it was last put; an entry leaves no earlier than     *)
(* TIMEOUT_CHILDREN seconds after that time.                               *)
(***************************************************************************)
EXTENDS Naturals

CONSTANTS Keys, Values, TIMEOUT_CHILDREN

VARIABLES entries, now

Entry(k, v, t) == [key |-> k, data |-> v, time |-> t]
Others(k) == {e \in entries : e.key # k}
Fresh == {e \in entries : now <= e.time + TIMEOUT_CHILDREN}

Init == entries = {} /\ now = 0

Tick == now' = now + 1 /\ UNCHANGED entries
Put(k, v) == entries' = Others(k) \cup {Entry(k, v, now)} /\ UNCHANGED now
Expire == entries' = Fresh /\ UNCHANGED now

Next == \/ Tick
        \/ \E k \in Keys, v \in Values : Put(k, v)
        \/ Expire

Spec == Init /\ [][Next]_<<entries, now>>
=============================================================================
