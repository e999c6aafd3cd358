------------------------------ MODULE MCDodag ------------------------------
(* Topologies and small constants for model checking Dodag. *)
EXTENDS DodagInv

CONSTANTS root, a, b, c

Link(m, n) == {<<m, n>>, <<n, m>>}
Graph(links) == [m \in Motes |-> {n \in Motes : <<m, n>> \in links}]

(* root - a *)
PairG == Graph(Link(root, a))
(* all three in range of each other *)
Triangle == Graph(Link(root, a) \cup Link(root, b) \cup Link(a, b))
(* Two ways down to c, of equal length or not.  Radio links may be one-way: *)
(* c alone is heard by a mote above it, b, and a by no mote.  The root      *)
(* hears nothing, as a DIS only makes it broadcast a DIO, which it may do   *)
(* at any time. *)
Down ==
  [m \in Motes |-> CASE m = root -> {a, b} [] m = a -> {b, c} [] m = b -> {c} [] m = c -> {b}]

(* A freed parent_t that reads as the root or as a.                        *)
AnyJunk == [addr : {root, a}, rank : {0, 1}, rss : {0}]
NoJunk == {}

OneRss == {0}
SmallRss == {0, 3}
=============================================================================
