# Verification of the LINGI2146 air-quality network

TLA+ models, TLC runs and TLAPS proofs about the programs of this repository: the Contiki motes in
`src/mote/` (C) and the server in `src/server/` (Python). The code is the reference; every module
names the file it models and `PROJECT.json` maps every definition to its lines.

## 1. Inventory

A border router (root mote), computation motes and sensor motes form a tree, the DODAG. Sensor motes
send air-quality values up the tree. A computation mote keeps the values of a few sensor motes and
decides itself whether a mote must open its valve; the values of all others go to the root, which
prints them for the server, and the server decides. OPEN messages go down the tree.

| component | state | operations | correct when |
|---|---|---|---|
| DODAG control plane: `routing.c`, broadcast handlers and send/parent callbacks of the three mote programs | `in_dodag`, `rank`, `parent` (heap), `parent_timer` | `send_DIS`, `send_DIO`, `choose_parent`, `update_parent`, `change_parent`, `detach`, `parent_callback`, start-up | parents form a tree below the root; ranks are distances; a lost parent is noticed; a mote outside gets back |
| Trickle and keep-alive: `trickle-timer.c`, send and parent timers | `T`, two ctimers | `trickle_update`, `trickle_random`, `reset_timers`, `stop_timers`, root's main loop | a living parent is heard before the parent timer fires |
| Routing table: `hashmap.c` | array, `table_size`, `size` | `hashmap_put`, `_get`, `_delete_timeout`, rehash | a dictionary: no key lost or doubled, old entries go |
| Computation buffer: `computation.c` | `computed_motes` with circular buffers | `add_and_check_valve`, `indexFind`, `slope_value` | latest values per mote, no mixing, valve opens on a rise |
| Server: `server.py` | two dictionaries | `handle_received_data`, `compute_slope`, `clear_timed_out_motes` | same, and it stays up |
| Unicast plane: DAO, DATA, OPEN over Rime runicast | routing tables, one message in flight per mote, DAO and data timers | `runicast_recv`, `send_DAO`, `forward_*`, `send_OPEN` | routes lead somewhere and repair themselves, no OPEN is stuck or sent up |
| Children timer and ageing of routing entries | times in the table, `children_timer` | `hashmap_put`'s time, `hashmap_delete_timeout`, `children_callback`, root's main loop | a mote that is still below stays in the table, one that is gone goes |
| Valve: green LED and its ctimer | LED, timer | OPEN handler, `open_callback` | open for a fixed time after the last OPEN |
| Packet text: `Packet.py`, root's `printf` and line input | none | format and parse | one packet per line |

How they interact. Broadcast handlers call `choose_parent`/`update_parent`, which set rank and parent;
a change restarts the send timer (Trickle) and, for a new parent, the parent timer, and sends a DAO.
DAO and DATA go to `mote.parent`; each hop records the sender in its hash map; OPEN follows the hash
map down. All callbacks of one mote run in one Contiki process, so a handler is atomic with respect to
the other handlers of its mote; motes, the radio and the server interleave freely.

What is hard: DIOs in flight while ranks and parents change, lost frames, parent timeouts and reboots,
the freed `parent_t` that `detach` leaves behind the pointer, `uint8_t` ranks, timers that are restarted
or not, linear probing with timeouts and rehashes, slots that are swept lazily, ring-buffer indices, a
runicast connection that holds one message and whose errors nobody looks at, routing tables that lag behind the tree,
answer wrongly when half full and find no memory to grow, packets of the same second.
`PROJECT.json` lists these hazards at their lines.

## 2. Modules

| module | models | remarks |
|---|---|---|
| `Dodag` | the control plane of all motes | one action per branch of `broadcast_recv`, per callback, plus loss and reboot |
| `DodagInv` | its inductive invariants | shared by `MCDodag` and `DodagProofs` |
| `Tree` | what the control plane promises without faults: attach below a member, move outside one's own subtree | refined by `Dodag` (mapping `up`) |
| `Uplinks` | what it promises with faults: whose parent changes when and to what; steps of `Tree` until the first fault | refined by `Dodag`; the parents of `Network` |
| `Network` | the unicast messages and routing tables of all motes | one action per message type, callback and fault |
| `Trickle` | timer arithmetic | shared by `Keepalive` and `Children` |
| `Keepalive` | a mote and its neighbours, the root among them, in real time | says when the parent timer that `Dodag` leaves free fires |
| `Children` | a mote's routing entries in real time | says which entries `Network`'s `children_callback` deletes, and when |
| `Dictionary` | what a routing table promises | refined by `HashMap`; `Network`'s tables are of this kind, with `HashMap`'s failures |
| `HashMap` | `hashmap.c` | one step per rehashed element |
| `Windows` | what is promised of buffered values | refined by both `Computation` and `Server` |
| `Slopes` | integer division, the regression as a fraction | shared by `Computation` and `Server` |
| `Computation`, `Server` | `computation.c`, `server.py` | |
| `MC*` | instances for TLC: topologies, keys, motes | |
| `*Proofs` | theorems | |
| `Arithmetic` | lemmas: induction, sums, quotients | shared by the proof modules |

How the models fit together: `Dodag` decides who is whose parent (without times). It implements `Uplinks`, and
`Network` is built on `Uplinks`: each of its actions that changes a parent is one of `Uplinks`' with what the unicast plane
does besides, so what `Network` allows includes all that `Dodag` does, before and after a fault. `Keepalive` and `Children` put real time under the timeouts
that `Dodag` and `Network` let happen at any moment, `HashMap` puts the array under the tables of `Network`, which keep what the others can tell of it:
the two sizes, when a lookup fails, when a put needs memory. A
computation mote's answer to a DATA message, free in `Network`, is `Computation`'s; the root's OPEN lines are
`Server`'s.

Operators whose comment begins with "Mutant of" are wrong variants of the definition below them. They are
used by no specification; `PROJECT.json` ("mutants") pairs each with a property that fails when the
variant takes the definition's place, which shows that the property depends on that code.

### Dodag

`in_dodag`, `rank`, `parent`, `parent_timer` are the fields of `mote_t` (and whether the ctimer is armed).
`air[s][d]` is what `s` has broadcast and `d` has not yet processed: frames of one sender arrive in order,
different links are independent, any frame may be lost, and a full queue drops new ones.

* `RecvDIO` splits `broadcast_recv` by its branches: sender is the parent (`ParentGone`,
  `ParentSameRank`, `ParentNewRank`) or another mote (`ParentNew`, `ParentChanged`, `ParentNotChanged`),
  with the broadcast a branch ends with. The sensor, computation and root programs share it; the root
  only reacts to DIS (`Hears`).
* `detach` frees `parent_t` and keeps the pointer. `parent` then holds what that memory reads as: its old
  contents, or, after a step that may allocate, one of `HeapJunk`. Handlers that read `mote.parent`
  of a detached mote (`sensor-mote.c:276`) read that value.
* `mote.parent` is NULL before the first parent; `NullParent` is what dereferencing it reads as on the
  MSP430 (low addresses, no mote's address). `Null` stands for the address it yields, which sets a mote that never had a parent
  apart from one whose freed parent reads as nobody.
* Ranks are `uint8_t`: `RankBelow` is modulo `INFINITE_RANK + 1`. Runs use a small `INFINITE_RANK`, still the
  largest value of the type, so that wrap-around is reachable.
* `ParentTimeout` and `Reboot` are the faults. `StableSpec` has none of them, but still has loss, delay and full
  queues.

### Network

`in_dodag` and `parent` are those of `Dodag`, without ranks, and `stable` says that no parent timeout or reboot has happened
yet: the variables of `Uplinks`. `table[m][x]` is the entry that `m`'s hash map has for
`x`; `sending[m]` is the message that the runicast connection of `m` is transmitting, with the mote it is about.

* `Send` does nothing while a message is under way: `runicast_send` then returns 0, which no caller looks at
  (`routing.c:185`). Two sends in one handler (PARENT_NEW sends a DAO and a forwarded one may be waiting) hence
  compete for one place.
* Of the hash map `size` and `table_size` are kept. `Put` is `hashmap_put`: a half-full map (`HalfFull`), and possibly one with so
  many entries that the slots it probes may all be taken (`Crowded`), is enlarged by any number of rounds (`Grows`), or there is no
  memory (`RecvDAOFails`: MAP_OMEM, nothing recorded and the DAO not forwarded). Deleting entries does not lower `size`. `Lookup` is
  `hashmap_get`: in such a map it may miss the entry or answer what lies before the array (`MapJunk`), which drops an OPEN or sends it
  astray. A map whose array is lost in a later round of a rehash is left out here too (see `HashMap`).
* `Recv` leaves the sender transmitting: acknowledgements may be lost and Rime delivers a retransmitted message
  twice. `Finish` ends the transmission, by an acknowledgement or by `MAX_RETRANSMISSIONS`, whether or not the
  message has arrived.
* `runicast_recv` does not look at `in_dodag`; a detached mote forwards to the address it reads from the freed
  `parent_t` (`SendDIS` and `Detach` choose it by `Uplinks`, as `Dodag` does).
* The faults are timeouts of the parent (`Detach`), timeouts of any routing entries (`children_callback`) and
  reboots.
* `DAO_callback` and `data_callback` may come at any time. The valve is one bit that `RecvOPEN` at its
  destination sets; it is left out, as nothing reads it.

### Keepalive

A mote and its neighbours `Others`, which are in the DODAG at first and may leave it, by removal or by detaching, and come back
(`Leave`, `Return`). Timers count down in ticks; time passes only when no
timer is due, as ctimer callbacks run when they expire. Ranks are gone: whether a neighbour is a better
parent is a free choice, and so is whether a parent's DIO says `INFINITE_RANK`, on which the mote detaches (`FromParentInfinite`). A neighbour's send timer may be started again by a reset (T back to `T_MIN`) or by an event of
its process (`ProcessEvent`: the main loop sets the timers anew whenever the process gets an event, and
the root gets one with every line from the server); the root's `children_callback` resets T without a restart
(`RootChildrenCallback`). Auxiliary variables count, since the parent timer was last
started, the parent's lost DIOs and restarts, and say whether the parent changed or came back.

### Children

One mote, at the root (`is_root`) or elsewhere, and the motes `Children` that are below it at times. `age[c]` is the time since
the last DAO of `c`, in ticks, where the code records whole seconds: `MayTimeOut` and `MustTimeOut` are the entries
that `hashmap_delete_timeout` may and must delete, depending on where in a second the times fall. A DAO's next arrival
is one trickle delay later, a little more or less as the two need not climb equally fast (`MaxTransit`). `Missed`,
`ResetTimers` and `Leave` are what may happen at the child and on the way. `ProcessEvent` is the root's main loop, which starts
the children timer anew at every event; `Detach` and `Join` stop and start it elsewhere. Auxiliary
variables count lost DAOs, restarts, and the time by which the children timer was put off.

### HashMap

`data`, `table_size`, `size` are the fields of `hashmap_map`; `put`, `rehashing`, `old`, `i` are the
locals of `hashmap_put_int` and `hashmap_fill_rehash` while a call is under way (nothing else touches the map
then). `hashmap_hash` is `Lands`/`MapFull`, with the move of a found element to the first free slot of its chain
(`MovedTo`). `my_calloc` may fail at any time; if it fails in the second round of a rehash `m->data` points to
freed memory (`lost`) and the model stops there. `hashmap_get` on a half-full map uses the error code -2
as an index (`GetBeforeArray`): the two elements before the array read as anything.

### Computation and Server

A slot's timestamp is replaced by its age, counted to one second past the timeout. Doubles are
fractions; the last step of `slope_value` is an integer division. The server cuts the slope to hundredths twice (`server.py:104`, `:50`):
`CutSlope` applies `int(x * 100) / 100` as doubles compute it, where for some hundredths (`Short`, such as 2.01) another one is
lost. The slope itself is exact before the first cut, up to that. On the mote, a zero denominator, or a slope whose hundredfold
exceeds the 16-bit int, makes the conversion undefined: either decision (`MayOpen`, `MayClose`). With at least eight values there is no such slope (`EightDecide`).
The server takes whole packets, with the time in whole seconds that `Packet.py:14` rounds to: any number of packets may come in the
same second. Two exceptions end the program (`running`): `ZeroDivisionError` in `least_squares_slope`
(`ReceiveAndDivideByZero`), before the timeouts are looked at, and `RuntimeError` in `clear_timed_out_motes`. The latter compares
rounded times with an unrounded one, so at `TIMEOUT` exactly a mote may have timed out or not.

## 3. Runs

| run | instance | shows |
|---|---|---|
| `dodag_stable` | 4 motes (`Down`), 2 signal strengths, 1 frame per link | without timeouts and reboots: `RanksDescend`, `NeverTooClose`, `ReachesRoot`, `NeverWorse`, `FormsTree` (refinement of `Tree`), and under fairness `ShortestPaths`, `ParentsSettle` |
| `dodag_faults` | 3 motes, 1 fault, junk in freed memory | `TypeOK`, `RankFollowsParent`, `ParentWatched`, `ImplementsUplinks` |
| `dodag_cycle` | 3 motes, 1 fault | violated: `NoCycle` |
| `dodag_never_rejoins` | 2 motes, 1 fault, fairness | violated: `Rejoins` |
| `network` | 3 motes, 1 fault, freed parents that read as the root, tables of 5 and 11 slots | `TypeOK`, `HopsKnow`, `OpenFindsHop`, under fairness `RoutesLearned` |
| `keepalive` | 2 neighbours, one of them the root, T in 1..3, timeout 7 | `TypeOK`, `NextDIOInTime`, `DetachHasCause` |
| `children` | 2 motes below, T in 1..2 s, timeout 3 s | `TypeOK`, `RenewedInTime`, `OldEntriesGo`, `ForgottenHasCause` |
| `hashmap` | 3 colliding keys, 2 data, sizes 6, 13, 27 | `TypeOK`, `Findable`, `HalfVacant`, `ImplementsDictionary`, `GetAnswers`, under fairness `PutReturns` |
| `hashmap_get_missing` | 4 keys, size 4 | violated: `GetFindsPresent` |
| `computation` | 3 motes, 2 slots, 3 values | `TypeOK`, `OneSlotPerMote`, `ImplementsWindows`, `OpensExactly` |
| `computation_slope` | 1 mote, 6 values | violated: `OpensOnRise` |
| `server` | 2 motes, 3 values, threshold 2, packets of one second, 1 timeout | `TypeOK`, `DictionariesAgree`, `EndsWithCause`, `ImplementsWindows`, `OpensOnSlope` |

### Bounds

* `MaxQueue` frames per link: with 1, frames of different links overtake each other, and a frame sent while another
  waits is lost. `MaxFaults` 1: one fault suffices for every violated property.
* Topologies: `Triangle` is the smallest with a loop; in `Down` mote `c` has two possible parents, `a` and `b`, and `b`
  may be below `a` at first and at the same rank at last. The root in `Down` hears
  nothing: a DIS only makes it send a DIO that its timer may send at any time (`dodag_faults` has the two-way links). Two
  signal strengths that differ by `RSS_THRESHOLD` let a mote compare equal ranks either way: the stronger signal exceeds the
  weaker one by exactly the threshold.
* `network`: in `Triangle` each of the two motes may be above the other, so that routes go through zero or one mote
  and can form a loop after a change of parent. One mote is a sensor, the other a computation mote. A freed
  `parent_t` reads as its old contents or as the root, so that a detached mote may send up for ever.
  With `INITIAL_SIZE` 5 and three destinations a table gets half full only by entries that time out and come back, as in the code
  with sixteen slots and few motes; `MaxTable` 11 lets it grow once, and a second time it finds no memory. `MAX_CHAIN_LENGTH`
  3 keeps tables from being crowded before that: `Crowded` matters to the theorems, for networks of more motes. What lies before an array reads as an
  entry with next hop `a`.
* `keepalive`: a tick is a second (`CLOCK_SECOND` 1). `TIMEOUT_PARENT` is a little over twice `T_MAX`, as in
  the code (50 and 20), so that one forgiven delay fits and the next does not; `MaxLost` and
  `MaxRestarts` 1 reach both sides.
* `children`: half seconds (`CLOCK_SECOND` 2), so that times within one second differ. The timeout is one and a half
  times `T_MAX`, less than in the code (150 and 20), so that a lost DAO or a restart can exceed it. `MaxPutOff` is
  half the timeout, in ticks.
* `hashmap`: of the keys 0, 26, 78 two collide in 6 slots, all in 13, none in 27: a rehash takes one round or
  two. `MaxTime` 3 with a timeout of 1 gives entries of all ages. `MaxTable` bounds the arrays. Deadlock is not
  checked, because the model stops once the array is lost.
* `computation`: symmetry over motes (no definition orders them; the run has no liveness property). Three
  motes for two slots are the smallest case of a mote refused and of two motes swapping slots.
* `server`: `MaxTime` 7 with a timeout of 3; the clock ends there, hence no deadlock check. Packets come in five of the eight seconds (`Arrivals`),
  any number in each, so that gaps of one to four seconds occur. The threshold is 2, for which the second cut matters; the
  values 0 and 149 give a slope whose first cut is 2.01 and second 2.0. `Inexact` lists the hundredths up to 400 that doubles cut short. Symmetry
  over motes, as in `computation`.

### Fairness

* `FairStableSpec` (Dodag): weak fairness of every mote's send callback (a ctimer is always running
  and Contiki runs expired ctimers), weak fairness of handling a DIS that lies in a queue, and strong
  fairness of handling DIOs per link: a radio that is not broken does not lose every DIO. Losing frames is not
  fair.
* `FairSpec` (Network): weak fairness of `Finish`, as Rime acknowledges or gives up; and a DAO that is news to its
  receiver, or makes the root enlarge its table, and is transmitted again and again gets through again and again, at a moment when the receiver can pass it on and has the memory to record it (it is retransmitted
  up to `MAX_RETRANSMISSIONS` times, at intervals that random timers shift). `RoutesLearned` also has two
  hypotheses: that parents settle in a tree under the root (what `ParentsSettle` and `ReachesRoot` say of `Dodag`), and `KeepSending`, that the DAO timer
  of every mote fires for ever.
* `FairSpec` (HashMap): a call that has begun goes on, as it runs to completion in one process.

### Findings

1. `dodag_cycle`: `choose_parent` lets a mote outside the DODAG take any sender, hence its own
   descendant (`routing.c:214`). report.pdf, section 2 says ranks "avoid cycles".
2. `dodag_never_rejoins`: a detached mote takes DIOs of its former parent for its parent's as long as the freed
   memory is intact, and so never chooses that mote again (`sensor-mote.c:276`).
3. `hashmap_get_missing`: MAP_FULL is used as an index (`hashmap.c:240`).
4. `computation_slope`: two sums of the regression are assigned, not accumulated (`computation.c:64`).

The models follow the code in further points that differ from the documentation, without a run for each: ranks
in a loop count up to `INFINITE_RANK`, which a mote in the DODAG then advertises, and a mote that joins
below it gets rank 0 (`routing.c:91`, `:103`); a parent timeout sends no last DIO (`sensor-mote.c:121`); a
change of parent does not restart the parent timer (`sensor-mote.c:311`), so a mote may detach soon after it has moved although
the new parent was never silent for the timeout that README.md:25 speaks of; a
detached mote may broadcast a finite rank (`sensor-mote.c:286`); an entry of a silent child may stay for more than twice
`TIMEOUT_CHILDREN`, and longer at the root (`OldEntriesGo` gives the bound; README.md:27 says after `TIMEOUT_CHILDREN`
seconds); after a change of parent OPEN messages may circle among stale entries until a DAO has
climbed the new path (`routing.c:275`); `m->size` counts entries that have timed
out (`hashmap.c:352`); the value that fills a ring buffer is not evaluated (`computation.c:108`); four values
(and one) have a zero denominator (`computation.c:67`); the first mote that times out ends the server
(`server.py:84`), and so do more than ten values of one mote if all come in one second (`server.py:102`); exactly ten values send no OPEN (`server.py:38`).

## 4. Theorems

All for every value of the constants that the modules' `ASSUME`s allow. Each component has one inductive
invariant; the theorems on safety and action properties follow from it.

* `DodagProofs`, first part: for any network, with any faults, `FaultInv` (types, `AirOK`: frames travel between radio
  neighbours and the root is sent no DIO, `RankFollowsParent`, `ParentWatched`) is inductive. `AirOK` is what makes
  a chosen parent a radio neighbour. Theorems `TypeCorrect`, `RankFollows`, `Watched`.
* `DodagProofs`, second part: without faults, and if `FewMotes` (no more motes than `INFINITE_RANK`, else ranks wrap),
  `StableInv` is inductive. Its core is `DescentOK`: the DIOs on a link carry descending ranks between the
  sender's present rank and what the receiver knows of it; and `ParentOK`: a mote's recorded parent rank was once
  advertised, so the parent's rank is not above it. `BoundOK` (ranks stay below the number of motes that have
  joined) excludes wrap-around and `INFINITE_RANK`. Theorems `Descending`, `Improving`, `ImplementsTree` (every
  step is a `Tree` step or a stutter), `AllUnderRoot` (a set of motes closed under parents has a member of least rank, which
  can only be the root), and `NotTooClose`: a rank is never below the hop
  distance, as it is one more than a rank its neighbour has advertised, which was not below that neighbour's distance.
* `DodagProofs`, third part: faults may come, and until the first one the second part's invariant holds (`QuietInv`), as no step
  before it is one that `StableSpec` lacks. Theorems `SoundUntilFault`, `ImprovingUntilFault`, and `Links`: `Dodag` with all its
  faults implements `Uplinks`. Before the first fault the step is a `Tree` step by the second part; after it, what is needed is the
  first part's `FaultInv` (a chosen parent is a radio neighbour) and that the root never gets a parent.
* `NetworkProofs`: for any network and any faults, `IInv` says that entries and OPEN messages lead to neighbours other than the
  root (an OPEN possibly to `MapJunk`), that until the first fault the sender of a DAO is, or has an entry for, the mote it is about, and that as long as
  all tables are `Roomy` besides (first array, not half full, not crowded), so is or has the receiver of an OPEN (`Calm`; in a roomy table a lookup is exact,
  `RoomyExact`). Theorems `TypeCorrect`, `NoRouteStopsShort` (`HopsKnow`), `OpenNeverStuck` (`OpenFindsHop`). `FewFindHops`: with at most six motes
  below the root, in the code's numbers, tables stay roomy until the first fault (`Counted`: `size` is the number of entries), so every OPEN finds
  its next hop. From the eighth entry on it may not. By `RestsOnUplinks` every step is one of `Uplinks`
  or leaves the parents alone, hence `ParentsLeadUp`: until the first parent timeout or reboot every mote of the DODAG is
  below the root. Subtrees are defined by closed sets, so no induction on depth is needed.
* `KeepaliveProofs`: `TypeCorrect`; `InTime`: `NextDIOInTime`, from the invariant that also says that a mote in
  the DODAG has a neighbour as its parent and runs its timer; `NoDetachWithoutCause`: `DetachHasCause` follows, as the parent's send timer is not
  negative when the parent timer fires. `OneIsForgiven` reads it for times like the code's (`2 T_MAX < TIMEOUT_PARENT`, 40 s against 50 s): one
  lost DIO, or one restart of the parent's send timer, never makes a mote leave, by its timer, a parent that has not left since the timer was started.
* `ChildrenProofs`: `TypeCorrect`, `Renewed`, `OldOnesGo` (an entry's age and the time to the next callback, less what the timer was
  put off by, never exceed two periods and a second), `NotForgottenWithoutCause`. `ManyAreForgiven`: if `k` DAO intervals fit in
  `TIMEOUT_CHILDREN`, it takes `k` lost or restarted DAOs in a row; with 150 s, `T_MAX` 20 s and DAOs that climb within
  1.4 s, `k` is 7.
* `HashMapProofs`: `Findable` alone is not inductive. `IInv` adds `SizeOK` (`m->size` counts at least the elements of the
  array, which bounds them by about half of its slots) and `RehashOK` (between
  two steps of a rehash, the new array holds exactly the elements of the old one up to `i`, and the old one has no key twice).
  Theorems `TypeCorrect`, `AlwaysFindable`, `AlwaysHalfVacant`, `Implements` (every step is one of `Dictionary` or a stutter: in
  particular the last step of a rehash leaves the same entries as before it) and `Answers`.
* `ServerProofs`: the dictionaries agree, values are in the order of their times and none is later than the last packet or the
  clock. Theorems `TypeCorrect`, `Agreement`, and `Implements`: for a finite set of motes the server refines
  `Windows` (making room before appending is the same as cutting off the oldest value afterwards). `EndsOnlyWithCause`
  (`EndsWithCause`): the denominator is zero only if all times of the list are the same, else negative (`Spread`, by induction: with a
  time `z` more it falls by the sum of the squared distances of the other times to `z`). `Opens` (`OpensOnSlope`), for any threshold: OPEN is sent only on a value
  that is no duplicate, in a list longer than `MIN_VALUES`, with a slope at least a hundredth above the threshold; and it is sent if the slope is three
  hundredths above, or one hundredth if the threshold is not positive, as each cut in doubles loses at most one more
  (`CutAgainBounds`, `CutSlopeBounds`, on top of `QuotientCuts`), towards zero.
* `ComputationProofs`: `TypeCorrect` (indices stay inside the buffer); `OneSlot`, by showing that `indexFind`
  never returns a free slot to a mote that has another one; and `Implements`: the buffers refine `Windows`. The values stored from one
  index to the other, with one wrap at most, are the latest ones (`StoredAdded`); what a scan sweeps is forgotten, all of it silent
  (`KeepMapped`); a mote is refused only if as many others as there are slots have been heard (`CannotAddMapped`).
  `OpensExact`: where the slope fits in an int, the valve opens exactly on enough values with a slope that, cut to an integer, reaches the
  threshold; the two cuts of `slope_value` are one (`CutsOnce`), and the indices say how many values there are
  (`StoreDecides`). `EightDecide` removes the condition for `MIN_NB_VALUES_COMPUTE >= 8`, as in the code (10): four times the
  denominator of `n` values is `n (n-1)^2 (n-4)`, and values of at most 500 keep the hundredfold slope within 16 bits (`EightFit`). With
  the code's threshold 0 the valve opens as soon as the computed slope is above -1.
* `Arithmetic`: every nonempty set of naturals has a least element (`Least`, from the library's well-founded order), hence
  induction on naturals and on finite sets stated over a set instead of a predicate (`NatSetInduction`,
  `SubsetInduction`), which the provers can instantiate. With it the recursion in the community modules' `SumFunction` is
  shown to have a solution and not to depend on the order it picks terms in (`AddsExists`, `AddsAny`), so that a sum over `1 .. n+1` is the sum
  over `1 .. n` and the last term (`SumLast`). `QuotientCuts` says what cutting a fraction towards zero does for all signs.

Only model-checked: the liveness properties (`ShortestPaths`, `ParentsSettle`, `RoutesLearned`, `PutReturns`), which need
fairness and ENABLED, out of TLAPS's reach. `EightDecide`, `OneIsForgiven` and `ManyAreForgiven` take
the constants' values in the code as their hypotheses; how often a real network loses more than they forgive is not a question for a model.

## 5. Not modelled

* The valve: one bit that an OPEN sets and `open_timer` clears, read by nothing.
* `hashmap_remove` (never called), `hashmap_free` and a failing `hashmap_new`, which belong to `detach` and are taken to
  succeed; removal or reuse of a table while a `hashmap_put` is under way cannot happen in one process.
* The packet text format, the serial line and the TCP stream: formatting and parsing of whole lines.
* Rounding of doubles on the mote, and of the server's slope before its two cuts, other than that an exact
  hundredth may come out just below.
* A routing table whose array is lost when memory runs out in a later round of a rehash: `m->data` is freed memory then, and what the mote does
  next is undefined. `HashMap` reaches that state and stops there; `Network` leaves it out.
* How long an OPEN that has got into a loop of entries goes on: the code has no hop limit. `RoutesLearned` is about the entries.
  `HopsKnow` and `OpenFindsHop`'s second part say nothing after the first fault.
* Collisions and timing of the radio below Rime, beyond loss and duplication.
* Build files and the Cooja simulation, which have no behaviour of their own.

## 6. Plan

Done: `Dodag` with `Tree` first, as every other part depends on the tree; then `Keepalive`, `HashMap`,
`Computation`, `Server`, each with an abstract specification where there is one to state; then `Network`, `Children`
beside it, and the proofs of all safety properties that the passing runs check, the refinements of `Tree`, `Dictionary` and `Windows`
among them; then `Uplinks` between `Dodag` and `Network`, the decisions of `Server` and `Computation` down to
their arithmetic, and the sizes and failures of routing tables in `Network`.

Possible next steps:

1. That `Network`'s tables are used only as `HashMap` allows, and its timeouts as `Children` allows, as refinements like
   that of `Uplinks`.
2. `Network` over four motes in two branches, if the state space can be cut down: a DAO and an OPEN that cross on
   different branches.
3. `hashmap_new` failing after `detach`, together with the first DAO after it.
