------------------------------ MODULE RxQueue ------------------------------
(***************************************************************************)
(* The receive queue of node/Switch: a fixed array of entries in which the *)
(* datagrams of a fragmented packet are collected and complete packets     *)
(* wait for an identity they need.  This module holds the queue's data and *)
(* the operators the handlers of Switch.tla apply to it.                   *)
(*                                                                         *)
(* A time stamp is only ever compared with the current time, so an entry   *)
(* records its age; timestamp = 0 ("not in use") is the field "used".      *)
(*                                                                         *)
(* Here and in the other modules a definition whose name starts with Bug   *)
(* is a faulty variant of the one after it; the properties must notice it. *)
(***************************************************************************)
EXTENDS Integers, Sequences, FiniteSets

CONSTANTS
    PacketIds,     \* packet ids of the packets sent to this node
    Fragments,     \* how many datagrams the sender cut each packet into
    Copies,        \* numbers that tell the copies of a datagram apart
    Sent,          \* the datagrams, copies included, the network may bring
    MaxFragments,  \* ZT_MAX_PACKET_FRAGMENTS
    WireFragments, \* fragments the four bits of a fragment header can number
    QueueSize,     \* ZT_RX_QUEUE_SIZE
    Expire,        \* ZT_RX_QUEUE_EXPIRE, in clock ticks
    MaxAge         \* ages from here on are not told apart

Slots == 1..QueueSize

(* Fragment 0 is the head, a packet whose end is chopped off.              *)
Datagrams ==
    {d \in [pid : PacketIds, fno : 0..(WireFragments - 1), copy : Copies] :
        d.fno < Fragments[d.pid]}

ASSUME RxAssumption ==
    /\ WireFragments \in Nat \ {0}
    /\ Fragments \in [PacketIds -> 1..WireFragments]
    /\ MaxFragments \in 1..WireFragments
    /\ QueueSize \in Nat \ {0}
    /\ Expire \in Nat
    /\ MaxAge \in Nat
    /\ Expire <= MaxAge
    /\ Sent \subseteq Datagrams

NoDatagram == [pid |-> "none", fno |-> 0, copy |-> 0]

(* The bytes of an IncomingPacket: the datagrams they came from, in order, *)
(* and whether dearmor() has already decrypted them in place.              *)
Packets == [segs : Seq(Datagrams), plain : BOOLEAN]

HeadOnly(d) == [segs |-> <<d>>, plain |-> FALSE]

Entries ==
    [used     : BOOLEAN,
     age      : 0..MaxAge,
     pid      : PacketIds \cup {"none"},
     frag0    : Packets,
     frags    : [1..(MaxFragments - 1) -> Datagrams \cup {NoDatagram}],
     total    : 0..WireFragments,
     have     : SUBSET (0..(WireFragments - 1)),
     complete : BOOLEAN]

(* RXQueueEntry() sets the time stamp only.                                *)
Unused ==
    [used |-> FALSE, age |-> 0, pid |-> "none",
     frag0 |-> [segs |-> <<>>, plain |-> FALSE],
     frags |-> [f \in 1..(MaxFragments - 1) |-> NoDatagram],
     total |-> 0, have |-> {}, complete |-> FALSE]

---------------------------------------------------------------------------
(* _findRXQueueEntry: the scan runs from the last slot down, frees every   *)
(* expired entry it passes, and stops at the first entry of the packet.    *)

BugMatches(e, pid) == e.used /\ ~e.complete /\ e.pid = pid

Matches(e, pid) == e.used /\ e.pid = pid

Sweep(q, pid) ==
    [s \in Slots |->
        IF q[s].age >= Expire /\ \A t \in Slots : t >= s => ~Matches(q[t], pid)
        THEN [q[s] EXCEPT !.used = FALSE]
        ELSE q[s]]

(* e1.timestamp <= e2.timestamp, a free entry's time stamp being zero.     *)
NotNewer(e1, e2) == ~e1.used \/ (e2.used /\ e1.age >= e2.age)

(* The slot with the smallest time stamp, the last one of several; entries *)
(* at MaxAge may have had any order.                                       *)
BugIsOldest(q, s) == \A t \in Slots : NotNewer(q[t], q[s])

IsOldest(q, s) ==
    /\ \A t \in Slots : NotNewer(q[s], q[t])
    /\ \/ q[s].used /\ q[s].age = MaxAge
       \/ \A t \in Slots : t > s => ~NotNewer(q[t], q[s])

(* s is what the scan returns once the queue is swept.                     *)
Finds(q, pid, s) ==
    \/ Matches(q[s], pid) /\ \A t \in Slots : t > s => ~Matches(q[t], pid)
    \/ (\A t \in Slots : ~Matches(q[t], pid)) /\ IsOldest(q, s)

---------------------------------------------------------------------------
(* What the handlers of Switch::onRemotePacket store in the entry found.   *)

(* "Fragment appears basically sane"                                       *)
SaneFragment(d) ==
    /\ Fragments[d.pid] <= MaxFragments
    /\ d.fno < MaxFragments
    /\ d.fno > 0
    /\ Fragments[d.pid] > 1

(* A fragment without its head starts the entry.                           *)
BugStartWithFragment(e, d) ==
    [e EXCEPT !.used = TRUE, !.age = 0, !.pid = d.pid, !.frags[d.fno] = d,
              !.total = Fragments[d.pid], !.have = @ \cup {d.fno}, !.complete = FALSE]

StartWithFragment(e, d) ==
    [e EXCEPT !.used = TRUE, !.age = 0, !.pid = d.pid, !.frags[d.fno] = d,
              !.total = Fragments[d.pid], !.have = {d.fno}, !.complete = FALSE]

AddFragment(e, d) ==
    [e EXCEPT !.frags[d.fno] = d, !.total = Fragments[d.pid],
              !.have = @ \cup {d.fno}]

(* The head of a fragmented packet starts the entry.                       *)
StartWithHead(e, d) ==
    [e EXCEPT !.used = TRUE, !.age = 0, !.pid = d.pid, !.frag0 = HeadOnly(d),
              !.total = 0, !.have = {0}, !.complete = FALSE]

AddHead(e, d) == [e EXCEPT !.frag0 = HeadOnly(d), !.have = @ \cup {0}]

(* countBits(haveFragments) == totalFragments                              *)
HasAll(e) == e.total > 1 /\ Cardinality(e.have) = e.total

(* Append the payloads of fragments 1 .. total-1 to the head.              *)
Assembled(e) ==
    [e EXCEPT !.frag0.segs =
        @ \o [i \in 1..(e.total - 1) |-> e.frags[i]]]

(* An unfragmented packet that could not be decoded yet.                   *)
StoreWhole(e, d, plain) ==
    [e EXCEPT !.used = TRUE, !.age = 0, !.pid = d.pid,
              !.frag0 = [segs |-> <<d>>, plain |-> plain],
              !.total = 1, !.have = {0}, !.complete = TRUE]

Freed(e) == [e EXCEPT !.used = FALSE]

Older(e) == [e EXCEPT !.age = IF @ < MaxAge THEN @ + 1 ELSE @]

---------------------------------------------------------------------------
(* The packet p as its sender cut it up: the head and then every fragment. *)
IsWhole(segs) ==
    /\ segs # <<>>
    /\ Len(segs) = Fragments[segs[1].pid]
    /\ \A i \in 1..Len(segs) : segs[i].pid = segs[1].pid /\ segs[i].fno = i - 1

(* What an entry in use may rely on: each place its mask claims filled     *)
(* holds that very fragment of its own packet, and a complete entry holds  *)
(* the packet.                                                             *)
EntrySound(e) ==
    /\ e.pid \in PacketIds
    /\ e.have \subseteq 0..(Fragments[e.pid] - 1)
    /\ e.total = Fragments[e.pid] \/ (e.total = 0 /\ e.have = {0} /\ ~e.complete)
    /\ \A f \in e.have \ {0} :
         /\ Fragments[e.pid] <= MaxFragments
         /\ e.frags[f] \in Datagrams
         /\ e.frags[f].pid = e.pid /\ e.frags[f].fno = f
    /\ ~e.complete /\ 0 \in e.have =>
         \E d \in Datagrams : d.pid = e.pid /\ d.fno = 0 /\ e.frag0 = HeadOnly(d)
    /\ e.complete =>
         /\ IsWhole(e.frag0.segs)
         /\ e.frag0.segs[1].pid = e.pid
         /\ e.have = 0..(Fragments[e.pid] - 1)

(* The datagrams an entry in use holds.                                    *)
Holds(e) ==
    IF ~e.used THEN {}
    ELSE {e.frags[f] : f \in {g \in e.have : g > 0}}
         \cup {e.frag0.segs[1] : f \in {g \in e.have : g = 0}}
=============================================================================
