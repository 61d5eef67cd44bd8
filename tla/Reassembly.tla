----------------------------- MODULE Reassembly -----------------------------
(***************************************************************************)
(* What reassembly promises, whatever the queue looks like: a packet is    *)
(* delivered whole and in order, made of datagrams that arrived, and no    *)
(* datagram is used for two deliveries.  Datagrams may be lost, may arrive *)
(* in any order and in several copies, and a packet may be given up.       *)
(***************************************************************************)
EXTENDS Integers, Sequences

CONSTANTS
    Arriving,   \* the datagrams, copies included, the network may bring
    Fragments   \* how many fragments each packet has

VARIABLES
    net,        \* datagrams that have not arrived
    held,       \* datagrams that have arrived and wait
    delivered   \* packets delivered, as sequences of datagrams

vars == <<net, held, delivered>>

Used(x) == {x[i] : i \in DOMAIN x}

(* All fragments of one packet, each in its place.                         *)
Whole(x) ==
    /\ x # <<>>
    /\ Len(x) = Fragments[x[1].pid]
    /\ \A i \in DOMAIN x : x[i].pid = x[1].pid /\ x[i].fno = i - 1

Init == net = Arriving /\ held = {} /\ delivered = {}

Next ==
    LET at  == held \cup (net \ net')
        new == delivered' \ delivered
    IN /\ net' \subseteq net
       /\ delivered \subseteq delivered'
       /\ \A x \in new : Whole(x) /\ Used(x) \subseteq at
       /\ \A x, y \in new : x # y => Used(x) \cap Used(y) = {}
       /\ held' \subseteq {d \in at : \A x \in new : d \notin Used(x)}

Spec == Init /\ [][Next]_vars
=============================================================================
