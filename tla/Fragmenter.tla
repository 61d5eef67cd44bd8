---------------------------- MODULE Fragmenter ----------------------------
(***************************************************************************)
(* The second half of Switch::_trySend: a packet too long for one UDP      *)
(* payload is cut into a head and fragments, which are numbered and handed *)
(* to the path one by one.  Sizes are in bytes.                            *)
(***************************************************************************)
EXTENDS Integers

CONSTANTS
    Mtu,           \* ZT_UDP_DEFAULT_PAYLOAD_MTU
    Header,        \* ZT_PROTO_MIN_FRAGMENT_LENGTH
    MaxFragments,  \* ZT_MAX_PACKET_FRAGMENTS
    Sizes          \* sizes of the packets sent

Payload == Mtu - Header

(* A packet buffer holds MaxFragments * Mtu bytes; the four bits of a      *)
(* fragment header can tell a packet of that size is in 15 pieces or less. *)
ASSUME FragmenterAssumption ==
    /\ Header \in Nat
    /\ Mtu \in Nat /\ Mtu > Header
    /\ MaxFragments \in Nat \ {0}
    /\ MaxFragments * Mtu <= Mtu + 14 * Payload
    /\ Sizes \subseteq 1..(MaxFragments * Mtu)

VARIABLES
    pc,         \* "head", "fragments" or "done"
    size,       \* packet.size()
    fragStart,
    remaining,
    fno,        \* number of the next fragment
    total,      \* totalFragments
    wire        \* what the path took: [no, of, start, len]

vars == <<pc, size, fragStart, remaining, fno, total, wire>>

Shorter(a, b) == IF a <= b THEN a ELSE b

(* fragsRemaining: a division rounded up.                                  *)
BugFragsRemainingUp(n) == IF n = 0 THEN 0 ELSE n \div Payload + 1

FragsRemaining(n) ==
    LET q == n \div Payload IN IF q * Payload < n THEN q + 1 ELSE q

(* Packet::Fragment::init: four bits each for the number and the total.    *)
Fragment(no, of, start, len) ==
    [no |-> no % 16, of |-> of % 16, start |-> start, len |-> len]

Init ==
    /\ pc = "head"
    /\ size \in Sizes
    /\ fragStart = 0 /\ remaining = 0 /\ fno = 0 /\ total = 0
    /\ wire = {}

(* The head goes out, the rest is counted ...                              *)
SendHead ==
    /\ pc = "head"
    /\ LET chunk == Shorter(size, Mtu) IN
       /\ wire' = {Fragment(0, 0, 0, chunk)}
       /\ fragStart' = chunk
       /\ remaining' = size - chunk
       /\ fno' = 1
       /\ total' = FragsRemaining(size - chunk) + 1
       /\ pc' = IF chunk < size THEN "fragments" ELSE "done"
    /\ UNCHANGED size

(* ... unless the path refuses the head.                                   *)
HeadRefused ==
    /\ pc = "head"
    /\ pc' = "done"
    /\ UNCHANGED <<size, fragStart, remaining, fno, total, wire>>

(* One turn of the loop.  Nobody looks at the result of sending it.        *)
BugSendFragment ==
    /\ pc = "fragments" /\ fno < total
    /\ LET chunk == Shorter(remaining, Mtu) IN
       /\ wire' = wire \cup {Fragment(fno, total, fragStart, chunk)}
       /\ fragStart' = fragStart + chunk
       /\ remaining' = remaining - chunk
    /\ fno' = fno + 1
    /\ UNCHANGED <<pc, size, total>>

SendFragment ==
    /\ pc = "fragments" /\ fno < total
    /\ LET chunk == Shorter(remaining, Payload) IN
       /\ \/ wire' = wire \cup {Fragment(fno, total, fragStart, chunk)}
          \/ UNCHANGED wire
       /\ fragStart' = fragStart + chunk
       /\ remaining' = remaining - chunk
    /\ fno' = fno + 1
    /\ UNCHANGED <<pc, size, total>>

Finish ==
    /\ pc = "fragments" /\ fno = total
    /\ pc' = "done"
    /\ UNCHANGED <<size, fragStart, remaining, fno, total, wire>>

(* The thread returns from _trySend().                                     *)
Done == pc = "done" /\ UNCHANGED vars

Next == SendHead \/ HeadRefused \/ SendFragment \/ Finish \/ Done

Spec == Init /\ [][Next]_vars

---------------------------------------------------------------------------
TypeOK ==
    /\ pc \in {"head", "fragments", "done"}
    /\ size \in Sizes
    /\ fragStart \in 0..size /\ remaining \in 0..size
    /\ fno \in 0..15 /\ total \in 0..15
    /\ wire \subseteq [no : 0..15, of : 0..15, start : Nat, len : Nat]

(* Where the payload of fragment n belongs in the packet: the receiver     *)
(* appends the payloads in order, all of them full but the last.           *)
Place(n) == IF n = 0 THEN 0 ELSE Mtu + (n - 1) * Payload

(* Every datagram fits the MTU and carries the bytes that belong at the    *)
(* place of its number, up to the next one's place or the packet's end:    *)
(* appending the payloads in order gives back the packet.                  *)
Reassembles ==
    \A f \in wire :
        /\ f.start = Place(f.no)
        /\ f.len > 0
        /\ f.len + (IF f.no = 0 THEN 0 ELSE Header) <= Mtu
        /\ f.start + f.len = Shorter(size, Place(f.no + 1))

(* The last fragment ends where the packet ends: the total every fragment  *)
(* announces is neither too small to carry the packet nor too large ever   *)
(* to be completed.                                                        *)
TotalExact ==
    /\ pc = "done" /\ wire # {} => remaining = 0 /\ fno = total
    /\ \A f \in wire : f.no > 0 =>
         /\ f.of = total % 16
         /\ Place(total - 1) < size /\ size <= Place(total)

(* A packet that leaves room for the headers of its fragments is not cut   *)
(* into more of them than a receiver takes (Switch::onRemotePacket).       *)
ReceiverTakesAll ==
    size <= Place(MaxFragments) => total <= MaxFragments
=============================================================================
