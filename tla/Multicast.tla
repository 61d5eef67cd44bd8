----------------------------- MODULE Multicast -----------------------------
(***************************************************************************)
(* node/Multicaster.cpp and node/OutboundMulticast.cpp for one group of    *)
(* one network: the list of members, learned from MULTICAST_LIKEs and from *)
(* the answers to MULTICAST_GATHER, and the multicasts that wait for more  *)
(* members.  Time is kept as ages, in ticks.  The lists are sets: which    *)
(* come first is left open, as the code's random permutation does.         *)
(***************************************************************************)
EXTENDS Naturals, FiniteSets

CONSTANTS
    Peers,             \* other nodes
    Subscriber,        \* one of them, whose announcements are followed
    Bridges,           \* alwaysSendTo: the network's active bridges
    Limit,             \* multicastLimit, not 0: onLocalEthernet() tests it
    LikeExpire,        \* ZT_MULTICAST_LIKE_EXPIRE
    TransmitTimeout,   \* ZT_MULTICAST_TRANSMIT_TIMEOUT
    GatherDelay,       \* ZT_MULTICAST_EXPLICIT_GATHER_DELAY
    Housekeeping,      \* ZT_HOUSEKEEPING_PERIOD
    AnnouncePeriod,    \* ZT_MULTICAST_ANNOUNCE_PERIOD
    AnnounceDelay,     \* ticks from then to the next check of a node
    MaxLost,           \* bound: announcements lost in a row
    MaxSends           \* bound: multicasts sent

(* In milliseconds 600000 for LikeExpire, 120000 for AnnouncePeriod and    *)
(* 5000 for AnnounceDelay, which allow for three lost announcements.       *)
ASSUME MulticastAssumption ==
    /\ IsFiniteSet(Peers) /\ Subscriber \in Peers /\ Bridges \subseteq Peers
    /\ Limit \in Nat \ {0} /\ MaxSends \in Nat /\ MaxLost \in Nat
    /\ LikeExpire \in Nat /\ TransmitTimeout \in Nat /\ GatherDelay \in Nat
    /\ Housekeeping \in Nat /\ AnnouncePeriod \in Nat /\ AnnounceDelay \in Nat
    /\ (MaxLost + 1) * (AnnouncePeriod + AnnounceDelay) < LikeExpire

VARIABLES
    members,    \* the group's members: [a, age]
    txQueue,    \* waiting multicasts: [n, age, log]; log is _alreadySentTo
    asked,      \* age of lastExplicitGather
    sinceClean, \* ticks since the last clean()
    sends,      \* multicasts so far
    got,        \* history: per multicast, the sends to each peer
    announced,  \* the subscriber: ticks since its last MULTICAST_LIKE,
    lost,       \* LIKEs lost since one arrived,
    listed      \* and whether one has arrived

multicastVars == <<members, txQueue, asked, sinceClean, sends, got, announced, lost, listed>>

MAddresses(ms) == {m.a : m \in ms}

MulticastInit ==
    /\ members = {} /\ txQueue = {}
    /\ asked = GatherDelay /\ sinceClean = 0
    /\ sends = 0 /\ got = [n \in 1..MaxSends |-> [p \in Peers |-> 0]]
    /\ announced = AnnouncePeriod /\ lost = 0 /\ listed = FALSE

AtLimit(tx) == Cardinality(tx.log) >= Limit

BugToSend(tx, a) == TRUE

(* sendIfNew(): only to those not in the log.                              *)
ToSend(tx, a) == a \notin tx.log

(***************************************************************************)
(* _add(): somebody new gets every multicast that waits, and multicasts    *)
(* that have reached their limit leave the queue.                          *)
(***************************************************************************)
Relisted(ms, a) == {[m EXCEPT !.age = IF m.a = a THEN 0 ELSE @] : m \in ms}

BugOffered(tx, a) == tx

Offered(tx, a) ==
    IF ~AtLimit(tx) /\ ToSend(tx, a) THEN [tx EXCEPT !.log = @ \cup {a}] ELSE tx

Counted(g, q, a) ==
    [n \in 1..MaxSends |->
        IF \E tx \in q : tx.n = n /\ ~AtLimit(tx) /\ ToSend(tx, a)
          THEN [g[n] EXCEPT ![a] = @ + 1] ELSE g[n]]

Added(st, a) ==
    IF a \in MAddresses(st.ms)
      THEN [st EXCEPT !.ms = Relisted(@, a)]
      ELSE [ms |-> st.ms \cup {[a |-> a, age |-> 0]},
            q |-> {tx \in {Offered(ty, a) : ty \in st.q} : ~AtLimit(tx)},
            g |-> Counted(st.g, st.q, a)]

Group(ms, q, g) == [ms |-> ms, q |-> q, g |-> g]

Known == Group(members, txQueue, got)

Becomes(st) == members' = st.ms /\ txQueue' = st.q /\ got' = st.g

(* addMultiple() of what OK(MULTICAST_GATHER) or OK(MULTICAST_FRAME) say   *)
(* somebody else knows, or (a = b) add() at a MULTICAST_LIKE; Multicaster  *)
(* never lists its own node.                                               *)
Learn(a, b) ==
    /\ Becomes(Added(Added(Known, a), b))
    /\ UNCHANGED <<asked, sinceClean, sends, announced, lost, listed>>

(* The subscriber's LIKE: every AnnouncePeriod, when the node next checks. *)
Announce(arrives) ==
    /\ announced >= AnnouncePeriod /\ announced' = 0
    /\ IF arrives
         THEN Becomes(Added(Known, Subscriber)) /\ lost' = 0 /\ listed' = TRUE
         ELSE lost < MaxLost /\ lost' = lost + 1 /\ UNCHANGED <<members, txQueue, got, listed>>
    /\ UNCHANGED <<asked, sinceClean, sends>>

(* ERROR(UNWANTED_MULTICAST) from one that is no longer a subscriber.      *)
Unlike(a) ==
    /\ a \in MAddresses(members)
    /\ members' = {m \in members : m.a # a}
    /\ UNCHANGED <<txQueue, asked, sinceClean, sends, got, announced, lost, listed>>

(***************************************************************************)
(* send(): to the bridges and then to members, as far as the limit allows. *)
(* With too few members it asks for more and waits.                        *)
(***************************************************************************)
OtherMembers == MAddresses(members) \ Bridges

(* A loop over candidates, in any order, that ends after "most" of them.   *)
UpTo(most, chosen, candidates) ==
    /\ chosen \subseteq candidates
    /\ Cardinality(chosen) =
         IF Cardinality(candidates) < most THEN Cardinality(candidates) ELSE most

Times(p, chosen) == IF p \in chosen THEN 1 ELSE 0

SendOut(first, chosen) ==
    /\ sends < MaxSends /\ sends' = sends + 1
    /\ UpTo(Limit, first, Bridges) /\ UpTo(Limit - Cardinality(first), chosen, OtherMembers)
    /\ got' = [got EXCEPT ![sends + 1] = [p \in Peers |-> Times(p, first) + Times(p, chosen)]]
    /\ IF Cardinality(members) >= Limit
         THEN UNCHANGED <<txQueue, asked>>
         ELSE /\ txQueue' = txQueue \cup {[n |-> sends + 1, age |-> 0, log |-> first \cup chosen]}
              /\ asked' = IF members = {} \/ asked >= GatherDelay THEN 0 ELSE asked
    /\ UNCHANGED <<members, sinceClean, announced, lost, listed>>

(***************************************************************************)
(* clean().  A multicast of another thread may be younger than the clock   *)
(* reading that clean() was given; its age is then a huge unsigned number. *)
(* A group with nothing left is erased, lastExplicitGather included.       *)
(***************************************************************************)
BugMemberLives(m) == m.age < LikeExpire - AnnouncePeriod

MemberLives(m) == m.age < LikeExpire

TxLives(tx, future) == tx.age < TransmitTimeout /\ ~AtLimit(tx) /\ tx.n \notin future

Clean(future) ==
    /\ sinceClean > 0 /\ sinceClean' = 0
    /\ \A tx \in txQueue : tx.n \in future => tx.age = 0
    /\ txQueue' = {tx \in txQueue : TxLives(tx, future)}
    /\ members' = {m \in members : MemberLives(m)}
    /\ asked' = IF members' = {} /\ txQueue' = {} THEN GatherDelay ELSE asked
    /\ UNCHANGED <<sends, got, announced, lost, listed>>

Wait ==
    /\ sinceClean < Housekeeping /\ announced < AnnouncePeriod + AnnounceDelay
    /\ sinceClean' = sinceClean + 1 /\ announced' = announced + 1
    /\ members' = {[m EXCEPT !.age = @ + 1] : m \in members}
    /\ txQueue' = {[tx EXCEPT !.age = @ + 1] : tx \in txQueue}
    /\ asked' = IF asked < GatherDelay THEN asked + 1 ELSE asked
    /\ UNCHANGED <<sends, got, lost, listed>>

MulticastNext ==
    \/ \E a, b \in Peers : Learn(a, b)
    \/ \E a \in Peers \ {Subscriber} : Unlike(a)
    \/ \E arrives \in BOOLEAN : Announce(arrives)
    \/ \E first \in SUBSET Bridges, chosen \in SUBSET OtherMembers : SendOut(first, chosen)
    \/ \E future \in SUBSET (1..MaxSends) : Clean(future)
    \/ Wait

MulticastSpec == MulticastInit /\ [][MulticastNext]_multicastVars

-----------------------------------------------------------------------------
(* No recipient gets a multicast twice, be it a bridge, a member at the    *)
(* time, or one that left the list and was learned again; and there are    *)
(* never more recipients than the network's limit.                         *)
SentOnce ==
    \A n \in 1..MaxSends :
        /\ \A p \in Peers : got[n][p] <= 1
        /\ Cardinality({p \in Peers : got[n][p] > 0}) <= Limit

(* A multicast that waits has gone to everybody on the list, whoever was   *)
(* added meanwhile, and waits no longer than until the first clean() after *)
(* its timeout.                                                            *)
QueueSound ==
    \A tx \in txQueue :
        /\ AtLimit(tx) \/ MAddresses(members) \subseteq tx.log
        /\ tx.age <= TransmitTimeout + Housekeeping

(* A subscriber is never forgotten while its announcements are not lost    *)
(* more than MaxLost times in a row.                                       *)
StaysListed == listed => Subscriber \in MAddresses(members)
=============================================================================
