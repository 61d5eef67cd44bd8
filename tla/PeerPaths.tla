----------------------------- MODULE PeerPaths -----------------------------
(***************************************************************************)
(* node/Peer and node/Path: the direct paths to one peer, at most one for  *)
(* each address family, how they are learned, preferred, redirected and    *)
(* reset.  The writers all run on the main thread; sender threads choose a *)
(* path with getBestPath() at any time.  Keepalive.tla has the pings.      *)
(*                                                                         *)
(* A time stamp is kept as its age; Never is the age of time stamp zero.   *)
(***************************************************************************)
EXTENDS Integers

CONSTANTS
    Families,      \* AF_INET and AF_INET6
    Paths,         \* the addresses packets of the peer may come from
    Family,        \* the family of each path,
    Rank,          \* its preferenceRank()
    Scope,         \* and its IP scope
    Alive,         \* ZT_PATH_ALIVE_TIMEOUT, in clock ticks
    Expiration     \* ZT_PEER_PATH_EXPIRATION

ASSUME PathAssumption ==
    /\ "none" \notin Paths
    /\ Family \in [Paths -> Families]
    /\ Rank \in [Paths -> Nat]
    /\ Alive \in Nat /\ Expiration \in Nat
    /\ Alive <= Expiration

(* Ages from Expiration + 1 on are not told apart, and all count as old.   *)
Old == Expiration + 1
Never == Old + 1
Ages == 0..Never

VARIABLES
    slot,      \* _v4Path and _v6Path: [lr, sticky, p]
    lastIn,    \* per path, Path::_lastIn, the age of the last datagram from it
    target,    \* history: per family, where the latest redirect() led
    silenced   \* history: paths reset and neither heard of nor set since

vars == <<slot, lastIn, target, silenced>>

Slots == [lr : Ages, sticky : Ages, p : Paths \cup {"none"}]

TypeOK ==
    /\ slot \in [Families -> Slots]
    /\ \A f \in Families : slot[f].p # "none" => Family[slot[f].p] = f
    /\ lastIn \in [Paths -> Ages]
    /\ target \in [Families -> Paths \cup {"none"}]
    /\ silenced \subseteq Paths

Init ==
    /\ slot = [f \in Families |-> [lr |-> Never, sticky |-> Never, p |-> "none"]]
    /\ lastIn = [p \in Paths |-> Never]
    /\ target = [f \in Families |-> "none"]
    /\ silenced = {}

---------------------------------------------------------------------------
(* Peer::getBestPath: of the paths not expired that something came from,   *)
(* the one it came from last, IPv4 if both are as recent.  The result is a *)
(* set because ages that are Old have lost their order.                    *)
Candidates(includeExpired) ==
    {f \in Families :
        /\ slot[f].p # "none"
        /\ includeExpired \/ slot[f].lr < Expiration
        /\ lastIn[slot[f].p] # Never}

AtLeastAsRecent(f, g) ==
    \/ lastIn[slot[f].p] < lastIn[slot[g].p]
    \/ lastIn[slot[f].p] = lastIn[slot[g].p] /\ (f \in {g, "v4"} \/ lastIn[slot[f].p] = Old)

GetBestPath(includeExpired) ==
    {slot[f].p : f \in {g \in Candidates(includeExpired) :
        \A h \in Candidates(includeExpired) : AtLeastAsRecent(g, h)}}

AliveNow(p) == lastIn[p] <= Alive

---------------------------------------------------------------------------
(* Incoming packets                                                        *)

(* A datagram arrives from p, whatever it is (Switch::onRemotePacket).     *)
Datagram(p) == lastIn' = [lastIn EXCEPT ![p] = 0]

(* It is not an authentic packet that came directly from the peer: relayed *)
(* by whoever is at p, or another peer's, as peers may share an address.   *)
RecvOther(p) ==
    /\ Datagram(p)
    /\ UNCHANGED <<slot, target, silenced>>

(* May Peer::received() put p in its family's slot?                        *)
BugReplaceable(p) ==
    LET s == slot[Family[p]] IN
    s.p = "none" \/ ~AliveNow(s.p) \/ Rank[p] >= Rank[s.p]

BugReplaceableByAny(p) == slot[Family[p]].sticky > Expiration

Replaceable(p) ==
    LET s == slot[Family[p]] IN
    /\ s.p = "none" \/ ~AliveNow(s.p) \/ Rank[p] >= Rank[s.p]
    /\ s.sticky > Expiration

(* It is one: Peer::received with hops = 0.  An unknown path is taken into *)
(* use when the packet is an OK (otherwise it is asked for one); "usable"  *)
(* is what shouldUsePathForZeroTierTraffic() says.                         *)
BugRecvDirect(p, isOk, usable) ==
    LET f == Family[p]
        learn == slot[f].p # p /\ usable /\ Replaceable(p) /\ isOk
    IN /\ Datagram(p)
       /\ slot' = [slot EXCEPT ![f].lr = 0, ![f].p = IF learn THEN p ELSE @]
       /\ silenced' = silenced \ {p}
       /\ UNCHANGED target

RecvDirect(p, isOk, usable) ==
    LET f == Family[p]
        known == slot[f].p = p
        learn == ~known /\ usable /\ Replaceable(p) /\ isOk
    IN /\ Datagram(p)
       /\ slot' = [slot EXCEPT ![f].lr = IF known \/ learn THEN 0 ELSE @,
                               ![f].p = IF learn THEN p ELSE @]
       /\ silenced' = silenced \ {p}
       /\ UNCHANGED target

(* Peer::redirect, on a PUSH_DIRECT_PATHS that says so.                    *)
Redirect(p) ==
    /\ slot' = [slot EXCEPT ![Family[p]].p = p, ![Family[p]].sticky = 0]
    /\ target' = [target EXCEPT ![Family[p]] = p]
    /\ silenced' = silenced \ {p}
    /\ UNCHANGED lastIn

(* Peer::resetWithinScope, when SelfAwareness::iam learns that this node's *)
(* external address has changed.                                           *)
BugReset(f, scope) ==
    /\ slot[f].lr # Never /\ Scope[slot[f].p] = scope
    /\ silenced' = silenced \cup {slot[f].p}
    /\ UNCHANGED <<slot, lastIn, target>>

Reset(f, scope) ==
    /\ slot[f].lr # Never /\ Scope[slot[f].p] = scope
    /\ slot' = [slot EXCEPT ![f].lr = Never]
    /\ silenced' = silenced \cup {slot[f].p}
    /\ UNCHANGED <<lastIn, target>>

---------------------------------------------------------------------------
Older(age) == IF age < Old THEN age + 1 ELSE age

Tick ==
    /\ slot' = [f \in Families |->
                  [slot[f] EXCEPT !.lr = Older(@), !.sticky = Older(@)]]
    /\ lastIn' = [p \in Paths |-> Older(lastIn[p])]
    /\ UNCHANGED <<target, silenced>>

Next ==
    \/ \E p \in Paths :
         \/ RecvOther(p)
         \/ \E isOk, usable \in BOOLEAN : RecvDirect(p, isOk, usable)
         \/ Redirect(p)
    \/ \E f \in Families, p \in Paths : Reset(f, Scope[p])
    \/ Tick

Spec == Init /\ [][Next]_vars

---------------------------------------------------------------------------
(* doPingAndKeepalive(), resetWithinScope(), paths() and                   *)
(* getRendezvousAddresses() follow the slot's pointer after a look at lr   *)
(* alone: where that says there is a path, there is one, and it is one     *)
(* something did come from or that redirect() put there.                   *)
LrMeansPath ==
    \A f \in Families : slot[f].lr # Never =>
        /\ slot[f].p # "none"
        /\ lastIn[slot[f].p] # Never \/ slot[f].p = target[f]

(* For as long as a path takes to expire, a redirect overrides what the    *)
(* peer's packets teach, whatever they are and wherever they come from.    *)
RedirectSticks ==
    \A f \in Families : slot[f].sticky <= Expiration => slot[f].p = target[f]

(* A path that was reset is not chosen, as long as there is a relay, until *)
(* the peer itself speaks over it again, or is redirected to it: another   *)
(* peer's or a relayed packet from the same address does not do.           *)
ResetSilences ==
    \A p \in GetBestPath(FALSE) : p \notin silenced

(* A path in use gives way to a path of lower rank only when it has been   *)
(* silent, or by a redirect.                                               *)
LivePathStays ==
    [][\A f \in Families :
         /\ slot[f].p # "none" /\ slot'[f].p # slot[f].p
         /\ Rank[slot'[f].p] < Rank[slot[f].p]
         => ~AliveNow(slot[f].p) \/ slot'[f].sticky = 0]_vars
=============================================================================
