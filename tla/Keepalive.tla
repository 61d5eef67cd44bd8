----------------------------- MODULE Keepalive -----------------------------
(***************************************************************************)
(* One direct path between two nodes, as each of them sees it: what keeps  *)
(* it alive (Peer::doPingAndKeepalive, run by Node::processBackgroundTasks *)
(* every ZT_PING_CHECK_INVERVAL) while frames are sent over it by          *)
(* Switch::_trySend and datagrams are lost.  One tick is a check interval; *)
(* a datagram takes less.                                                  *)
(***************************************************************************)
EXTENDS Integers

CONSTANTS
    Ends,         \* the two nodes
    PathAlive,    \* ZT_PATH_ALIVE_TIMEOUT
    Heartbeat,    \* ZT_PATH_HEARTBEAT_PERIOD
    PingPeriod,   \* ZT_PEER_PING_PERIOD
    PathExpiration, \* ZT_PEER_PATH_EXPIRATION
    Activity,     \* ZT_PEER_ACTIVITY_TIMEOUT
    MaxWait,      \* ticks from a node's check to its next
    LossGap       \* bound: losses are at least this many ticks apart

(* The longest time between two packets of a node that takes the other to  *)
(* be active, and that before the first one after it came to.              *)
Punctual == Heartbeat - 1 + MaxWait
Late == Punctual + MaxWait

(* In milliseconds 14000 for the heartbeat, 5000 for MaxWait, 45000 for    *)
(* PathAlive, 243000 for PathExpiration and 500000 for Activity.           *)
ASSUME KeepaliveAssumption ==
    /\ \E a, b \in Ends : a # b /\ Ends = {a, b}
    /\ Heartbeat \in Nat \ {0} /\ MaxWait \in Nat \ {0} /\ PingPeriod \in Nat
    /\ PathAlive \in Nat /\ PathExpiration \in Nat /\ Activity \in Nat /\ LossGap \in Nat
    /\ Punctual + Late <= PathAlive /\ PathAlive < PathExpiration
    /\ 3 * Late < Activity
    /\ Late < LossGap

VARIABLES
    heard,     \* age of the last packet over the path: Path::_lastIn, lr
    lastOut,   \* age of the last one sent over it: Path::_lastOut
    active,    \* age of _lastNontrivialReceive
    waited,    \* ticks since the last check
    calm,      \* ticks since a datagram was lost
    steady     \* at all times so far a node took the other to be active

keepaliveVars == <<heard, lastOut, active, waited, calm, steady>>

(* Beyond these no comparison of the code tells two ages apart.           *)
HeardCap == PathExpiration
SentCap == 4 * PathExpiration + 1

(* The path has just been learned, in an exchange of frames.               *)
KeepaliveInit ==
    /\ heard = [e \in Ends |-> 0] /\ lastOut = [e \in Ends |-> 0]
    /\ active = [e \in Ends |-> 0]
    /\ waited = [e \in Ends |-> 0] /\ calm = LossGap
    /\ steady = TRUE

Other(e) == CHOOSE o \in Ends : o # e

SeenAlive(e) == heard[e] <= PathAlive
Expired(e) == heard[e] >= PathExpiration
IsActive(e) == active[e] < Activity

---------------------------------------------------------------------------
(* The nodes "at" get a datagram; if "drop", one sent is lost.             *)
Transfer(at, drop) ==
    /\ heard' = [e \in Ends |-> IF e \in at THEN 0 ELSE heard[e]]
    /\ drop => calm >= LossGap
    /\ calm' = IF drop THEN 0 ELSE calm

(* e sends an ECHO, which the other node answers with an OK (_doECHO).     *)
Echo(e) ==
    LET o == Other(e) IN
    \/ Transfer({}, TRUE) /\ lastOut' = [lastOut EXCEPT ![e] = 0]
    \/ \E answered \in BOOLEAN :
         /\ Transfer(IF answered THEN Ends ELSE {o}, ~answered)
         /\ lastOut' = [lastOut EXCEPT ![e] = 0, ![o] = 0]

NoDatagram == UNCHANGED <<heard, lastOut, calm>>

(* doPingAndKeepalive has something to do.                                 *)
BugPingDue(e) == heard[e] >= PingPeriod

PingDue(e) == heard[e] >= PingPeriod \/ lastOut[e] >= Heartbeat

(* The periodic check of a node.                                           *)
Check(e) ==
    /\ waited[e] > 0
    /\ waited' = [waited EXCEPT ![e] = 0]
    /\ IF IsActive(e) /\ ~Expired(e) /\ PingDue(e) THEN Echo(e) ELSE NoDatagram
    /\ UNCHANGED <<active, steady>>

(* Is a dead path to be tried again while the frame takes the relay?       *)
Reactivates(e) ==
    LET most == IF 4 * heard[e] > 1 THEN 4 * heard[e] ELSE 1 IN lastOut[e] > most

(* _trySend of a frame: directly over a path that is alive, ...            *)
SendFrame(e) ==
    LET o == Other(e) IN
    /\ ~Expired(e) /\ SeenAlive(e)
    /\ lastOut' = [lastOut EXCEPT ![e] = 0]
    /\ \/ Transfer({o}, FALSE) /\ active' = [active EXCEPT ![o] = 0]
       \/ Transfer({}, TRUE) /\ UNCHANGED active
    /\ UNCHANGED <<waited, steady>>

(* ... else by way of a relay.                                             *)
RelayFrame(e) ==
    /\ Expired(e) \/ ~SeenAlive(e)
    /\ IF ~Expired(e) /\ Reactivates(e) THEN Echo(e) ELSE NoDatagram
    /\ active' = [active EXCEPT ![Other(e)] = 0]
    /\ UNCHANGED <<waited, steady>>

Aged(age, cap) == IF age < cap THEN age + 1 ELSE age

Interval ==
    /\ \A e \in Ends : waited[e] < MaxWait
    /\ waited' = [e \in Ends |-> waited[e] + 1]
    /\ heard' = [e \in Ends |-> Aged(heard[e], HeardCap)]
    /\ lastOut' = [e \in Ends |-> Aged(lastOut[e], SentCap)]
    /\ active' = [e \in Ends |-> Aged(active[e], Activity)]
    /\ steady' = (steady /\ \E e \in Ends : active'[e] < Activity)
    /\ calm' = Aged(calm, LossGap)

KeepaliveNext == (\E e \in Ends : Check(e) \/ SendFrame(e) \/ RelayFrame(e)) \/ Interval

KeepaliveSpec == KeepaliveInit /\ [][KeepaliveNext]_keepaliveVars

---------------------------------------------------------------------------
(* While either node takes the other to be active, neither sees the path   *)
(* die, although frames may go one way only (which puts off the sender's   *)
(* own heartbeats) and a datagram is lost every now and then.              *)
KeptAlive == steady => \A e \in Ends : SeenAlive(e)
=============================================================================
