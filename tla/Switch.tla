------------------------------- MODULE Switch -------------------------------
(***************************************************************************)
(* node/Switch: reassembly of incoming packets, the queue of packets that  *)
(* wait for an identity, WHOIS requests and their retries, and the queue   *)
(* of outgoing packets.                                                    *)
(*                                                                         *)
(* Threads, as in service/OneService: one main thread receives datagrams   *)
(* and runs the background tasks; any number of sender threads (virtual    *)
(* network ports, controller workers) call Switch::send().  A step is what *)
(* a thread does under one mutex.                                          *)
(***************************************************************************)
EXTENDS RxQueue

CONSTANTS
    Addrs,         \* addresses of the other nodes
    Upstreams,     \* those of the roots: always known, asked for WHOIS
    HelloFrom,     \* nodes that may contact us with a HELLO
    Source,        \* who sent each incoming packet
    Issuer,        \* whose identity the packet's credentials need, or "none"
    Trusted,       \* packets of a trusted path, neither sealed nor MACed
    SendIds,       \* outgoing packets handed to send()
    Dest,          \* their destinations
    Senders,       \* threads that call send()
    RetryDelay,    \* ZT_WHOIS_RETRY_DELAY
    MaxRetries,    \* ZT_MAX_WHOIS_RETRIES
    TxTimeout,     \* ZT_TRANSMIT_QUEUE_TIMEOUT
    MaxLag         \* ticks a background run may take after it read the clock

ASSUME SwitchAssumption ==
    /\ Upstreams \subseteq Addrs
    /\ Upstreams # {}
    /\ HelloFrom \subseteq Addrs
    /\ Source \in [PacketIds -> Addrs]
    /\ Issuer \in [PacketIds -> Addrs \cup {"none"}]
    /\ Trusted \subseteq PacketIds
    /\ Dest \in [SendIds -> Addrs]
    /\ "none" \notin SendIds
    /\ RetryDelay \in Nat \ {0}
    /\ MaxRetries \in Nat
    /\ TxTimeout \in Nat
    /\ MaxLag \in Nat

VARIABLES
    net,         \* datagrams under way to this node, each copy on its own
    rxQueue,     \* _rxQueue
    delivered,   \* the packets handed to the handler of their verb
    peers,       \* Topology::_peers: addresses whose identity is known
    whois,       \* addresses with an entry in _outstandingWhoisRequests
    since,       \* per entry, the age of its lastSent
    retries,     \* per entry, its retries
    asked,       \* addresses a WHOIS was sent for, so that an OK may come
    lastAsked,   \* per address, the upstream its latest WHOIS went to
    unsent,      \* packets send() was not called with yet
    sender,      \* where each sender thread is in send(), with which packet
    txQueue,     \* packets in _txQueue
    txAge,       \* per packet in it, the age of its creationTime
    sent,        \* how often each packet was sent
    timedOut,    \* packets doTimerTasks() dropped
    main,        \* where the main thread is, and for which peer
    lag          \* ticks since the background run was given its "now"

rxVars    == <<net, rxQueue, delivered>>
whoisVars == <<whois, since, retries, asked, lastAsked>>
txVars    == <<unsent, sender, txQueue, txAge, sent, timedOut>>
vars      == <<rxVars, peers, whoisVars, txVars, main, lag>>

Idle == [pc |-> "idle", addr |-> "none"]
NoJob == [pc |-> "idle", id |-> "none"]

(* Ages beyond these bounds are not told apart.                            *)
SinceCap == RetryDelay + MaxLag
TxCap == TxTimeout + MaxLag + 1

TypeOK ==
    /\ net \subseteq Datagrams
    /\ rxQueue \in [Slots -> Entries]
    /\ delivered \subseteq Seq(Datagrams)
    /\ peers \subseteq Addrs /\ Upstreams \subseteq peers
    /\ whois \subseteq Addrs
    /\ since \in [Addrs -> 0..SinceCap]
    /\ retries \in [Addrs -> 0..MaxRetries]
    /\ asked \subseteq Addrs
    /\ lastAsked \in [Addrs -> Upstreams \cup {"none"}]
    /\ unsent \subseteq SendIds
    /\ sender \in [Senders -> {NoJob} \cup [pc : {"whois", "push"}, id : SendIds]]
    /\ txQueue \subseteq SendIds
    /\ txAge \in [SendIds -> 0..TxCap]
    /\ sent \in [SendIds -> Nat]
    /\ timedOut \subseteq SendIds
    /\ main \in {Idle} \cup [pc : {"cancel", "rx", "tx"}, addr : Addrs]
                \cup [pc : {"timer", "timerTx"}, addr : {"none"}]
    /\ lag \in 0..MaxLag

Init ==
    /\ net = Sent
    /\ rxQueue = [s \in Slots |-> Unused]
    /\ delivered = {}
    /\ peers = Upstreams
    /\ whois = {}
    /\ since = [a \in Addrs |-> 0]
    /\ retries = [a \in Addrs |-> 0]
    /\ asked = {}
    /\ lastAsked = [a \in Addrs |-> "none"]
    /\ unsent = SendIds
    /\ sender = [t \in Senders |-> NoJob]
    /\ txQueue = {}
    /\ txAge = [i \in SendIds |-> 0]
    /\ sent = [i \in SendIds |-> 0]
    /\ timedOut = {}
    /\ main = Idle
    /\ lag = 0

---------------------------------------------------------------------------
(* WHOIS                                                                   *)

(* Topology::getUpstreamPeer(avoid, n, false): the upstream of the best    *)
(* quality not to be avoided, else the best of all; qualities change all   *)
(* the time, so any of them may be the best.                               *)
GetUpstreamPeer(avoid) ==
    IF Upstreams \ avoid # {} THEN Upstreams \ avoid ELSE Upstreams

(* peersConsulted of a request: _sendWhoisRequest() returns Address(), so  *)
(* what doTimerTasks() records there is no peer's address.                 *)
PeersConsulted(a) == {}

(* _sendWhoisRequest for every address of W.                               *)
SendWhoisRequests(W) ==
    /\ asked' = asked \cup W
    /\ \E u \in [W -> Upstreams] :
         /\ \A a \in W : u[a] \in GetUpstreamPeer(PeersConsulted(a))
         /\ lastAsked' = [a \in Addrs |-> IF a \in W THEN u[a] ELSE lastAsked[a]]

(* requestWhois for every address of W: a request under way starts to      *)
(* count its retries anew, a new one is sent at once.                      *)
RequestWhois(W) ==
    /\ whois' = whois \cup W
    /\ retries' = [a \in Addrs |-> IF a \in W THEN 0 ELSE retries[a]]
    /\ since' = [a \in Addrs |-> IF a \in W \ whois THEN 0 ELSE since[a]]
    /\ SendWhoisRequests(W \ whois)

---------------------------------------------------------------------------
(* IncomingPacket::tryDecode                                               *)

Pid(p) == p.segs[1].pid

(* A second dearmor() of the same bytes fails its MAC check, because the   *)
(* first one has decrypted them in place.                                  *)
Authentic(p) == Pid(p) \in Trusted \/ (~p.plain /\ IsWhole(p.segs))

Outcome(p) ==
    CASE Source[Pid(p)] \notin peers                  -> "unknown"
      [] Source[Pid(p)] \in peers /\ ~Authentic(p)    -> "rejected"
      [] Source[Pid(p)] \in peers /\ Authentic(p)
           /\ Issuer[Pid(p)] \notin peers \cup {"none"} -> "deferred"
      [] OTHER                                        -> "done"

(* tryDecode() returned true.                                              *)
Finished(p) == Outcome(p) \in {"rejected", "done"}

(* The identities tryDecode() asks WHOIS for.                              *)
Wanted(p) ==
    CASE Outcome(p) = "unknown"  -> {Source[Pid(p)]}
      [] Outcome(p) = "deferred" -> {Issuer[Pid(p)]}
      [] OTHER                   -> {}

(* The bytes tryDecode() leaves behind.                                    *)
BugLeft(p) == [p EXCEPT !.plain = TRUE]

Left(p) ==
    [p EXCEPT !.plain = @ \/ (Outcome(p) = "deferred" /\ Pid(p) \notin Trusted)]

(* A queue entry whose packet is complete, after tryDecode().              *)
BugTried(e) == [e EXCEPT !.frag0 = Left(e.frag0), !.complete = TRUE]

Tried(e) ==
    IF Finished(e.frag0) THEN Freed(e)
    ELSE [e EXCEPT !.frag0 = Left(e.frag0), !.complete = TRUE]

(* tryDecode() of every packet in P: what reaches a handler, and the       *)
(* lookups started.                                                        *)
Decode(P) ==
    LET done == {p \in P : Outcome(p) = "done"} IN
    /\ delivered' = delivered \cup {p.segs : p \in done}
    /\ RequestWhois(UNION {Wanted(p) : p \in P})

NoDecode == UNCHANGED <<delivered, whoisVars>>

---------------------------------------------------------------------------
(* The main thread: Switch::onRemotePacket for packets addressed to us     *)

Receives(d) == main = Idle /\ d \in net /\ net' = net \ {d}

(* A Packet::Fragment.                                                     *)
RecvFragment(d) ==
    /\ Receives(d)
    /\ d.fno > 0
    /\ IF ~SaneFragment(d) THEN NoDecode /\ UNCHANGED rxQueue
       ELSE LET q == Sweep(rxQueue, d.pid) IN
            \E s \in Slots :
              /\ Finds(q, d.pid, s)
              /\ \/ /\ ~Matches(q[s], d.pid)
                    /\ rxQueue' = [q EXCEPT ![s] = StartWithFragment(@, d)]
                    /\ NoDecode
                 \/ /\ Matches(q[s], d.pid) /\ d.fno \notin q[s].have
                    /\ LET e == AddFragment(q[s], d) IN
                       IF HasAll(e)
                       THEN /\ rxQueue' = [q EXCEPT ![s] = Tried(Assembled(e))]
                            /\ Decode({Assembled(e).frag0})
                       ELSE rxQueue' = [q EXCEPT ![s] = e] /\ NoDecode
                 \/ /\ Matches(q[s], d.pid) /\ d.fno \in q[s].have  \* duplicate
                    /\ rxQueue' = q
                    /\ NoDecode
    /\ UNCHANGED <<peers, txVars, main, lag>>

(* The head of a fragmented packet.                                        *)
RecvHead(d) ==
    /\ Receives(d)
    /\ d.fno = 0 /\ Fragments[d.pid] > 1
    /\ LET q == Sweep(rxQueue, d.pid) IN
       \E s \in Slots :
         /\ Finds(q, d.pid, s)
         /\ \/ /\ ~Matches(q[s], d.pid)
               /\ rxQueue' = [q EXCEPT ![s] = StartWithHead(@, d)]
               /\ NoDecode
            \/ /\ Matches(q[s], d.pid) /\ 0 \notin q[s].have
               /\ LET e == AddHead(q[s], d) IN
                  IF HasAll(e)
                  THEN /\ rxQueue' = [q EXCEPT ![s] = Tried(Assembled(e))]
                       /\ Decode({Assembled(e).frag0})
                  ELSE rxQueue' = [q EXCEPT ![s] = e] /\ NoDecode
            \/ /\ Matches(q[s], d.pid) /\ 0 \in q[s].have  \* duplicate
               /\ rxQueue' = q
               /\ NoDecode
    /\ UNCHANGED <<peers, txVars, main, lag>>

(* An unfragmented packet: processed at once, or kept in the oldest slot.  *)
RecvWhole(d) ==
    /\ Receives(d)
    /\ Fragments[d.pid] = 1
    /\ LET p == HeadOnly(d) IN
       /\ Decode({p})
       /\ \/ Finished(p) /\ UNCHANGED rxQueue
          \/ /\ ~Finished(p)
             /\ \E s \in Slots :
                  /\ IsOldest(rxQueue, s)
                  /\ rxQueue' = [rxQueue EXCEPT ![s] = StoreWhole(@, d, Left(p).plain)]
    /\ UNCHANGED <<peers, txVars, main, lag>>

(* _doHELLO from a node: its identity becomes known.                       *)
RecvHello(a) ==
    /\ main = Idle
    /\ peers' = peers \cup {a}
    /\ UNCHANGED <<rxVars, whoisVars, txVars, main, lag>>

(* _doOK for a WHOIS: the identity becomes known ...                       *)
RecvOkWhois(a) ==
    /\ main = Idle
    /\ a \in asked
    /\ peers' = peers \cup {a}
    /\ main' = [pc |-> "cancel", addr |-> a]
    /\ UNCHANGED <<rxVars, whoisVars, txVars, lag>>

(* ... and doAnythingWaitingForPeer() cancels the lookup,                  *)
CancelWhois ==
    /\ main.pc = "cancel"
    /\ whois' = whois \ {main.addr}
    /\ main' = [main EXCEPT !.pc = "rx"]
    /\ UNCHANGED <<rxVars, peers, since, retries, asked, lastAsked, txVars, lag>>

(* tries every complete packet again, whatever it waits for,               *)
DecodeWaiting ==
    /\ main.pc = "rx"
    /\ LET waiting == {s \in Slots : rxQueue[s].used /\ rxQueue[s].complete} IN
       /\ Decode({rxQueue[s].frag0 : s \in waiting})
       /\ rxQueue' = [s \in Slots |->
                        IF s \in waiting THEN Tried(rxQueue[s]) ELSE rxQueue[s]]
    /\ main' = [main EXCEPT !.pc = "tx"]
    /\ UNCHANGED <<net, peers, txVars, lag>>

(* and tries to send what is queued for the peer.  "went" are the packets  *)
(* for which _trySend() found a path.                                      *)
BugSendWaiting ==
    /\ main.pc = "tx"
    /\ \E went \in SUBSET {i \in txQueue : Dest[i] = main.addr} :
         sent' = [i \in SendIds |-> IF i \in went THEN sent[i] + 1 ELSE sent[i]]
    /\ main' = Idle
    /\ UNCHANGED <<rxVars, peers, whoisVars, unsent, sender, txQueue, txAge, timedOut, lag>>

SendWaiting ==
    /\ main.pc = "tx"
    /\ \E went \in SUBSET {i \in txQueue : Dest[i] = main.addr} :
         /\ txQueue' = txQueue \ went
         /\ sent' = [i \in SendIds |-> IF i \in went THEN sent[i] + 1 ELSE sent[i]]
    /\ main' = Idle
    /\ UNCHANGED <<rxVars, peers, whoisVars, unsent, sender, txAge, timedOut, lag>>

---------------------------------------------------------------------------
(* The main thread: Node::processBackgroundTasks and doTimerTasks          *)

(* The run is given the current time.  Housekeeping, when it is due, drops *)
(* the peers that have been silent for long enough, or never heard of; the *)
(* upstreams are kept.                                                     *)
TimerStart ==
    /\ main = Idle
    /\ \E silent \in SUBSET (peers \ Upstreams) : peers' = peers \ silent
    /\ main' = [pc |-> "timer", addr |-> "none"]
    /\ lag' = 0
    /\ UNCHANGED <<rxVars, whoisVars, txVars>>

(* (now - t) >= limit in 64-bit unsigned arithmetic, for a t whose age is  *)
(* age by now: a sender thread may have written a t later than this run's  *)
(* "now", and the difference wraps around to a huge number.                *)
BugSinceAtLeast(age, limit) == age - lag = limit

SinceAtLeast(age, limit) == age < lag \/ age - lag >= limit

(* Retry the requests that are due, give up those retried often enough.    *)
GiveUp(a) == retries[a] >= MaxRetries

TimerWhois ==
    /\ main.pc = "timer"
    /\ LET due   == {a \in whois : SinceAtLeast(since[a], RetryDelay)}
           over  == {a \in due : GiveUp(a)}
           retry == due \ over
       IN /\ whois' = whois \ over
          /\ since' = [a \in Addrs |-> IF a \in retry THEN lag ELSE since[a]]
          /\ retries' = [a \in Addrs |->
                           IF a \in retry THEN retries[a] + 1 ELSE retries[a]]
          /\ SendWhoisRequests(retry)
    /\ main' = [main EXCEPT !.pc = "timerTx"]
    /\ UNCHANGED <<rxVars, peers, txVars, lag>>

(* Try every queued packet again and drop those that waited too long.      *)
TimerTx ==
    /\ main.pc = "timerTx"
    /\ \E went \in SUBSET {i \in txQueue : Dest[i] \in peers} :
         LET gone == {i \in txQueue \ went : SinceAtLeast(txAge[i], TxTimeout + 1)} IN
         /\ txQueue' = txQueue \ (went \cup gone)
         /\ sent' = [i \in SendIds |-> IF i \in went THEN sent[i] + 1 ELSE sent[i]]
         /\ timedOut' = timedOut \cup gone
    /\ RequestWhois({Dest[i] : i \in txQueue} \ peers)
    /\ main' = Idle
    /\ lag' = 0
    /\ UNCHANGED <<rxVars, peers, unsent, sender, txAge>>

---------------------------------------------------------------------------
(* A sender thread: Switch::send                                           *)

(* _trySend() looks up the peer; a known one has a path or not.            *)
SendStart(t, i) ==
    /\ sender[t] = NoJob
    /\ i \in unsent
    /\ unsent' = unsent \ {i}
    /\ \/ /\ Dest[i] \in peers
          /\ sent' = [sent EXCEPT ![i] = @ + 1]
          /\ UNCHANGED sender
       \/ /\ Dest[i] \in peers
          /\ sender' = [sender EXCEPT ![t] = [pc |-> "push", id |-> i]]
          /\ UNCHANGED sent
       \/ /\ Dest[i] \notin peers
          /\ sender' = [sender EXCEPT ![t] = [pc |-> "whois", id |-> i]]
          /\ UNCHANGED sent
    /\ UNCHANGED <<rxVars, peers, whoisVars, txQueue, txAge, timedOut, main, lag>>

SendWhois(t) ==
    /\ sender[t].pc = "whois"
    /\ RequestWhois({Dest[sender[t].id]})
    /\ sender' = [sender EXCEPT ![t].pc = "push"]
    /\ UNCHANGED <<rxVars, peers, unsent, txQueue, txAge, sent, timedOut, main, lag>>

SendPush(t) ==
    /\ sender[t].pc = "push"
    /\ txQueue' = txQueue \cup {sender[t].id}
    /\ txAge' = [txAge EXCEPT ![sender[t].id] = 0]
    /\ sender' = [sender EXCEPT ![t] = NoJob]
    /\ UNCHANGED <<rxVars, peers, whoisVars, unsent, sent, timedOut, main, lag>>

---------------------------------------------------------------------------
(* Time passes.  A background run takes at most MaxLag ticks.              *)
Tick ==
    /\ \/ main.pc \notin {"timer", "timerTx"} /\ UNCHANGED lag
       \/ main.pc \in {"timer", "timerTx"} /\ lag < MaxLag /\ lag' = lag + 1
    /\ rxQueue' = [s \in Slots |-> IF rxQueue[s].used THEN Older(rxQueue[s]) ELSE rxQueue[s]]
    /\ since' = [a \in Addrs |->
                   IF a \in whois /\ since[a] < SinceCap THEN since[a] + 1 ELSE since[a]]
    /\ txAge' = [i \in SendIds |->
                   IF i \in txQueue /\ txAge[i] < TxCap THEN txAge[i] + 1 ELSE txAge[i]]
    /\ UNCHANGED <<net, delivered, peers, whois, retries, asked, lastAsked,
                   unsent, sender, txQueue, sent, timedOut, main>>

Receive(d) == RecvFragment(d) \/ RecvHead(d) \/ RecvWhole(d)

Next ==
    \/ \E d \in net : Receive(d)
    \/ \E a \in HelloFrom : RecvHello(a)
    \/ \E a \in Addrs : RecvOkWhois(a)
    \/ CancelWhois \/ DecodeWaiting \/ SendWaiting
    \/ TimerStart \/ TimerWhois \/ TimerTx
    \/ \E t \in Senders : SendWhois(t) \/ SendPush(t) \/ \E i \in SendIds : SendStart(t, i)
    \/ Tick

Spec == Init /\ [][Next]_vars

(* The threads keep running.  The main loop tests the background deadline  *)
(* on every pass, so a due run is not put off for ever by traffic.         *)
Fairness ==
    /\ WF_vars(Tick)
    /\ SF_vars(TimerStart)
    /\ WF_vars(CancelWhois) /\ WF_vars(DecodeWaiting) /\ WF_vars(SendWaiting)
    /\ WF_vars(TimerWhois) /\ WF_vars(TimerTx)
    /\ \A t \in Senders : WF_vars(SendWhois(t)) /\ WF_vars(SendPush(t))

LiveSpec == Spec /\ Fairness

---------------------------------------------------------------------------
(* Properties of the receive queue                                         *)

(* An entry in use holds, in every place its bit mask claims to be filled, *)
(* that very fragment of its own packet, although slots are reused with    *)
(* the leftovers of earlier packets in them; a complete entry holds the    *)
(* whole packet in order.                                                  *)
SlotsSound == \A s \in Slots : rxQueue[s].used => EntrySound(rxQueue[s])

(* The datagrams of one fragmented packet never spread over two entries,   *)
(* or it would never be completed.                                         *)
OneEntryPerPacket ==
    \A s, t \in Slots :
        /\ s # t /\ rxQueue[s].used /\ rxQueue[t].used
        /\ rxQueue[s].pid = rxQueue[t].pid
        => Fragments[rxQueue[s].pid] = 1

(* The queue implements reassembly as its users know it.                   *)
Reassembles ==
    INSTANCE Reassembly WITH Arriving <- Sent, held <- UNION {Holds(rxQueue[s]) : s \in Slots}
ReassemblySpec == Reassembles!Spec

(* An entry that has not expired gives way to another packet only when no  *)
(* slot is free and none holds an older packet.                            *)
EvictsOnlyOldest ==
    [][\A s \in Slots :
         /\ rxQueue[s].used /\ rxQueue[s].age < Expire
         /\ rxQueue'[s].used /\ rxQueue'[s].pid # rxQueue[s].pid
         => \A t \in Slots : rxQueue[t].used /\ rxQueue[t].age <= rxQueue[s].age]_vars

(* A complete packet that tryDecode() left in the queue goes only by being *)
(* delivered, by expiring or by giving way to another packet.              *)
WaitingNotLost ==
    [][\A s \in Slots :
         /\ rxQueue[s].used /\ rxQueue[s].complete /\ rxQueue[s].age < Expire
         /\ ~rxQueue'[s].used
         => rxQueue[s].frag0.segs \in delivered']_vars

---------------------------------------------------------------------------
(* Properties of the send queue and of WHOIS                               *)

In(i, S) == IF i \in S THEN 1 ELSE 0

(* A packet handed to send() is in one place: with the thread that sends   *)
(* it, in the queue, sent once, or given up; it is never sent twice, and   *)
(* never sent after it was given up, whichever thread got to it first.     *)
TxConserved ==
    \A i \in SendIds :
        In(i, unsent) + In(i, txQueue) + In(i, timedOut) + sent[i]
          + Cardinality({t \in Senders : sender[t].id = i}) = 1

(* A packet handed to send() is sent or given up in the end, although its  *)
(* peer may become known between the lookup and the push onto the queue.   *)
TxResolved ==
    \A i \in SendIds : (i \notin unsent) ~> (sent[i] > 0 \/ i \in timedOut)

(* Lookups nobody answers come to an end, although every timer run starts  *)
(* the retries of addresses with queued packets anew.                      *)
WhoisQuiesces == <>[](whois = {})

(* A packet is given up only after it has waited TxTimeout.                *)
TimeoutHonoured ==
    [][\A i \in timedOut' \ timedOut : txAge[i] > TxTimeout]_vars
=============================================================================
