---------------------------- MODULE SwitchProofs ----------------------------
(***************************************************************************)
(* Proofs about Switch.tla, for any number of nodes, packets, fragments,   *)
(* slots and threads.  What becomes of the datagrams is in                 *)
(* ReassemblyProofs.tla.                                                   *)
(***************************************************************************)
EXTENDS Switch, RxQueueProofs

(* TypeOK alone is not inductive: that assembling a packet yields a        *)
(* sequence of datagrams rests on SlotsSound.  A new fragment joins the    *)
(* entry of its packet because there is only one: OneEntryPerPacket.       *)
IInv == TypeOK /\ SlotsSound /\ OneEntryPerPacket

---------------------------------------------------------------------------
(* requestWhois() and _sendWhoisRequest()                                  *)

WhoisOK ==
    /\ whois \subseteq Addrs
    /\ since \in [Addrs -> 0..SinceCap]
    /\ retries \in [Addrs -> 0..MaxRetries]
    /\ asked \subseteq Addrs
    /\ lastAsked \in [Addrs -> Upstreams \cup {"none"}]

(* A request names an upstream.                                            *)
LEMMA SendWhoisRequestsType ==
    ASSUME WhoisOK, NEW W \in SUBSET Addrs, SendWhoisRequests(W)
    PROVE  /\ asked' \subseteq Addrs
           /\ lastAsked' \in [Addrs -> Upstreams \cup {"none"}]
BY DEF WhoisOK, SendWhoisRequests

(* requestWhois() keeps the table of requests well formed.                 *)
LEMMA RequestWhoisType ==
    ASSUME WhoisOK, NEW W \in SUBSET Addrs, RequestWhois(W)
    PROVE  WhoisOK'
<1>1. /\ asked' \subseteq Addrs
      /\ lastAsked' \in [Addrs -> Upstreams \cup {"none"}]
  BY SendWhoisRequestsType DEF RequestWhois
<1>2. /\ whois' \subseteq Addrs
      /\ since' \in [Addrs -> 0..SinceCap]
      /\ retries' \in [Addrs -> 0..MaxRetries]
  BY SwitchAssumption DEF RequestWhois, WhoisOK, SinceCap
<1> QED
  BY <1>1, <1>2 DEF WhoisOK

---------------------------------------------------------------------------
(* tryDecode()                                                             *)

(* The packet whose bytes p are is one that was sent to this node.         *)
LEMMA PidType ==
    ASSUME NEW p \in Packets, p.segs # <<>>
    PROVE  Pid(p) \in PacketIds
<1>1. p.segs \in Seq(Datagrams) /\ Len(p.segs) \in Nat \ {0}
  BY DEF Packets
<1>2. p.segs[1] \in Datagrams
  BY <1>1
<1> QED
  BY <1>2, DatagramFacts DEF Pid

(* tryDecode() of any number of packets keeps the types.                   *)
LEMMA DecodeType ==
    ASSUME TypeOK, NEW P \in SUBSET Packets, \A p \in P : p.segs # <<>>, Decode(P)
    PROVE  /\ delivered' \subseteq Seq(Datagrams)
           /\ WhoisOK'
<1>1. \A p \in P : Pid(p) \in PacketIds /\ p.segs \in Seq(Datagrams)
  BY PidType DEF Packets
<1>2. \A p \in P : Source[Pid(p)] \in Addrs /\ Wanted(p) \subseteq Addrs
  <2> SUFFICES ASSUME NEW p \in P
               PROVE  Source[Pid(p)] \in Addrs /\ Wanted(p) \subseteq Addrs
    OBVIOUS
  <2>1. Source[Pid(p)] \in Addrs /\ Issuer[Pid(p)] \in Addrs \cup {"none"}
    BY <1>1, SwitchAssumption
  <2>2. Outcome(p) = "deferred" => Issuer[Pid(p)] # "none"
    BY DEF Outcome
  <2> QED  BY <2>1, <2>2 DEF Wanted
<1>3. delivered' \subseteq Seq(Datagrams)
  BY <1>1 DEF Decode, TypeOK
<1>4. WhoisOK'
  <2>1. UNION {Wanted(p) : p \in P} \in SUBSET Addrs
    BY <1>2
  <2>2. WhoisOK
    BY DEF TypeOK, WhoisOK
  <2> QED  BY <2>1, <2>2, RequestWhoisType DEF Decode
<1> QED
  BY <1>3, <1>4

(* A complete packet that goes through tryDecode() leaves its slot or      *)
(* stays there whole.                                                      *)
LEMMA TriedSound ==
    ASSUME NEW e \in Entries, e.pid \in PacketIds, e.used,
           e.have = 0..(Fragments[e.pid] - 1),
           e.total = Fragments[e.pid],
           \A f \in e.have \ {0} :
             /\ Fragments[e.pid] <= MaxFragments
             /\ e.frags[f] \in Datagrams
             /\ e.frags[f].pid = e.pid /\ e.frags[f].fno = f,
           IsWhole(e.frag0.segs), e.frag0.segs[1].pid = e.pid
    PROVE  /\ Tried(e) \in Entries
           /\ Tried(e).used => Tried(e).pid = e.pid /\ EntrySound(Tried(e))
<1>1. CASE Finished(e.frag0)
  BY <1>1, FreedType DEF Tried
<1>2. CASE ~Finished(e.frag0)
  <2> DEFINE b == e.frag0.plain \/ (Outcome(e.frag0) = "deferred" /\ Pid(e.frag0) \notin Trusted)
  <2>1. b \in BOOLEAN
    BY DEF Entries, Packets
  <2>2. Tried(e) = [e EXCEPT !.frag0 = [e.frag0 EXCEPT !.plain = b], !.complete = TRUE]
    BY <1>2 DEF Tried, Left
  <2> HIDE DEF b
  <2> QED  BY ZenonT(30), <2>1, <2>2, KeptSound
<1> QED
  BY <1>1, <1>2
(* The packet a full entry is assembled into, after tryDecode().           *)
LEMMA CompletedSound ==
    ASSUME NEW e \in Entries, EntrySound(e), e.used, ~e.complete, HasAll(e)
    PROVE  /\ Tried(Assembled(e)) \in Entries
           /\ Tried(Assembled(e)).used =>
                Tried(Assembled(e)).pid = e.pid /\ EntrySound(Tried(Assembled(e)))
           /\ Assembled(e).frag0 \in Packets
           /\ Assembled(e).frag0.segs # <<>>
<1> DEFINE n == Assembled(e)
<1>1. /\ n \in Entries /\ IsWhole(n.frag0.segs) /\ n.frag0.segs[1].pid = e.pid
      /\ n.used = e.used /\ n.pid = e.pid
      /\ n.have = 0..(Fragments[e.pid] - 1) /\ n.total = Fragments[e.pid]
      /\ n.frags = e.frags
  BY Zenon, AssembledWhole
<1>2. n.have = e.have
  BY <1>1, HasAllMeansAll
<1> HIDE DEF n
<1>3. \A f \in n.have \ {0} :
         /\ Fragments[n.pid] <= MaxFragments
         /\ n.frags[f] \in Datagrams
         /\ n.frags[f].pid = n.pid /\ n.frags[f].fno = f
  BY ZenonT(30), <1>1, <1>2 DEF EntrySound
<1>4. n.pid \in PacketIds /\ n.used
  BY <1>1 DEF EntrySound
<1>5. Tried(n) \in Entries /\ (Tried(n).used => Tried(n).pid = e.pid /\ EntrySound(Tried(n)))
  BY Zenon, <1>1, <1>3, <1>4, TriedSound
<1>6. n.frag0 \in Packets /\ n.frag0.segs # <<>>
  BY <1>1 DEF Entries, IsWhole
<1> QED
  BY <1>5, <1>6 DEF n

---------------------------------------------------------------------------
(* The handlers of onRemotePacket() keep the queue sound.                  *)

RxSound(q) ==
    /\ q \in [Slots -> Entries]
    /\ \A s \in Slots : q[s].used => EntrySound(q[s])
    /\ \A s, t \in Slots :
         s # t /\ q[s].used /\ q[t].used /\ q[s].pid = q[t].pid => Fragments[q[s].pid] = 1

(* The scan of _findRXQueueEntry() does.                                   *)
LEMMA SweepSound ==
    ASSUME NEW q, RxSound(q), NEW pid
    PROVE  RxSound(Sweep(q, pid))
BY SweepFacts DEF RxSound

(* Storing a sound entry does.                                             *)
LEMMA StoreSound ==
    ASSUME NEW q, RxSound(q), NEW s \in Slots, NEW e \in Entries,
           e.used => EntrySound(e),
           e.used => \/ Fragments[e.pid] = 1
                     \/ q[s].used /\ q[s].pid = e.pid
                     \/ \A t \in Slots : ~Matches(q[t], e.pid)
    PROVE  RxSound([q EXCEPT ![s] = e])
<1> DEFINE n == [q EXCEPT ![s] = e]
<1>1. /\ n \in [Slots -> Entries] /\ n[s] = e
      /\ \A t \in Slots : t # s => n[t] = q[t]
  BY DEF RxSound
<1>2. \A t \in Slots : n[t].used => EntrySound(n[t])
  <2> HIDE DEF n
  <2> QED  BY <1>1 DEF RxSound
<1>3. ASSUME NEW t \in Slots, t # s, e.used, n[t].used, n[t].pid = e.pid
      PROVE  Fragments[e.pid] = 1
  <2> HIDE DEF n
  <2> QED  BY <1>1, <1>3 DEF RxSound, Matches
<1>4. ASSUME NEW t \in Slots, NEW u \in Slots, t # u, n[t].used, n[u].used, n[t].pid = n[u].pid
      PROVE  Fragments[n[t].pid] = 1
  <2> HIDE DEF n
  <2>1. CASE t = s  BY <1>1, <1>3, <1>4, <2>1
  <2>2. CASE u = s  BY <1>1, <1>3, <1>4, <2>2
  <2>3. CASE t # s /\ u # s  BY <1>1, <1>4, <2>3 DEF RxSound
  <2> QED  BY <2>1, <2>2, <2>3
<1> QED
  <2> HIDE DEF n
  <2>1. RxSound(n)  BY <1>1, <1>2, <1>4 DEF RxSound
  <2> QED  BY <2>1 DEF n

(* The entry _findRXQueueEntry() returns is the packet's, or nobody else's *)
(* is.                                                                     *)
LEMMA FindsFacts ==
    ASSUME NEW q, NEW pid, NEW s \in Slots, Finds(q, pid, s), ~Matches(q[s], pid)
    PROVE  \A t \in Slots : ~Matches(q[t], pid)
BY DEF Finds

(* A Packet::Fragment.                                                     *)
LEMMA RecvFragmentRx ==
    ASSUME IInv, NEW d \in net, RecvFragment(d)
    PROVE  /\ RxSound(rxQueue')
           /\ \/ NoDecode
              \/ \E p \in Packets : p.segs # <<>> /\ Decode({p})
<1>1. RxSound(rxQueue) /\ d \in Datagrams
  BY DEF IInv, TypeOK, SlotsSound, OneEntryPerPacket, RxSound
<1>2. CASE ~SaneFragment(d)
  BY <1>1, <1>2 DEF RecvFragment
<1>3. CASE SaneFragment(d)
  <2> DEFINE q == Sweep(rxQueue, d.pid)
  <2>1. RxSound(q)
    BY <1>1, SweepSound
  <2> HIDE DEF q
  <2>2. PICK s \in Slots :
           /\ Finds(q, d.pid, s)
           /\ \/ /\ ~Matches(q[s], d.pid)
                 /\ rxQueue' = [q EXCEPT ![s] = StartWithFragment(q[s], d)]
                 /\ NoDecode
              \/ /\ Matches(q[s], d.pid) /\ d.fno \notin q[s].have
                 /\ LET e == AddFragment(q[s], d) IN
                    IF HasAll(e)
                    THEN /\ rxQueue' = [q EXCEPT ![s] = Tried(Assembled(e))]
                         /\ Decode({Assembled(e).frag0})
                    ELSE rxQueue' = [q EXCEPT ![s] = e] /\ NoDecode
              \/ /\ rxQueue' = q
                 /\ NoDecode
    BY Zenon, <1>3 DEF RecvFragment, q
  <2>3. q[s] \in Entries /\ (q[s].used => EntrySound(q[s]))
    BY <2>1 DEF RxSound
  <2>4. CASE /\ ~Matches(q[s], d.pid)
             /\ rxQueue' = [q EXCEPT ![s] = StartWithFragment(q[s], d)]
             /\ NoDecode
    <3> DEFINE e == StartWithFragment(q[s], d)
    <3>1. e \in Entries /\ e.used /\ e.pid = d.pid /\ EntrySound(e)
      BY <1>1, <1>3, <2>3, StartWithFragmentSound
    <3>2. \A t \in Slots : ~Matches(q[t], d.pid)
      BY <2>2, <2>4, FindsFacts
    <3> HIDE DEF e
    <3>3. RxSound([q EXCEPT ![s] = e])
      BY <2>1, <3>1, <3>2, StoreSound
    <3> QED  BY <2>4, <3>3 DEF e
  <2>5. CASE /\ Matches(q[s], d.pid) /\ d.fno \notin q[s].have
             /\ LET e == AddFragment(q[s], d) IN
                IF HasAll(e)
                THEN /\ rxQueue' = [q EXCEPT ![s] = Tried(Assembled(e))]
                     /\ Decode({Assembled(e).frag0})
                ELSE rxQueue' = [q EXCEPT ![s] = e] /\ NoDecode
    <3> DEFINE e == AddFragment(q[s], d)
    <3>1. e \in Entries /\ e.used /\ e.pid = d.pid /\ ~e.complete /\ EntrySound(e)
      BY <1>1, <1>3, <2>3, <2>5, AddFragmentSound DEF Matches
    <3> HIDE DEF e
    <3>2. CASE HasAll(e)
      <4>1. rxQueue' = [q EXCEPT ![s] = Tried(Assembled(e))] /\ Decode({Assembled(e).frag0})
        BY <2>5, <3>2 DEF e
      <4> DEFINE n == Tried(Assembled(e))
      <4>2. /\ n \in Entries /\ (n.used => n.pid = e.pid /\ EntrySound(n))
            /\ Assembled(e).frag0 \in Packets /\ Assembled(e).frag0.segs # <<>>
        BY <3>1, <3>2, CompletedSound
      <4> HIDE DEF n
      <4>3. RxSound([q EXCEPT ![s] = n])
        BY <2>1, <2>5, <3>1, <4>2, StoreSound DEF Matches
      <4> QED  BY Zenon, <4>1, <4>2, <4>3 DEF n
    <3>3. CASE ~HasAll(e)
      <4>1. rxQueue' = [q EXCEPT ![s] = e] /\ NoDecode
        BY <2>5, <3>3 DEF e
      <4> QED  BY Zenon, <2>1, <2>5, <3>1, <4>1, StoreSound DEF Matches
    <3> QED  BY Zenon, <3>2, <3>3
  <2>6. CASE rxQueue' = q /\ NoDecode
    BY <2>1, <2>6
  <2> QED  BY Zenon, <2>2, <2>4, <2>5, <2>6
<1> QED
  BY Zenon, <1>2, <1>3

(* The head of a fragmented packet.                                        *)
LEMMA RecvHeadRx ==
    ASSUME IInv, NEW d \in net, RecvHead(d)
    PROVE  /\ RxSound(rxQueue')
           /\ \/ NoDecode
              \/ \E p \in Packets : p.segs # <<>> /\ Decode({p})
<1>1. RxSound(rxQueue) /\ d \in Datagrams /\ d.fno = 0
  BY DEF IInv, TypeOK, SlotsSound, OneEntryPerPacket, RxSound, RecvHead
<1> DEFINE q == Sweep(rxQueue, d.pid)
<1>2. RxSound(q)
  BY <1>1, SweepSound
<1> HIDE DEF q
<1>3. PICK s \in Slots :
         /\ Finds(q, d.pid, s)
         /\ \/ /\ ~Matches(q[s], d.pid)
               /\ rxQueue' = [q EXCEPT ![s] = StartWithHead(q[s], d)]
               /\ NoDecode
            \/ /\ Matches(q[s], d.pid) /\ 0 \notin q[s].have
               /\ LET e == AddHead(q[s], d) IN
                  IF HasAll(e)
                  THEN /\ rxQueue' = [q EXCEPT ![s] = Tried(Assembled(e))]
                       /\ Decode({Assembled(e).frag0})
                  ELSE rxQueue' = [q EXCEPT ![s] = e] /\ NoDecode
            \/ /\ rxQueue' = q
               /\ NoDecode
  BY ZenonT(30) DEF RecvHead, q
<1>4. q[s] \in Entries /\ (q[s].used => EntrySound(q[s]))
  BY <1>2 DEF RxSound
<1>5. CASE /\ ~Matches(q[s], d.pid)
           /\ rxQueue' = [q EXCEPT ![s] = StartWithHead(q[s], d)]
           /\ NoDecode
  <2> DEFINE e == StartWithHead(q[s], d)
  <2>1. e \in Entries /\ e.used /\ e.pid = d.pid /\ EntrySound(e)
    BY <1>1, <1>4, StartWithHeadSound
  <2>2. \A t \in Slots : ~Matches(q[t], d.pid)
    BY <1>3, <1>5, FindsFacts
  <2> HIDE DEF e
  <2>3. RxSound([q EXCEPT ![s] = e])
    BY <1>2, <2>1, <2>2, StoreSound
  <2> QED  BY <1>5, <2>3 DEF e
<1>6. CASE /\ Matches(q[s], d.pid) /\ 0 \notin q[s].have
           /\ LET e == AddHead(q[s], d) IN
              IF HasAll(e)
              THEN /\ rxQueue' = [q EXCEPT ![s] = Tried(Assembled(e))]
                   /\ Decode({Assembled(e).frag0})
              ELSE rxQueue' = [q EXCEPT ![s] = e] /\ NoDecode
  <2> DEFINE e == AddHead(q[s], d)
  <2>1. e \in Entries /\ e.used /\ e.pid = d.pid /\ ~e.complete /\ EntrySound(e)
    BY <1>1, <1>4, <1>6, AddHeadSound DEF Matches
  <2> HIDE DEF e
  <2>2. CASE HasAll(e)
    <3>1. rxQueue' = [q EXCEPT ![s] = Tried(Assembled(e))] /\ Decode({Assembled(e).frag0})
      BY <1>6, <2>2 DEF e
    <3> DEFINE n == Tried(Assembled(e))
    <3>2. /\ n \in Entries /\ (n.used => n.pid = e.pid /\ EntrySound(n))
          /\ Assembled(e).frag0 \in Packets /\ Assembled(e).frag0.segs # <<>>
      BY <2>1, <2>2, CompletedSound
    <3> HIDE DEF n
    <3>3. RxSound([q EXCEPT ![s] = n])
      BY <1>2, <1>6, <2>1, <3>2, StoreSound DEF Matches
    <3> QED  BY Zenon, <3>1, <3>2, <3>3 DEF n
  <2>3. CASE ~HasAll(e)
    <3>1. rxQueue' = [q EXCEPT ![s] = e] /\ NoDecode
      BY <1>6, <2>3 DEF e
    <3> QED  BY Zenon, <1>2, <1>6, <2>1, <3>1, StoreSound DEF Matches
  <2> QED  BY Zenon, <2>2, <2>3
<1>7. CASE rxQueue' = q /\ NoDecode
  BY <1>2, <1>7
<1> QED
  BY Zenon, <1>3, <1>5, <1>6, <1>7
(* An unfragmented packet.                                                 *)
LEMMA RecvWholeRx ==
    ASSUME IInv, NEW d \in net, RecvWhole(d)
    PROVE  /\ RxSound(rxQueue')
           /\ \E p \in Packets : p.segs # <<>> /\ Decode({p})
<1> DEFINE p == HeadOnly(d)
<1>1. RxSound(rxQueue) /\ d \in Datagrams /\ Fragments[d.pid] = 1
  BY DEF IInv, TypeOK, SlotsSound, OneEntryPerPacket, RxSound, RecvWhole
<1>2. p \in Packets /\ p.segs # <<>> /\ p.plain = FALSE
  BY <1>1, HeadOnlyType DEF HeadOnly
<1>3. Left(p).plain \in BOOLEAN
  <2> HIDE DEF p
  <2> QED  BY <1>2 DEF Left, Packets
<1>4. Decode({p})
  BY DEF RecvWhole
<1>5. UNCHANGED rxQueue => RxSound(rxQueue')
  BY <1>1
<1>6. ASSUME NEW s \in Slots,
             rxQueue' = [rxQueue EXCEPT ![s] = StoreWhole(rxQueue[s], d, Left(p).plain)]
      PROVE  RxSound(rxQueue')
  <2> DEFINE b == Left(p).plain  n == StoreWhole(rxQueue[s], d, b)
  <2>1. rxQueue[s] \in Entries
    BY <1>1 DEF RxSound
  <2>2. n \in Entries /\ n.used /\ n.pid = d.pid /\ EntrySound(n)
    <3> HIDE DEF b
    <3> QED  BY <1>1, <1>3, <2>1, StoreWholeSound DEF b
  <2>3. rxQueue' = [rxQueue EXCEPT ![s] = n]
    BY <1>6
  <2> HIDE DEF n
  <2> QED  BY ZenonT(30), <1>1, <2>2, <2>3, StoreSound
<1>7. UNCHANGED rxQueue \/ \E s \in Slots :
             rxQueue' = [rxQueue EXCEPT ![s] = StoreWhole(rxQueue[s], d, Left(p).plain)]
  BY DEF RecvWhole
<1> QED
  <2> HIDE DEF p
  <2> QED  BY Zenon, <1>2, <1>4, <1>5, <1>6, <1>7

(* The retries of doAnythingWaitingForPeer().                              *)
LEMMA DecodeWaitingRx ==
    ASSUME IInv, DecodeWaiting
    PROVE  /\ RxSound(rxQueue')
           /\ \E P \in SUBSET Packets : (\A p \in P : p.segs # <<>>) /\ Decode(P)
<1> DEFINE waiting == {s \in Slots : rxQueue[s].used /\ rxQueue[s].complete}
           P == {rxQueue[s].frag0 : s \in waiting}
<1>1. RxSound(rxQueue)
  BY DEF IInv, TypeOK, SlotsSound, OneEntryPerPacket, RxSound
<1>2. /\ Decode(P)
      /\ rxQueue' = [s \in Slots |-> IF s \in waiting THEN Tried(rxQueue[s]) ELSE rxQueue[s]]
  BY DEF DecodeWaiting
<1>3. \A s \in waiting : /\ s \in Slots /\ rxQueue[s] \in Entries /\ EntrySound(rxQueue[s])
                         /\ rxQueue[s].used /\ rxQueue[s].complete
  BY <1>1 DEF RxSound
<1>4. \A s \in waiting : /\ Tried(rxQueue[s]) \in Entries
                         /\ Tried(rxQueue[s]).used =>
                              /\ Tried(rxQueue[s]).pid = rxQueue[s].pid
                              /\ EntrySound(Tried(rxQueue[s]))
  <2> SUFFICES ASSUME NEW e \in Entries, EntrySound(e), e.used, e.complete
               PROVE  /\ Tried(e) \in Entries
                      /\ Tried(e).used => Tried(e).pid = e.pid /\ EntrySound(Tried(e))
    BY <1>3
  <2>1. /\ e.pid \in PacketIds
        /\ e.have = 0..(Fragments[e.pid] - 1)
        /\ IsWhole(e.frag0.segs) /\ e.frag0.segs[1].pid = e.pid
        /\ \A f \in e.have \ {0} :
             /\ Fragments[e.pid] <= MaxFragments
             /\ e.frags[f] \in Datagrams
             /\ e.frags[f].pid = e.pid /\ e.frags[f].fno = f
    BY DEF EntrySound
  <2>2. e.total = Fragments[e.pid]
    BY DEF EntrySound
  <2> QED  BY ZenonT(30), <2>1, <2>2, TriedSound
<1>5. RxSound(rxQueue')
  <2> HIDE DEF waiting
  <2>1. \A s \in Slots : /\ rxQueue'[s] \in Entries
                         /\ rxQueue'[s].used => /\ EntrySound(rxQueue'[s])
                                                /\ rxQueue[s].used
                                                /\ rxQueue'[s].pid = rxQueue[s].pid
    <3>1. \A s \in waiting : rxQueue'[s] = Tried(rxQueue[s]) /\ rxQueue[s].used
      BY <1>2, <1>3
    <3>2. \A s \in Slots : s \notin waiting => rxQueue'[s] = rxQueue[s]
      BY <1>2
    <3> QED  BY <1>1, <1>4, <3>1, <3>2 DEF RxSound
  <2>2. rxQueue' \in [Slots -> Entries]
    BY <1>2, <2>1
  <2> QED  BY <1>1, <2>1, <2>2 DEF RxSound
<1>6. P \in SUBSET Packets /\ \A p \in P : p.segs # <<>>
  <2>1. \A e \in Entries : e.complete /\ EntrySound(e) =>
                           e.frag0 \in Packets /\ e.frag0.segs # <<>>
    BY DEF Entries, EntrySound, IsWhole
  <2>2. \A s \in waiting : rxQueue[s].frag0 \in Packets /\ rxQueue[s].frag0.segs # <<>>
    BY <1>3, <2>1
  <2> HIDE DEF waiting
  <2> QED  BY <2>2
<1> QED
  <2> HIDE DEF P
  <2> QED  BY <1>2, <1>5, <1>6

(* The passing of time.                                                    *)
LEMMA TickRx ==
    ASSUME IInv, Tick
    PROVE  RxSound(rxQueue')
<1>1. RxSound(rxQueue)
  BY DEF IInv, TypeOK, SlotsSound, OneEntryPerPacket, RxSound
<1>2. rxQueue' = [s \in Slots |-> IF rxQueue[s].used THEN Older(rxQueue[s]) ELSE rxQueue[s]]
  BY DEF Tick
<1>3. \A s \in Slots : /\ rxQueue'[s] \in Entries
                       /\ rxQueue'[s].used => EntrySound(rxQueue'[s])
                       /\ rxQueue'[s].used = rxQueue[s].used
                       /\ rxQueue'[s].pid = rxQueue[s].pid
  BY <1>1, <1>2, OlderSound DEF RxSound
<1>4. rxQueue' \in [Slots -> Entries]
  BY <1>2, <1>3
<1> QED
  BY <1>1, <1>3, <1>4 DEF RxSound

---------------------------------------------------------------------------
(* The initial state and every step.                                       *)

(* An empty queue, no requests and nothing waiting satisfy the invariant.  *)
LEMMA InitIInv == Init => IInv
<1> SUFFICES ASSUME Init PROVE IInv
  OBVIOUS
<1>1. rxQueue \in [Slots -> Entries] /\ SlotsSound /\ OneEntryPerPacket
  BY ZenonT(30), UnusedType DEF Init, SlotsSound, OneEntryPerPacket, Unused
<1>2. TypeOK
  BY <1>1, RxAssumption, SwitchAssumption DEF Init, TypeOK, SinceCap, TxCap
<1> QED
  BY <1>1, <1>2 DEF IInv
(* A step that changes the receive queue and what tryDecode() changes.     *)
LEMMA RxStep ==
    ASSUME IInv, RxSound(rxQueue'), net' \subseteq net,
           \/ NoDecode
           \/ \E P \in SUBSET Packets : (\A p \in P : p.segs # <<>>) /\ Decode(P),
           main' = main \/ main' \in [pc : {"tx"}, addr : Addrs],
           UNCHANGED <<peers, txVars, lag>>
    PROVE  IInv'
<1>1. /\ delivered' \subseteq Seq(Datagrams)
      /\ WhoisOK'
  <2>1. CASE NoDecode
    BY <2>1 DEF NoDecode, IInv, TypeOK, WhoisOK, whoisVars
  <2>2. CASE \E P \in SUBSET Packets : (\A p \in P : p.segs # <<>>) /\ Decode(P)
    BY <2>2, DecodeType DEF IInv
  <2> QED  BY <2>1, <2>2
<1>2. rxQueue' \in [Slots -> Entries] /\ SlotsSound' /\ OneEntryPerPacket'
  BY DEF RxSound, SlotsSound, OneEntryPerPacket
<1>3. main' \in {Idle} \cup [pc : {"cancel", "rx", "tx"}, addr : Addrs]
                \cup [pc : {"timer", "timerTx"}, addr : {"none"}]
  BY DEF IInv, TypeOK
<1>4. TypeOK'
  BY <1>1, <1>2, <1>3 DEF IInv, TypeOK, WhoisOK, txVars
<1> QED
  BY <1>2, <1>4 DEF IInv

(* A step that leaves the receive queue alone.                             *)
LEMMA OtherStep ==
    ASSUME IInv, UNCHANGED rxVars, TypeOK'
    PROVE  IInv'
BY DEF IInv, SlotsSound, OneEntryPerPacket, rxVars

(* Every step preserves the invariant.                                     *)
LEMMA NextIInv == IInv /\ [Next]_vars => IInv'
<1> SUFFICES ASSUME IInv, [Next]_vars PROVE IInv'
  OBVIOUS
<1>t. TypeOK /\ WhoisOK
  BY DEF IInv, TypeOK, WhoisOK
<1>1. CASE \E d \in net : Receive(d)
  <2> SUFFICES ASSUME NEW d \in net, Receive(d) PROVE IInv'
    BY <1>1
  <2>1. net' \subseteq net /\ UNCHANGED <<peers, txVars, main, lag>>
    BY ZenonT(30) DEF Receive, RecvFragment, RecvHead, RecvWhole, Receives
  <2>2. /\ RxSound(rxQueue')
        /\ NoDecode \/ \E p \in Packets : p.segs # <<>> /\ Decode({p})
    BY ZenonT(30), RecvFragmentRx, RecvHeadRx, RecvWholeRx DEF Receive
  <2>3. NoDecode \/ \E P \in SUBSET Packets : (\A p \in P : p.segs # <<>>) /\ Decode(P)
    <3>1. ASSUME NEW p \in Packets, p.segs # <<>>, Decode({p})
          PROVE  \E P \in SUBSET Packets : (\A r \in P : r.segs # <<>>) /\ Decode(P)
      <4>1. {p} \in SUBSET Packets /\ \A r \in {p} : r.segs # <<>>
        BY <3>1
      <4> QED  BY <3>1, <4>1
    <3> QED  BY Zenon, <2>2, <3>1
  <2> QED  BY <2>1, <2>2, <2>3, RxStep
<1>2. CASE \E a \in HelloFrom : RecvHello(a)
  <2>1. TypeOK'
    BY <1>2, <1>t, SwitchAssumption DEF TypeOK, RecvHello, rxVars, whoisVars, txVars
  <2> QED  BY <1>2, <2>1, OtherStep DEF RecvHello
<1>3. CASE \E a \in Addrs : RecvOkWhois(a)
  <2>1. TypeOK'
    BY <1>3, <1>t DEF TypeOK, RecvOkWhois, rxVars, whoisVars, txVars
  <2> QED  BY <1>3, <2>1, OtherStep DEF RecvOkWhois
<1>4. CASE CancelWhois
  <2>1. main \in [pc : {"cancel", "rx", "tx"}, addr : Addrs]
    BY <1>4, <1>t DEF TypeOK, CancelWhois, Idle
  <2>2. [main EXCEPT !.pc = "rx"] \in [pc : {"cancel", "rx", "tx"}, addr : Addrs]
    BY <2>1
  <2>3. TypeOK'
    BY <1>4, <1>t, <2>2 DEF TypeOK, CancelWhois, rxVars, txVars
  <2> QED  BY <1>4, <2>3, OtherStep DEF CancelWhois
<1>5. CASE DecodeWaiting
  <2>1. main \in [pc : {"cancel", "rx", "tx"}, addr : Addrs]
    BY <1>5, <1>t DEF TypeOK, DecodeWaiting, Idle
  <2>2. main' \in [pc : {"tx"}, addr : Addrs]
    BY <1>5, <2>1 DEF DecodeWaiting
  <2> QED  BY <1>5, <2>2, DecodeWaitingRx, RxStep DEF DecodeWaiting
<1>6. CASE SendWaiting
  <2>1. TypeOK'
    BY <1>6, <1>t DEF TypeOK, SendWaiting, rxVars, whoisVars
  <2> QED  BY <1>6, <2>1, OtherStep DEF SendWaiting
<1>7. CASE TimerStart
  <2>1. TypeOK'
    BY <1>7, <1>t, SwitchAssumption DEF TypeOK, TimerStart, rxVars, whoisVars, txVars
  <2> QED  BY <1>7, <2>1, OtherStep DEF TimerStart
<1>8. CASE TimerWhois
  <2> DEFINE due   == {a \in whois : SinceAtLeast(since[a], RetryDelay)}
             over  == {a \in due : GiveUp(a)}
             retry == due \ over
  <2>1. /\ whois' = whois \ over
        /\ since' = [a \in Addrs |-> IF a \in retry THEN lag ELSE since[a]]
        /\ retries' = [a \in Addrs |-> IF a \in retry THEN retries[a] + 1 ELSE retries[a]]
        /\ SendWhoisRequests(retry)
        /\ main.pc = "timer"
        /\ main' = [main EXCEPT !.pc = "timerTx"]
        /\ UNCHANGED <<rxVars, peers, txVars, lag>>
    BY <1>8 DEF TimerWhois
  <2>2. retry \in SUBSET Addrs /\ \A a \in retry : retries[a] < MaxRetries
    BY <1>t, SwitchAssumption DEF WhoisOK, GiveUp
  <2> HIDE DEF over, retry
  <2>3. /\ whois' \subseteq Addrs
        /\ since' \in [Addrs -> 0..SinceCap]
        /\ retries' \in [Addrs -> 0..MaxRetries]
    BY <1>t, <2>1, <2>2, SwitchAssumption DEF TypeOK, SinceCap
  <2>4. asked' \subseteq Addrs /\ lastAsked' \in [Addrs -> Upstreams \cup {"none"}]
    BY <1>t, <2>1, <2>2, SendWhoisRequestsType
  <2>5. TypeOK'
    BY <1>t, <2>1, <2>3, <2>4 DEF TypeOK, rxVars, txVars, Idle
  <2> QED  BY <2>1, <2>5, OtherStep
<1>9. CASE TimerTx
  <2> DEFINE W == {Dest[i] : i \in txQueue} \ peers
  <2>1. W \in SUBSET Addrs /\ RequestWhois(W)
    BY <1>9, <1>t, SwitchAssumption DEF TimerTx, TypeOK
  <2> HIDE DEF W
  <2>2. WhoisOK'
    BY <1>t, <2>1, RequestWhoisType
  <2>3. txQueue' \subseteq SendIds /\ timedOut' \subseteq SendIds /\ sent' \in [SendIds -> Nat]
    BY <1>9, <1>t DEF TimerTx, TypeOK
  <2>4. main' = Idle /\ lag' \in 0..MaxLag /\ UNCHANGED <<rxVars, peers, unsent, sender, txAge>>
    BY <1>9, SwitchAssumption DEF TimerTx
  <2>5. TypeOK'
    BY <1>t, <2>2, <2>3, <2>4 DEF TypeOK, WhoisOK, rxVars
  <2> QED  BY <1>9, <2>5, OtherStep DEF TimerTx
<1>10. CASE \E t \in Senders : SendWhois(t)
  <2> SUFFICES ASSUME NEW t \in Senders, SendWhois(t) PROVE IInv'
    BY <1>10
  <2>1. sender[t] \in [pc : {"whois", "push"}, id : SendIds]
    BY <1>t DEF TypeOK, SendWhois, NoJob
  <2>2. {Dest[sender[t].id]} \in SUBSET Addrs
    BY <2>1, SwitchAssumption
  <2>3. WhoisOK'
    BY <1>t, <2>2, RequestWhoisType DEF SendWhois
  <2>4. [sender[t] EXCEPT !.pc = "push"] \in [pc : {"whois", "push"}, id : SendIds]
    BY <2>1
  <2>5. sender' \in [Senders -> {NoJob} \cup [pc : {"whois", "push"}, id : SendIds]]
    BY <1>t, <2>4 DEF TypeOK, SendWhois
  <2>6. TypeOK'
    BY <1>t, <2>3, <2>5 DEF TypeOK, WhoisOK, SendWhois, rxVars
  <2> QED  BY <2>6, OtherStep DEF SendWhois
<1>11. CASE \E t \in Senders : SendPush(t)
  <2> SUFFICES ASSUME NEW t \in Senders, SendPush(t) PROVE IInv'
    BY <1>11
  <2>1. sender[t].id \in SendIds
    BY <1>t DEF TypeOK, SendPush, NoJob
  <2>2. /\ txQueue' \subseteq SendIds
        /\ txAge' \in [SendIds -> 0..TxCap]
        /\ sender' \in [Senders -> {NoJob} \cup [pc : {"whois", "push"}, id : SendIds]]
    <3>1. txQueue' \subseteq SendIds
      BY <1>t, <2>1 DEF TypeOK, SendPush
    <3>2. txAge' \in [SendIds -> 0..TxCap]
      <4>1. txAge \in [SendIds -> 0..TxCap] /\ 0 \in 0..TxCap
        BY <1>t, SwitchAssumption DEF TypeOK, TxCap
      <4> QED  BY Zenon, <4>1 DEF SendPush
    <3>3. sender' \in [Senders -> {NoJob} \cup [pc : {"whois", "push"}, id : SendIds]]
      BY <1>t DEF TypeOK, SendPush
    <3> QED  BY Zenon, <3>1, <3>2, <3>3
  <2>3. TypeOK'
    BY <1>t, <2>2 DEF TypeOK, SendPush, rxVars, whoisVars
  <2> QED  BY <2>3, OtherStep DEF SendPush
<1>12. CASE \E t \in Senders, i \in SendIds : SendStart(t, i)
  <2> SUFFICES ASSUME NEW t \in Senders, NEW i \in SendIds, SendStart(t, i) PROVE IInv'
    BY <1>12
  <2>1. /\ unsent' \subseteq SendIds
        /\ sent' \in [SendIds -> Nat]
        /\ sender' \in [Senders -> {NoJob} \cup [pc : {"whois", "push"}, id : SendIds]]
    <3>1. unsent' \subseteq SendIds
      BY Zenon, <1>t DEF TypeOK, SendStart
    <3>2. sent' = sent \/ sent' = [sent EXCEPT ![i] = sent[i] + 1]
      BY DEF SendStart
    <3>3. sent' \in [SendIds -> Nat]
      <4>1. sent \in [SendIds -> Nat] /\ sent[i] + 1 \in Nat
        BY <1>t DEF TypeOK
      <4> QED  BY <3>2, <4>1
    <3> DEFINE Jobs == {NoJob} \cup [pc : {"whois", "push"}, id : SendIds]
               push == [pc |-> "push", id |-> i]
               ask  == [pc |-> "whois", id |-> i]
    <3>4. \/ sender' = sender
          \/ sender' = [sender EXCEPT ![t] = push]
          \/ sender' = [sender EXCEPT ![t] = ask]
      BY DEF SendStart
    <3>5. push \in Jobs /\ ask \in Jobs /\ sender \in [Senders -> Jobs]
      BY <1>t DEF TypeOK
    <3> HIDE DEF Jobs, push, ask
    <3>6. sender' \in [Senders -> Jobs]
      BY Zenon, <3>4, <3>5
    <3> QED  BY Zenon, <3>1, <3>3, <3>6 DEF Jobs
  <2>2. TypeOK'
    BY Zenon, <1>t, <2>1 DEF TypeOK, SendStart, rxVars, whoisVars
  <2> QED  BY <2>2, OtherStep DEF SendStart
<1>13. CASE Tick
  <2>1. RxSound(rxQueue')
    BY <1>13, TickRx
  <2>2. /\ since' \in [Addrs -> 0..SinceCap]
        /\ txAge' \in [SendIds -> 0..TxCap]
        /\ lag' \in 0..MaxLag
    <3>1. since' \in [Addrs -> 0..SinceCap]
      BY <1>13, <1>t, SwitchAssumption DEF TypeOK, Tick, SinceCap
    <3>2. txAge' \in [SendIds -> 0..TxCap]
      BY <1>13, <1>t, SwitchAssumption DEF TypeOK, Tick, TxCap
    <3>3. lag' \in 0..MaxLag
      <4>1. lag' = lag \/ (lag < MaxLag /\ lag' = lag + 1)
        BY Zenon, <1>13 DEF Tick
      <4>2. lag \in 0..MaxLag /\ MaxLag \in Nat
        BY <1>t, SwitchAssumption DEF TypeOK
      <4> QED  BY <4>1, <4>2
    <3> QED  BY Zenon, <3>1, <3>2, <3>3
  <2>3. TypeOK'
    BY <1>13, <1>t, <2>1, <2>2 DEF TypeOK, Tick, RxSound
  <2> QED  BY <2>1, <2>3 DEF IInv, RxSound, SlotsSound, OneEntryPerPacket
<1>14. CASE UNCHANGED vars
  BY Zenon, <1>14, <1>t DEF IInv, TypeOK, SlotsSound, OneEntryPerPacket, vars, rxVars,
                     whoisVars, txVars
<1> QED
  BY <1>1, <1>2, <1>3, <1>4, <1>5, <1>6, <1>7, <1>8, <1>9, <1>10, <1>11, <1>12, <1>13,
     <1>14 DEF Next

---------------------------------------------------------------------------
(* The state of the switch keeps its shape: no retry counter runs past     *)
(* ZT_MAX_WHOIS_RETRIES, no queue entry is malformed.                      *)
THEOREM TypeCorrect == Spec => []TypeOK
<1>1. IInv => TypeOK
  BY DEF IInv
<1> QED
  BY <1>1, InitIInv, NextIInv, PTL DEF Spec

(* Whatever order datagrams arrive in, with losses, copies, expiry and     *)
(* reuse of slots, an entry holds only fragments of its own packet, each   *)
(* in its place, and a packet is complete only when it is whole.           *)
THEOREM SlotsAlwaysSound == Spec => []SlotsSound
<1>1. IInv => SlotsSound
  BY DEF IInv
<1> QED
  BY <1>1, InitIInv, NextIInv, PTL DEF Spec
(* The datagrams of a packet never spread over two entries: the scan of    *)
(* _findRXQueueEntry() finds the entry a packet has before it takes a      *)
(* slot for it.                                                            *)
THEOREM OneEntryAlways == Spec => []OneEntryPerPacket
<1>1. IInv => OneEntryPerPacket
  BY DEF IInv
<1> QED
  BY <1>1, InitIInv, NextIInv, PTL DEF Spec
---------------------------------------------------------------------------
(* The send queue                                                          *)

(* A thread that is in send() holds its packet.                            *)
HeldBySender(i) == \E t \in Senders : sender[t].id = i

(* TxConserved counts the threads that hold a packet.  It is inductive     *)
(* only with the fact that no two threads hold the same one.               *)
TxInv ==
    \A i \in SendIds :
        /\ \A t, u \in Senders : sender[t].id = i /\ sender[u].id = i => t = u
        /\ In(i, unsent) + In(i, txQueue) + In(i, timedOut) + sent[i]
             + (IF HeldBySender(i) THEN 1 ELSE 0) = 1

(* At most one thread holds the packet, so counting them says whether one  *)
(* does.                                                                   *)
LEMMA OneHolder ==
    ASSUME NEW i, \A t, u \in Senders : sender[t].id = i /\ sender[u].id = i => t = u
    PROVE  Cardinality({t \in Senders : sender[t].id = i})
             = IF HeldBySender(i) THEN 1 ELSE 0
<1> DEFINE H == {t \in Senders : sender[t].id = i}
<1>1. CASE HeldBySender(i)
  <2>1. PICK t \in Senders : sender[t].id = i
    BY <1>1 DEF HeldBySender
  <2>2. H = {t}
    BY <2>1
  <2> HIDE DEF H
  <2> QED  BY Zenon, <1>1, <2>2, FS_Singleton DEF H
<1>2. CASE ~HeldBySender(i)
  <2>1. H = {}
    BY <1>2 DEF HeldBySender
  <2> HIDE DEF H
  <2> QED  BY <1>2, <2>1, FS_EmptySet DEF H
<1> QED
  BY <1>1, <1>2

(* What the threads of send() hold decides TxConserved.                    *)
LEMMA TxInvConserves == TxInv => TxConserved
BY OneHolder DEF TxInv, TxConserved

(* At first nothing was handed to send().                                  *)
LEMMA InitTxInv == Init => TxInv
<1> SUFFICES ASSUME Init, NEW i \in SendIds
             PROVE  /\ \A t \in Senders : sender[t].id # i
                    /\ In(i, unsent) = 1 /\ In(i, txQueue) = 0 /\ In(i, timedOut) = 0
                    /\ sent[i] = 0
  BY DEF TxInv, HeldBySender
<1> QED
  BY SwitchAssumption DEF Init, NoJob, In

(* Moving packets out of the queue, some sent once and some given up,      *)
(* keeps each in one place.                                                *)
LEMMA LeaveQueue ==
    ASSUME TypeOK, TxInv, NEW went \in SUBSET txQueue, NEW gone \in SUBSET (txQueue \ went),
           txQueue' = txQueue \ (went \cup gone),
           sent' = [i \in SendIds |-> IF i \in went THEN sent[i] + 1 ELSE sent[i]],
           timedOut' = timedOut \cup gone,
           UNCHANGED <<unsent, sender>>
    PROVE  TxInv'
<1> SUFFICES ASSUME NEW i \in SendIds
             PROVE  /\ \A t, u \in Senders : sender[t].id = i /\ sender[u].id = i => t = u
                    /\ In(i, unsent) + In(i, txQueue') + In(i, timedOut') + sent'[i]
                         + (IF HeldBySender(i) THEN 1 ELSE 0) = 1
  BY DEF TxInv, HeldBySender, In
<1>1. /\ \A t, u \in Senders : sender[t].id = i /\ sender[u].id = i => t = u
      /\ In(i, unsent) + In(i, txQueue) + In(i, timedOut) + sent[i]
           + (IF HeldBySender(i) THEN 1 ELSE 0) = 1
      /\ sent[i] \in Nat
  BY DEF TxInv, TypeOK
<1> HIDE DEF HeldBySender
<1> QED
  BY <1>1 DEF In

(* Every step of every thread keeps a packet in one place.                 *)
LEMMA NextTxInv == TypeOK /\ TxInv /\ [Next]_vars => TxInv'
<1> SUFFICES ASSUME TypeOK, TxInv, [Next]_vars PROVE TxInv'
  OBVIOUS
<1>1. CASE UNCHANGED txVars
  BY <1>1 DEF TxInv, HeldBySender, txVars
<1>2. CASE SendWaiting
  <2>1. PICK went \in SUBSET {i \in txQueue : Dest[i] = main.addr} :
           /\ txQueue' = txQueue \ went
           /\ sent' = [i \in SendIds |-> IF i \in went THEN sent[i] + 1 ELSE sent[i]]
    BY <1>2 DEF SendWaiting
  <2>2. /\ went \in SUBSET txQueue /\ {} \in SUBSET (txQueue \ went)
        /\ txQueue' = txQueue \ (went \cup {})
        /\ timedOut' = timedOut \cup {} /\ UNCHANGED <<unsent, sender>>
    BY <1>2, <2>1 DEF SendWaiting
  <2> QED  BY ZenonT(30), <2>1, <2>2, LeaveQueue
<1>3. CASE TimerTx
  <2>1. PICK went \in SUBSET {i \in txQueue : Dest[i] \in peers} :
          LET gone == {i \in txQueue \ went : SinceAtLeast(txAge[i], TxTimeout + 1)} IN
          /\ txQueue' = txQueue \ (went \cup gone)
          /\ sent' = [i \in SendIds |-> IF i \in went THEN sent[i] + 1 ELSE sent[i]]
          /\ timedOut' = timedOut \cup gone
    BY <1>3 DEF TimerTx
  <2> DEFINE gone == {i \in txQueue \ went : SinceAtLeast(txAge[i], TxTimeout + 1)}
  <2>2. /\ txQueue' = txQueue \ (went \cup gone)
        /\ sent' = [i \in SendIds |-> IF i \in went THEN sent[i] + 1 ELSE sent[i]]
        /\ timedOut' = timedOut \cup gone
        /\ went \in SUBSET txQueue /\ gone \in SUBSET (txQueue \ went)
        /\ UNCHANGED <<unsent, sender>>
    BY <1>3, <2>1 DEF TimerTx
  <2> HIDE DEF gone
  <2> QED  BY <2>2, LeaveQueue
<1>4. ASSUME NEW t \in Senders, SendWhois(t)
      PROVE  TxInv'
  <2>1. sender[t] \in [pc : {"whois", "push"}, id : SendIds]
    BY <1>4 DEF TypeOK, SendWhois, NoJob
  <2>2. \A u \in Senders : sender'[u].id = sender[u].id
    BY <1>4, <2>1 DEF SendWhois, TypeOK
  <2>3. UNCHANGED <<unsent, txQueue, sent, timedOut>>
    BY <1>4 DEF SendWhois
  <2> QED  BY <2>2, <2>3 DEF TxInv, HeldBySender, In
<1>5. ASSUME NEW t \in Senders, SendPush(t)
      PROVE  TxInv'
  <2>0. PICK j \in SendIds : j = sender[t].id
    <3>1. sender[t].id \in SendIds
      BY <1>5 DEF SendPush, TypeOK, NoJob
    <3> QED  BY Zenon, <3>1
  <2>1. /\ sender[t].id = j /\ UNCHANGED <<unsent, sent, timedOut>>
        /\ txQueue' = txQueue \cup {j}
        /\ sender'[t].id = "none" /\ "none" \notin SendIds
        /\ \A u \in Senders \ {t} : sender'[u] = sender[u]
    <3>1. sender' = [sender EXCEPT ![t] = NoJob] /\ NoJob.id = "none" /\ DOMAIN sender = Senders
      BY <1>5 DEF SendPush, TypeOK, NoJob
    <3> QED  BY <1>5, <2>0, <3>1, SwitchAssumption DEF SendPush
  <2>2. \A i \in SendIds : sent[i] \in Nat
    BY Zenon DEF TypeOK
  <2>3. \A i \in SendIds \ {j} :
           (HeldBySender(i)' <=> HeldBySender(i)) /\ In(i, txQueue') = In(i, txQueue)
    BY <2>1 DEF HeldBySender, In
  <2>4. ~HeldBySender(j)' /\ HeldBySender(j) /\ In(j, txQueue) = 0 /\ In(j, txQueue') = 1
    <3>1. HeldBySender(j) /\ (\A u \in Senders : sender[u].id = j => u = t)
      BY <2>1 DEF HeldBySender, TxInv
    <3>2. In(j, unsent) + In(j, txQueue) + In(j, timedOut) + sent[j] + 1 = 1
      BY <2>1, <3>1 DEF TxInv
    <3>3. ~HeldBySender(j)'
      BY <2>1, <3>1 DEF HeldBySender
    <3> QED  BY <2>1, <2>2, <3>1, <3>2, <3>3 DEF In
  <2>5. \A i \in SendIds, u, v \in Senders :
           sender'[u].id = i /\ sender'[v].id = i => u = v
    BY <2>1 DEF TxInv
  <2> QED
    <3> SUFFICES ASSUME NEW i \in SendIds
                 PROVE  In(i, unsent') + In(i, txQueue') + In(i, timedOut') + sent'[i]
                          + (IF HeldBySender(i)' THEN 1 ELSE 0) = 1
      BY Zenon, <2>5 DEF TxInv
    <3>1. In(i, unsent) + In(i, txQueue) + In(i, timedOut) + sent[i]
            + (IF HeldBySender(i) THEN 1 ELSE 0) = 1
      BY Zenon DEF TxInv
    <3>2. In(i, unsent') = In(i, unsent) /\ In(i, timedOut') = In(i, timedOut) /\ sent'[i] = sent[i]
          /\ In(i, unsent) \in {0, 1} /\ In(i, timedOut) \in {0, 1}
      BY Zenon, <2>1 DEF In
    <3>3. CASE i = j
      BY <2>2, <2>4, <3>1, <3>2, <3>3
    <3>4. CASE i # j
      BY <2>3, <3>1, <3>2, <3>4
    <3> QED  BY <3>3, <3>4
<1>6. ASSUME NEW t \in Senders, NEW j \in SendIds, SendStart(t, j)
      PROVE  TxInv'
  <2>1. /\ j \in unsent /\ unsent' = unsent \ {j} /\ UNCHANGED <<txQueue, timedOut>>
        /\ sender[t].id = "none" /\ "none" \notin SendIds
    BY <1>6, SwitchAssumption DEF SendStart, NoJob
  <2>2. \A i \in SendIds : sent[i] \in Nat
    BY Zenon DEF TypeOK
  <2>3. /\ sent[j] = 0 /\ ~HeldBySender(j) /\ In(j, txQueue) = 0 /\ In(j, timedOut) = 0
    BY <2>1, <2>2 DEF TxInv, In
  <2>4. \/ /\ sent' = [sent EXCEPT ![j] = 1] /\ sender' = sender
        \/ /\ sent' = sent
           /\ \E job : job.id = j /\ sender' = [sender EXCEPT ![t] = job]
    <3>1. sent[j] + 1 = 1
      BY <2>3
    <3> QED  BY Zenon, <1>6, <3>1 DEF SendStart
  <2>5. ASSUME NEW i \in SendIds \ {j}
        PROVE  /\ sent'[i] = sent[i] /\ (HeldBySender(i)' <=> HeldBySender(i))
               /\ In(i, unsent') = In(i, unsent)
               /\ \A u \in Senders : sender'[u].id = i <=> sender[u].id = i
    BY ZenonT(30), <2>1, <2>4 DEF TypeOK, HeldBySender, In
  <2>6. /\ In(j, unsent') = 0
        /\ \/ sent'[j] = 1 /\ ~HeldBySender(j)'
           \/ sent'[j] = 0 /\ HeldBySender(j)'
        /\ \A u, v \in Senders : sender'[u].id = j /\ sender'[v].id = j => u = v
    BY ZenonT(30), <2>1, <2>3, <2>4 DEF TypeOK, HeldBySender, In
  <2> QED
    <3> SUFFICES ASSUME NEW i \in SendIds
                 PROVE  /\ \A u, v \in Senders : sender'[u].id = i /\ sender'[v].id = i => u = v
                        /\ In(i, unsent') + In(i, txQueue') + In(i, timedOut') + sent'[i]
                             + (IF HeldBySender(i)' THEN 1 ELSE 0) = 1
      BY Zenon DEF TxInv
    <3>1. In(i, txQueue') = In(i, txQueue) /\ In(i, timedOut') = In(i, timedOut)
      BY <2>1 DEF In
    <3>2. CASE i = j
      BY <2>3, <2>6, <3>1, <3>2
    <3>3. CASE i # j
      BY <2>5, <3>1, <3>3 DEF TxInv
    <3> QED  BY <3>2, <3>3
<1>7. CASE Tick
  <2>1. UNCHANGED <<unsent, sender, txQueue, sent, timedOut>>
    BY <1>7 DEF Tick
  <2> QED  BY <2>1 DEF TxInv, HeldBySender, In
<1> QED
  <2>1. \/ UNCHANGED txVars \/ SendWaiting \/ TimerTx \/ Tick
        \/ \E t \in Senders : SendWhois(t) \/ SendPush(t) \/ \E i \in SendIds : SendStart(t, i)
    <3>1. \A d \in net : Receive(d) => UNCHANGED txVars
      BY Zenon DEF Receive, RecvFragment, RecvHead, RecvWhole
    <3>2. /\ \A a : RecvHello(a) \/ RecvOkWhois(a) => UNCHANGED txVars
          /\ CancelWhois \/ DecodeWaiting \/ TimerStart \/ TimerWhois => UNCHANGED txVars
      BY Zenon DEF RecvHello, RecvOkWhois, CancelWhois, DecodeWaiting, TimerStart, TimerWhois
    <3> QED  BY Zenon, <3>1, <3>2 DEF Next, vars
  <2> QED  BY Zenon, <1>1, <1>2, <1>3, <1>4, <1>5, <1>6, <1>7, <2>1

(* A packet handed to send() is with its thread, queued, sent once or      *)
(* given up, and in one of these places only, whatever the threads do in   *)
(* between the lookup and the push.                                        *)
THEOREM TxAlwaysConserved == Spec => []TxConserved
<1>1. IInv => TypeOK
  BY DEF IInv
<1> QED
  BY <1>1, InitIInv, NextIInv, InitTxInv, NextTxInv, TxInvConserves, PTL DEF Spec
=============================================================================
