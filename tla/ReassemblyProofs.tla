-------------------------- MODULE ReassemblyProofs --------------------------
(***************************************************************************)
(* What Switch.tla does with the datagrams its slots hold, for any number  *)
(* of nodes, packets, fragments, slots and threads: it implements          *)
(* Reassembly.tla.                                                         *)
(***************************************************************************)
EXTENDS SwitchProofs

(* What becomes of the datagrams in the receive queue                      *)

(* No packet is put off for the sake of a credential's issuer once it has  *)
(* been decrypted in place.                                                *)
NeverDeferred == \A p \in PacketIds \ Trusted : Issuer[p] = "none"

(* A packet that waits is made of datagrams its entry holds, and can still *)
(* be authenticated unless it was deferred.                                *)
Kept(e) ==
    e.used /\ e.complete =>
        Pieces(e.frag0.segs) \subseteq Holds(e) /\ (NeverDeferred => ~e.frag0.plain)

(* No datagram is in two entries, or in an entry and still under way.      *)
HoldInv ==
    /\ \A s \in Slots : Kept(rxQueue[s])
    /\ \A s \in Slots : Holds(rxQueue[s]) \cap net = {}
    /\ \A s, t \in Slots : s # t => Holds(rxQueue[s]) \cap Holds(rxQueue[t]) = {}

(* A handler leaves a slot alone, or finds that it has expired; ...        *)
Untouched(s) ==
    rxQueue'[s] = rxQueue[s] \/ (rxQueue[s].age >= Expire /\ ~rxQueue'[s].used)

(* ... it uses the oldest slot for the datagram's packet, ...              *)
Started(d, s) ==
    /\ rxQueue'[s].used /\ rxQueue'[s].pid = d.pid /\ Holds(rxQueue'[s]) = {d}
    /\ rxQueue[s].used /\ rxQueue[s].age < Expire =>
         \A t \in Slots : rxQueue[t].used /\ rxQueue[t].age <= rxQueue[s].age
    /\ delivered' = delivered

(* ... adds the datagram to the entry of its packet, which it may          *)
(* complete, ...                                                           *)
Joined(d, s) ==
    /\ rxQueue[s].used /\ ~rxQueue[s].complete /\ rxQueue[s].pid = d.pid
    /\ rxQueue'[s].used => rxQueue'[s].pid = d.pid
    /\ Holds(rxQueue'[s]) \subseteq Holds(rxQueue[s]) \cup {d}
    /\ \/ delivered' = delivered
       \/ \E x : /\ delivered' = delivered \cup {x} /\ IsWhole(x)
                 /\ DOMAIN x = 1..Len(x)
                 /\ Pieces(x) \subseteq Holds(rxQueue[s]) \cup {d}
                 /\ ~rxQueue'[s].used

(* ... or drops the datagram or delivers it at once.                       *)
Passed(d, s) ==
    /\ Untouched(s)
    /\ \/ delivered' = delivered
       \/ Fragments[d.pid] = 1 /\ delivered' = delivered \cup {<<d>>}

Handled(d) ==
    \E s \in Slots :
        /\ \A t \in Slots \ {s} : Untouched(t)
        /\ Started(d, s) \/ Joined(d, s) \/ Passed(d, s)
        /\ Kept(rxQueue'[s])

(* The bytes tryDecode() leaves behind are as they were when no issuer is  *)
(* waited for.                                                             *)
LEMMA LeftPlain ==
    ASSUME NEW p \in Packets, p.segs # <<>>
    PROVE  /\ Left(p).segs = p.segs
           /\ NeverDeferred /\ ~p.plain => ~Left(p).plain
<1>1. Pid(p) \in PacketIds
  BY PidType
<1>2. NeverDeferred /\ Pid(p) \notin Trusted => Outcome(p) # "deferred"
  BY <1>1 DEF NeverDeferred, Outcome
<1> QED
  BY <1>2 DEF Left, Packets

(* A complete packet, after tryDecode(), still holds what it held or is    *)
(* gone, and is gone when it was delivered.                                *)
LEMMA TriedKept ==
    ASSUME NEW e \in Entries, e.used, e.frag0.segs # <<>>,
           Pieces(e.frag0.segs) \subseteq Holds(e), NeverDeferred => ~e.frag0.plain
    PROVE  /\ Kept(Tried(e))
           /\ Holds(Tried(e)) \subseteq Holds(e)
           /\ Tried(e).used => Tried(e).pid = e.pid
           /\ Tried(e).used <=> ~Finished(e.frag0)
<1>1. e.frag0 \in Packets
  BY DEF Entries
<1>2. CASE Finished(e.frag0)
  <2>1. ~Tried(e).used
    BY <1>2, FreedType DEF Tried
  <2> QED  BY Zenon, <1>2, <2>1 DEF Kept, Holds
<1>3. CASE ~Finished(e.frag0)
  <2> DEFINE n == Tried(e)
  <2>1. n = [e EXCEPT !.frag0 = Left(e.frag0), !.complete = TRUE]
    BY <1>3 DEF Tried
  <2>2. /\ n.used = e.used /\ n.have = e.have /\ n.frags = e.frags /\ n.pid = e.pid
        /\ n.frag0 = Left(e.frag0)
    <3> HIDE DEF n
    <3> QED  BY Zenon, <2>1 DEF Entries
  <2> HIDE DEF n
  <2>3. n.frag0.segs = e.frag0.segs /\ (NeverDeferred => ~n.frag0.plain)
    BY <1>1, <2>2, LeftPlain
  <2>4. Holds(n) = Holds(e)
    BY Zenon, <2>2, <2>3, SameHolds
  <2> QED  BY <1>3, <2>2, <2>3, <2>4 DEF n, Kept
<1> QED
  BY <1>2, <1>3

(* The scan changes a slot only when it has expired.                       *)
LEMMA SweepUntouched ==
    ASSUME NEW q \in [Slots -> Entries], NEW pid, NEW s \in Slots
    PROVE  Sweep(q, pid)[s] = q[s] \/ (q[s].age >= Expire /\ ~Sweep(q, pid)[s].used)
<1>1. ~[q[s] EXCEPT !.used = FALSE].used
  BY FreedType DEF Freed
<1> QED
  BY <1>1 DEF Sweep

(* The slot a new packet gets was the oldest, whatever the scan freed.     *)
LEMMA FoundOldest ==
    ASSUME NEW q \in [Slots -> Entries], NEW pid, NEW s \in Slots,
           Finds(Sweep(q, pid), pid, s), ~Matches(Sweep(q, pid)[s], pid),
           q[s].used, q[s].age < Expire
    PROVE  \A t \in Slots : q[t].used /\ q[t].age <= q[s].age
<1> DEFINE w == Sweep(q, pid)
<1>1. /\ \A t \in Slots : w[t] = q[t] \/ (q[t].age >= Expire /\ ~w[t].used)
      /\ \A t \in Slots : q[t].age \in Nat
  <2>1. \A t \in Slots : w[t] = q[t] \/ (q[t].age >= Expire /\ ~w[t].used)
    BY SweepUntouched
  <2>2. \A t \in Slots : q[t].age \in Nat
    BY RxAssumption DEF Entries
  <2> QED  BY <2>1, <2>2
<1>2. \A t \in Slots : NotNewer(w[s], w[t])
  BY DEF Finds, IsOldest
<1> HIDE DEF w
<1>3. w[s] = q[s]
  BY <1>1, RxAssumption
<1>4. \A t \in Slots : w[t].used /\ w[s].age >= w[t].age
  BY <1>2, <1>3 DEF NotNewer
<1> QED
  BY <1>1, <1>3, <1>4

(* A handler that stores e in slot s of the swept queue leaves the others  *)
(* alone.                                                                  *)
LEMMA OthersUntouched ==
    ASSUME rxQueue \in [Slots -> Entries], NEW pid, NEW s \in Slots, NEW e,
           rxQueue' = [Sweep(rxQueue, pid) EXCEPT ![s] = e]
    PROVE  rxQueue'[s] = e /\ \A t \in Slots \ {s} : Untouched(t)
<1>1. Sweep(rxQueue, pid) \in [Slots -> Entries]
  BY SweepFacts
<1>2. \A t \in Slots \ {s} : rxQueue'[t] = Sweep(rxQueue, pid)[t]
  BY <1>1
<1> QED
  BY <1>1, <1>2, SweepUntouched DEF Untouched

(* The packet a full entry is assembled into goes to its handler whole, or *)
(* waits.                                                                  *)
LEMMA CompletedKept ==
    ASSUME NEW e \in Entries, EntrySound(e), e.used, ~e.complete, HasAll(e),
           Decode({Assembled(e).frag0})
    PROVE  /\ Kept(Tried(Assembled(e)))
           /\ Holds(Tried(Assembled(e))) \subseteq Holds(e)
           /\ Tried(Assembled(e)).used => Tried(Assembled(e)).pid = e.pid
           /\ \/ delivered' = delivered
              \/ /\ delivered' = delivered \cup {Assembled(e).frag0.segs}
                 /\ IsWhole(Assembled(e).frag0.segs)
                 /\ DOMAIN Assembled(e).frag0.segs = 1..Len(Assembled(e).frag0.segs)
                 /\ Pieces(Assembled(e).frag0.segs) \subseteq Holds(e)
                 /\ ~Tried(Assembled(e)).used
<1> DEFINE n == Assembled(e)
<1>1. /\ n \in Entries /\ IsWhole(n.frag0.segs) /\ n.used = e.used /\ n.pid = e.pid
  BY Zenon, AssembledWhole
<1>2. /\ Pieces(n.frag0.segs) \subseteq Holds(e) /\ Holds(n) = Holds(e) /\ ~n.frag0.plain
  BY AssembledPieces
<1>3. Decode({n.frag0})
  OBVIOUS
<1> HIDE DEF n
<1>4. n.frag0.segs # <<>> /\ DOMAIN n.frag0.segs = 1..Len(n.frag0.segs)
  BY <1>1 DEF IsWhole, Entries, Packets
<1>5. /\ Kept(Tried(n)) /\ Holds(Tried(n)) \subseteq Holds(n)
      /\ (Tried(n).used => Tried(n).pid = n.pid) /\ (Tried(n).used <=> ~Finished(n.frag0))
  BY Zenon, <1>1, <1>2, <1>4, TriedKept
<1>6. CASE Outcome(n.frag0) = "done"
  <2>1. delivered' = delivered \cup {n.frag0.segs}
    BY Zenon, <1>3, <1>6 DEF Decode
  <2> QED  BY ZenonT(30), <1>1, <1>2, <1>4, <1>5, <1>6, <2>1 DEF n, Finished
<1>7. CASE Outcome(n.frag0) # "done"
  <2>1. delivered' = delivered
    BY <1>3, <1>7 DEF Decode
  <2> QED  BY ZenonT(30), <1>1, <1>2, <1>5, <2>1 DEF n
<1> QED
  BY Zenon, <1>6, <1>7

(* A packet that is complete has every fragment, so nothing joins it.      *)
LEMMA AddedNotComplete ==
    ASSUME NEW e \in Entries, EntrySound(e), NEW d \in Datagrams, e.pid = d.pid,
           d.fno \notin e.have
    PROVE  ~e.complete
BY DatagramFacts DEF EntrySound

(* A datagram that completes its packet joins the entry for it.            *)
LEMMA CompletedJoins ==
    ASSUME NEW d, NEW s \in Slots, NEW e \in Entries, EntrySound(e), e.used, ~e.complete,
           HasAll(e), e.pid = d.pid, Holds(e) = Holds(rxQueue[s]) \cup {d},
           rxQueue[s].used, ~rxQueue[s].complete, rxQueue[s].pid = d.pid,
           Decode({Assembled(e).frag0}), rxQueue'[s] = Tried(Assembled(e))
    PROVE  Joined(d, s) /\ Kept(rxQueue'[s])
<1> DEFINE x == Assembled(e).frag0.segs
           n == Tried(Assembled(e))
<1>1. /\ Kept(n) /\ Holds(n) \subseteq Holds(e) /\ (n.used => n.pid = e.pid)
      /\ \/ delivered' = delivered
         \/ /\ delivered' = delivered \cup {x} /\ IsWhole(x) /\ DOMAIN x = 1..Len(x)
            /\ Pieces(x) \subseteq Holds(e) /\ ~n.used
  BY Zenon, CompletedKept
<1> HIDE DEF x, n
<1>2. rxQueue'[s] = n
  BY DEF n
<1> QED
  BY Zenon, <1>1, <1>2 DEF Joined

(* A duplicate changes nothing but that the scan frees expired slots.      *)
LEMMA DroppedHandled ==
    ASSUME rxQueue \in [Slots -> Entries], \A s \in Slots : Kept(rxQueue[s]),
           NEW d, rxQueue' = Sweep(rxQueue, d.pid), delivered' = delivered
    PROVE  Handled(d)
<1>1. \A t \in Slots : Untouched(t)
  BY SweepUntouched DEF Untouched
<1>2. 1 \in Slots
  BY RxAssumption DEF Slots
<1>3. Kept(rxQueue'[1])
  BY <1>1, <1>2 DEF Untouched, Kept
<1> QED
  BY Zenon, <1>1, <1>2, <1>3 DEF Handled, Passed

(* A Packet::Fragment.                                                     *)
LEMMA RecvFragmentHandled ==
    ASSUME IInv, HoldInv, NEW d \in net, RecvFragment(d)
    PROVE  Handled(d)
<1>1. RxSound(rxQueue) /\ d \in Datagrams /\ 1 \in Slots
  <2>1. 1 \in Slots
    BY RxAssumption DEF Slots
  <2> QED  BY <2>1 DEF IInv, TypeOK, SlotsSound, OneEntryPerPacket, RxSound
<1>0. rxQueue \in [Slots -> Entries] /\ \A s \in Slots : Kept(rxQueue[s])
  BY <1>1 DEF RxSound, HoldInv
<1>2. CASE ~SaneFragment(d)
  <2>1. rxQueue' = rxQueue /\ delivered' = delivered
    BY Zenon, <1>2 DEF RecvFragment, NoDecode
  <2> QED  BY <1>0, <1>1, <2>1 DEF Handled, Passed, Untouched
<1>3. CASE SaneFragment(d)
  <2> DEFINE q == Sweep(rxQueue, d.pid)
  <2>1. RxSound(q) /\ \A t \in Slots : q[t].used => q[t] = rxQueue[t]
    BY <1>0, <1>1, SweepSound, SweepFacts
  <2> HIDE DEF q
  <2>2. PICK s \in Slots :
           /\ Finds(q, d.pid, s)
           /\ \/ /\ ~Matches(q[s], d.pid)
                 /\ rxQueue' = [q EXCEPT ![s] = StartWithFragment(q[s], d)]
                 /\ NoDecode
              \/ /\ Matches(q[s], d.pid) /\ d.fno \notin q[s].have
                 /\ LET e == AddFragment(q[s], d) IN
                    IF HasAll(e)
                    THEN /\ rxQueue' = [q EXCEPT ![s] = Tried(Assembled(e))]
                         /\ Decode({Assembled(e).frag0})
                    ELSE rxQueue' = [q EXCEPT ![s] = e] /\ NoDecode
              \/ /\ rxQueue' = q
                 /\ NoDecode
    BY Zenon, <1>3 DEF RecvFragment, q
  <2>3. q[s] \in Entries /\ (q[s].used => EntrySound(q[s]))
    BY <2>1 DEF RxSound
  <2>4. CASE /\ ~Matches(q[s], d.pid)
             /\ rxQueue' = [q EXCEPT ![s] = StartWithFragment(q[s], d)]
             /\ NoDecode
    <3> DEFINE e == StartWithFragment(q[s], d)
    <3>1. e.used /\ e.pid = d.pid /\ Holds(e) = {d} /\ ~e.complete
      BY Zenon, <1>1, <1>3, <2>3, StartWithFragmentSound, StartWithFragmentHolds
    <3>2. rxQueue'[s] = e /\ \A t \in Slots \ {s} : Untouched(t)
      BY <1>0, <2>4, OthersUntouched DEF q
    <3>3. rxQueue[s].used /\ rxQueue[s].age < Expire =>
            \A t \in Slots : rxQueue[t].used /\ rxQueue[t].age <= rxQueue[s].age
      BY Zenon, <1>0, <2>2, <2>4, FoundOldest DEF q
    <3> HIDE DEF e
    <3>4. Started(d, s) /\ Kept(rxQueue'[s])
      BY Zenon, <2>4, <3>1, <3>2, <3>3 DEF Started, Kept, NoDecode
    <3> QED  BY ZenonT(30), <3>2, <3>4 DEF Handled
  <2>5. CASE /\ Matches(q[s], d.pid) /\ d.fno \notin q[s].have
             /\ LET e == AddFragment(q[s], d) IN
                IF HasAll(e)
                THEN /\ rxQueue' = [q EXCEPT ![s] = Tried(Assembled(e))]
                     /\ Decode({Assembled(e).frag0})
                ELSE rxQueue' = [q EXCEPT ![s] = e] /\ NoDecode
    <3> DEFINE e == AddFragment(q[s], d)
    <3>1. e \in Entries /\ e.used /\ e.pid = d.pid /\ ~e.complete /\ EntrySound(e)
      BY Zenon, <1>1, <1>3, <2>3, <2>5, AddFragmentSound DEF Matches
    <3>2. /\ q[s] = rxQueue[s] /\ q[s].used /\ q[s].pid = d.pid
          /\ Holds(e) = Holds(rxQueue[s]) \cup {d}
      BY Zenon, <1>1, <1>3, <2>1, <2>3, <2>5, AddFragmentHolds DEF Matches
    <3>3. ~rxQueue[s].complete
      BY <1>1, <1>3, <2>3, <2>5, <3>2, AddedNotComplete DEF Matches
    <3> HIDE DEF e
    <3>4. CASE HasAll(e)
      <4>1. rxQueue' = [q EXCEPT ![s] = Tried(Assembled(e))] /\ Decode({Assembled(e).frag0})
        BY Zenon, <2>5, <3>4 DEF e
      <4>2. rxQueue'[s] = Tried(Assembled(e)) /\ \A t \in Slots \ {s} : Untouched(t)
        BY Zenon, <1>0, <4>1, OthersUntouched DEF q
      <4>3. Joined(d, s) /\ Kept(rxQueue'[s])
        BY Zenon, <3>1, <3>2, <3>3, <3>4, <4>1, <4>2, CompletedJoins
      <4> QED  BY ZenonT(30), <4>2, <4>3 DEF Handled
    <3>5. CASE ~HasAll(e)
      <4>1. rxQueue' = [q EXCEPT ![s] = e] /\ NoDecode
        BY <2>5, <3>5 DEF e
      <4>2. rxQueue'[s] = e /\ \A t \in Slots \ {s} : Untouched(t)
        BY Zenon, <1>0, <4>1, OthersUntouched DEF q
      <4>3. Joined(d, s) /\ Kept(rxQueue'[s])
        BY Zenon, <3>1, <3>2, <3>3, <4>1, <4>2 DEF Joined, Kept, NoDecode
      <4> QED  BY ZenonT(30), <4>2, <4>3 DEF Handled
    <3> QED  BY ZenonT(30), <3>4, <3>5
  <2>6. CASE rxQueue' = q /\ NoDecode
    BY <1>0, <2>6, DroppedHandled DEF q, NoDecode
  <2> QED  BY Zenon, <2>2, <2>4, <2>5, <2>6
<1> QED
  BY Zenon, <1>2, <1>3

(* The head of a fragmented packet.                                        *)
LEMMA RecvHeadHandled ==
    ASSUME IInv, HoldInv, NEW d \in net, RecvHead(d)
    PROVE  Handled(d)
<1>1. RxSound(rxQueue) /\ d \in Datagrams /\ d.fno = 0
  BY Zenon DEF IInv, TypeOK, SlotsSound, OneEntryPerPacket, RxSound, RecvHead
<1>0. rxQueue \in [Slots -> Entries] /\ \A s \in Slots : Kept(rxQueue[s])
  BY Zenon, <1>1 DEF RxSound, HoldInv
<1> DEFINE q == Sweep(rxQueue, d.pid)
<1>2. RxSound(q) /\ \A t \in Slots : q[t].used => q[t] = rxQueue[t]
  BY <1>0, <1>1, SweepSound, SweepFacts
<1> HIDE DEF q
<1>3. PICK s \in Slots :
         /\ Finds(q, d.pid, s)
         /\ \/ /\ ~Matches(q[s], d.pid)
               /\ rxQueue' = [q EXCEPT ![s] = StartWithHead(q[s], d)]
               /\ NoDecode
            \/ /\ Matches(q[s], d.pid) /\ 0 \notin q[s].have
               /\ LET e == AddHead(q[s], d) IN
                  IF HasAll(e)
                  THEN /\ rxQueue' = [q EXCEPT ![s] = Tried(Assembled(e))]
                       /\ Decode({Assembled(e).frag0})
                  ELSE rxQueue' = [q EXCEPT ![s] = e] /\ NoDecode
            \/ /\ rxQueue' = q
               /\ NoDecode
  BY ZenonT(30) DEF RecvHead, q
<1>4. q[s] \in Entries /\ (q[s].used => EntrySound(q[s]))
  BY <1>2 DEF RxSound
<1>5. CASE /\ ~Matches(q[s], d.pid)
           /\ rxQueue' = [q EXCEPT ![s] = StartWithHead(q[s], d)]
           /\ NoDecode
  <2> DEFINE e == StartWithHead(q[s], d)
  <2>1. e.used /\ e.pid = d.pid /\ Holds(e) = {d} /\ ~e.complete
    BY Zenon, <1>1, <1>4, StartWithHeadSound, StartWithHeadHolds
  <2>2. rxQueue'[s] = e /\ \A t \in Slots \ {s} : Untouched(t)
    BY <1>0, <1>5, OthersUntouched DEF q
  <2>3. rxQueue[s].used /\ rxQueue[s].age < Expire =>
          \A t \in Slots : rxQueue[t].used /\ rxQueue[t].age <= rxQueue[s].age
    BY Zenon, <1>0, <1>3, <1>5, FoundOldest DEF q
  <2> HIDE DEF e
  <2>4. Started(d, s) /\ Kept(rxQueue'[s])
    BY Zenon, <1>5, <2>1, <2>2, <2>3 DEF Started, Kept, NoDecode
  <2> QED  BY Zenon, <2>2, <2>4 DEF Handled
<1>6. CASE /\ Matches(q[s], d.pid) /\ 0 \notin q[s].have
           /\ LET e == AddHead(q[s], d) IN
              IF HasAll(e)
              THEN /\ rxQueue' = [q EXCEPT ![s] = Tried(Assembled(e))]
                   /\ Decode({Assembled(e).frag0})
              ELSE rxQueue' = [q EXCEPT ![s] = e] /\ NoDecode
  <2> DEFINE e == AddHead(q[s], d)
  <2>1. e \in Entries /\ e.used /\ e.pid = d.pid /\ ~e.complete /\ EntrySound(e)
    BY Zenon, <1>1, <1>4, <1>6, AddHeadSound DEF Matches
  <2>2. /\ q[s] = rxQueue[s] /\ q[s].used /\ q[s].pid = d.pid
        /\ Holds(e) = Holds(rxQueue[s]) \cup {d}
    BY <1>1, <1>2, <1>4, <1>6, AddHeadHolds DEF Matches
  <2>3. ~rxQueue[s].complete
    BY Zenon, <1>1, <1>4, <1>6, <2>2, AddedNotComplete DEF Matches
  <2> HIDE DEF e
  <2>4. CASE HasAll(e)
    <3>1. rxQueue' = [q EXCEPT ![s] = Tried(Assembled(e))] /\ Decode({Assembled(e).frag0})
      BY <1>6, <2>4 DEF e
    <3>2. rxQueue'[s] = Tried(Assembled(e)) /\ \A t \in Slots \ {s} : Untouched(t)
      BY Zenon, <1>0, <3>1, OthersUntouched DEF q
    <3>3. Joined(d, s) /\ Kept(rxQueue'[s])
      BY Zenon, <2>1, <2>2, <2>3, <2>4, <3>1, <3>2, CompletedJoins
    <3> QED  BY Zenon, <3>2, <3>3 DEF Handled
  <2>5. CASE ~HasAll(e)
    <3>1. rxQueue' = [q EXCEPT ![s] = e] /\ NoDecode
      BY <1>6, <2>5 DEF e
    <3>2. rxQueue'[s] = e /\ \A t \in Slots \ {s} : Untouched(t)
      BY Zenon, <1>0, <3>1, OthersUntouched DEF q
    <3>3. Joined(d, s) /\ Kept(rxQueue'[s])
      BY Zenon, <2>1, <2>2, <2>3, <3>1, <3>2 DEF Joined, Kept, NoDecode
    <3> QED  BY Zenon, <3>2, <3>3 DEF Handled
  <2> QED  BY Zenon, <2>4, <2>5
<1>7. CASE rxQueue' = q /\ NoDecode
  BY <1>0, <1>7, DroppedHandled DEF q, NoDecode
<1> QED
  BY Zenon, <1>3, <1>5, <1>6, <1>7

(* An unfragmented packet.                                                 *)
LEMMA RecvWholeHandled ==
    ASSUME IInv, HoldInv, NEW d \in net, RecvWhole(d)
    PROVE  Handled(d)
<1> DEFINE p == HeadOnly(d)
<1>1. /\ d \in Datagrams /\ Fragments[d.pid] = 1 /\ d.fno = 0
      /\ rxQueue \in [Slots -> Entries] /\ \A s \in Slots : Kept(rxQueue[s])
  <2>1. d \in Datagrams /\ rxQueue \in [Slots -> Entries] /\ \A s \in Slots : Kept(rxQueue[s])
    BY Zenon DEF IInv, TypeOK, HoldInv
  <2>2. Fragments[d.pid] = 1
    BY Zenon DEF RecvWhole
  <2> QED
    BY <2>1, <2>2, DatagramFacts
<1>2. p \in Packets /\ p.segs = <<d>> /\ p.segs # <<>> /\ p.plain = FALSE
  BY Zenon, <1>1, HeadOnlyType DEF HeadOnly
<1>3. /\ delivered' = delivered \cup {p.segs} \/ delivered' = delivered
      /\ ~Finished(p) => delivered' = delivered
  <2>1. Decode({p})
    BY Zenon DEF RecvWhole
  <2> HIDE DEF p
  <2> QED  BY Zenon, <2>1 DEF Decode, Finished
<1>4. CASE rxQueue' = rxQueue
  <2>1. 1 \in Slots
    BY RxAssumption DEF Slots
  <2>2. Passed(d, 1) /\ Kept(rxQueue'[1]) /\ \A t \in Slots : Untouched(t)
    BY <1>1, <1>2, <1>3, <1>4, <2>1 DEF Passed, Untouched
  <2> QED  BY Zenon, <2>1, <2>2 DEF Handled
<1>5. ASSUME NEW s \in Slots, ~Finished(p), IsOldest(rxQueue, s),
             rxQueue' = [rxQueue EXCEPT ![s] = StoreWhole(rxQueue[s], d, Left(p).plain)]
      PROVE  Handled(d)
  <2> DEFINE b == Left(p).plain
             n == StoreWhole(rxQueue[s], d, b)
  <2>1. b \in BOOLEAN /\ (NeverDeferred => ~b)
    <3> HIDE DEF p
    <3>1. b \in BOOLEAN
      BY <1>2 DEF Left, Packets
    <3> QED  BY Zenon, <1>2, <3>1, LeftPlain DEF b
  <2> HIDE DEF b
  <2>2. /\ n.used /\ n.pid = d.pid /\ Holds(n) = {d}
        /\ Pieces(n.frag0.segs) = {d} /\ n.frag0.plain = b
    <3>1. rxQueue[s] \in Entries
      BY <1>1
    <3>2. n.used /\ n.pid = d.pid
      BY ZenonT(30), <1>1, <2>1, <3>1, StoreWholeSound
    <3>3. Holds(n) = {d} /\ Pieces(n.frag0.segs) = {d} /\ n.frag0.plain = b
      BY <1>1, <3>1, StoreWholeHolds
    <3> QED  BY <3>2, <3>3
  <2>3. rxQueue'[s] = n /\ \A t \in Slots \ {s} : rxQueue'[t] = rxQueue[t]
    BY <1>1, <1>5 DEF b
  <2>4. rxQueue[s].used => \A t \in Slots : rxQueue[t].used /\ rxQueue[t].age <= rxQueue[s].age
    <3>1. \A t \in Slots : rxQueue[t].age \in Nat
      BY <1>1, RxAssumption DEF Entries
    <3> QED  BY <1>5, <3>1 DEF IsOldest, NotNewer
  <2> HIDE DEF n, p
  <2>5. Started(d, s)
    BY Zenon, <1>3, <1>5, <2>2, <2>3, <2>4 DEF Started
  <2>6. Kept(rxQueue'[s]) /\ \A t \in Slots \ {s} : Untouched(t)
    BY <2>1, <2>2, <2>3 DEF Kept, Untouched
  <2> QED  BY Zenon, <2>5, <2>6 DEF Handled
<1> QED
  BY Zenon, <1>4, <1>5 DEF RecvWhole

(* Whatever arrives is handled.                                            *)
LEMMA ReceiveHandled ==
    ASSUME IInv, HoldInv, NEW d \in net, Receive(d)
    PROVE  Handled(d)
BY Zenon, RecvFragmentHandled, RecvHeadHandled, RecvWholeHandled DEF Receive

(* The packets doAnythingWaitingForPeer() delivers leave their slots; the  *)
(* others stay as they are.                                                *)
Done == {s \in Slots : /\ rxQueue[s].used /\ rxQueue[s].complete
                       /\ Outcome(rxQueue[s].frag0) = "done"}

(* What the retries of doAnythingWaitingForPeer() do to a slot and to what *)
(* was delivered.                                                          *)
LEMMA DecodeWaitingKept ==
    ASSUME IInv, HoldInv, DecodeWaiting
    PROVE  /\ \A s \in Slots :
                /\ Kept(rxQueue'[s])
                /\ Holds(rxQueue'[s]) \subseteq Holds(rxQueue[s])
                /\ rxQueue'[s].used => rxQueue'[s].pid = rxQueue[s].pid
                /\ s \in Done => ~rxQueue'[s].used
                /\ rxQueue[s].used /\ ~rxQueue'[s].used => Finished(rxQueue[s].frag0)
           /\ delivered' = delivered \cup {rxQueue[s].frag0.segs : s \in Done}
<1> DEFINE waiting == {s \in Slots : rxQueue[s].used /\ rxQueue[s].complete}
           P == {rxQueue[s].frag0 : s \in waiting}
<1>1. /\ Decode(P)
      /\ rxQueue' = [s \in Slots |-> IF s \in waiting THEN Tried(rxQueue[s]) ELSE rxQueue[s]]
  BY DEF DecodeWaiting
<1>2. ASSUME NEW s \in waiting
      PROVE  /\ Kept(Tried(rxQueue[s])) /\ Holds(Tried(rxQueue[s])) \subseteq Holds(rxQueue[s])
             /\ Tried(rxQueue[s]).used => Tried(rxQueue[s]).pid = rxQueue[s].pid
             /\ Tried(rxQueue[s]).used <=> ~Finished(rxQueue[s].frag0)
  <2>1. /\ rxQueue[s] \in Entries /\ rxQueue[s].used /\ rxQueue[s].complete
        /\ EntrySound(rxQueue[s]) /\ Kept(rxQueue[s])
    BY DEF IInv, TypeOK, SlotsSound, HoldInv
  <2>2. rxQueue[s].frag0.segs # <<>>
    BY ZenonT(30), <2>1 DEF EntrySound, IsWhole
  <2> QED  BY Zenon, <2>1, <2>2, TriedKept DEF Kept
<1>3. ASSUME NEW s \in Slots
      PROVE  /\ Kept(rxQueue'[s])
             /\ Holds(rxQueue'[s]) \subseteq Holds(rxQueue[s])
             /\ rxQueue'[s].used => rxQueue'[s].pid = rxQueue[s].pid
             /\ s \in Done => ~rxQueue'[s].used
             /\ rxQueue[s].used /\ ~rxQueue'[s].used => Finished(rxQueue[s].frag0)
  <2>1. CASE s \in waiting
    <3>1. rxQueue'[s] = Tried(rxQueue[s])
      BY <1>1, <2>1
    <3>2. s \in Done => Finished(rxQueue[s].frag0)
      BY DEF Done, Finished
    <3> HIDE DEF waiting
    <3> QED  BY Zenon, <1>2, <2>1, <3>1, <3>2
  <2>2. CASE s \notin waiting
    <3>1. rxQueue'[s] = rxQueue[s] /\ s \notin Done
      BY <1>1, <2>2 DEF Done
    <3> QED  BY Zenon, <3>1 DEF HoldInv
  <2> QED  BY Zenon, <2>1, <2>2
<1>4. delivered' = delivered \cup {rxQueue[s].frag0.segs : s \in Done}
  <2>1. {p.segs : p \in {r \in P : Outcome(r) = "done"}} = {rxQueue[s].frag0.segs : s \in Done}
    BY DEF Done
  <2> HIDE DEF P
  <2> QED  BY <1>1, <2>1 DEF Decode
<1> QED
  <2> HIDE DEF waiting, P
  <2> QED  BY <1>3, <1>4

(* The passing of time changes the age of entries only.                    *)
LEMMA TickKept ==
    ASSUME IInv, HoldInv, Tick
    PROVE  /\ net' = net /\ delivered' = delivered
           /\ \A s \in Slots : /\ Kept(rxQueue'[s])
                               /\ Holds(rxQueue'[s]) = Holds(rxQueue[s])
                               /\ rxQueue'[s].pid = rxQueue[s].pid
                               /\ rxQueue'[s].used = rxQueue[s].used
<1>1. ASSUME NEW e \in Entries, Kept(e)
      PROVE  /\ Kept(Older(e)) /\ Holds(Older(e)) = Holds(e)
             /\ Older(e).pid = e.pid /\ Older(e).used = e.used
  <2> DEFINE n == Older(e)
             a == IF e.age < MaxAge THEN e.age + 1 ELSE e.age
  <2>1. n = [e EXCEPT !.age = a]
    BY DEF Older
  <2>2. /\ n.used = e.used /\ n.pid = e.pid /\ n.have = e.have
        /\ n.frags = e.frags /\ n.frag0 = e.frag0 /\ n.complete = e.complete
    <3> HIDE DEF n, a
    <3> QED  BY <2>1 DEF Entries
  <2>3. Holds(n) = Holds(e)
    <3> HIDE DEF n
    <3> QED  BY Zenon, <2>2 DEF Holds
  <2> HIDE DEF n
  <2> QED  BY Zenon, <1>1, <2>2, <2>3 DEF n, Kept
<1>2. /\ net' = net /\ delivered' = delivered
      /\ \A s \in Slots : rxQueue'[s] = IF rxQueue[s].used THEN Older(rxQueue[s]) ELSE rxQueue[s]
  BY DEF Tick
<1>3. \A s \in Slots : rxQueue[s] \in Entries /\ Kept(rxQueue[s])
  BY DEF IInv, TypeOK, HoldInv
<1> QED
  <2> SUFFICES ASSUME NEW s \in Slots
               PROVE  /\ Kept(rxQueue'[s])
                      /\ Holds(rxQueue'[s]) = Holds(rxQueue[s])
                      /\ rxQueue'[s].pid = rxQueue[s].pid
                      /\ rxQueue'[s].used = rxQueue[s].used
    BY <1>2
  <2> QED  BY Zenon, <1>1, <1>2, <1>3

(* Every step but these leaves the receive queue alone.                    *)
LEMMA RxSteps ==
    ASSUME [Next]_vars
    PROVE  \/ \E d \in net : Receive(d)
           \/ DecodeWaiting
           \/ Tick
           \/ UNCHANGED rxVars
<1>1. /\ \A a : RecvHello(a) \/ RecvOkWhois(a) => UNCHANGED rxVars
      /\ CancelWhois \/ SendWaiting \/ TimerStart \/ TimerWhois \/ TimerTx => UNCHANGED rxVars
      /\ \A t : SendWhois(t) \/ SendPush(t) => UNCHANGED rxVars
      /\ \A t, i : SendStart(t, i) => UNCHANGED rxVars
  BY Zenon DEF RecvHello, RecvOkWhois, CancelWhois, SendWaiting, TimerStart, TimerWhois,
               TimerTx, SendWhois, SendPush, SendStart
<1> QED
  BY Zenon, <1>1 DEF Next, vars

(* At first the queue holds nothing.                                       *)
LEMMA InitHoldInv == Init => HoldInv
<1> SUFFICES ASSUME Init PROVE HoldInv
  OBVIOUS
<1>1. \A s \in Slots : ~rxQueue[s].used
  BY DEF Init, Unused
<1>2. \A s \in Slots : Holds(rxQueue[s]) = {} /\ Kept(rxQueue[s])
  BY Zenon, <1>1 DEF Holds, Kept
<1> QED
  BY <1>2 DEF HoldInv

(* A datagram is in one place whatever arrives, expires or is delivered.   *)
LEMMA NextHoldInv == IInv /\ HoldInv /\ [Next]_vars => HoldInv'
<1> SUFFICES ASSUME IInv, HoldInv, [Next]_vars PROVE HoldInv'
  OBVIOUS
<1>1. ASSUME NEW d \in net, Receive(d) PROVE HoldInv'
  <2>1. net' = net \ {d}
    BY <1>1, Zenon DEF Receive, RecvFragment, RecvHead, RecvWhole, Receives
  <2>2. PICK s \in Slots :
          /\ \A t \in Slots \ {s} : Untouched(t)
          /\ Started(d, s) \/ Joined(d, s) \/ Passed(d, s)
          /\ Kept(rxQueue'[s])
    BY <1>1, ReceiveHandled DEF Handled
  <2>3. \A t \in Slots : Untouched(t) =>
           Kept(rxQueue'[t]) /\ Holds(rxQueue'[t]) \subseteq Holds(rxQueue[t])
    <3> SUFFICES ASSUME NEW t \in Slots, Untouched(t)
                 PROVE  Kept(rxQueue'[t]) /\ Holds(rxQueue'[t]) \subseteq Holds(rxQueue[t])
      BY Zenon
    <3>1. Kept(rxQueue[t])
      BY Zenon DEF HoldInv
    <3>2. CASE rxQueue'[t] = rxQueue[t]
      BY Zenon, <3>1, <3>2
    <3>3. CASE ~rxQueue'[t].used
      <4>1. Holds(rxQueue'[t]) = {}
        BY Zenon, <3>3 DEF Holds
      <4> QED
        BY Zenon, <3>3, <4>1 DEF Kept
    <3> QED
      BY Zenon, <3>2, <3>3 DEF Untouched
  <2>4. Holds(rxQueue'[s]) \subseteq Holds(rxQueue[s]) \cup {d}
    BY Zenon, <2>2, <2>3 DEF Started, Joined, Passed
  <2>5. \A t \in Slots : Kept(rxQueue'[t])
    BY Zenon, <2>2, <2>3
  <2>6. \A t \in Slots \ {s} : Holds(rxQueue'[t]) \subseteq Holds(rxQueue[t])
    BY Zenon, <2>2, <2>3
  <2>7. \A t \in Slots : d \notin Holds(rxQueue[t])
    BY <1>1 DEF HoldInv
  <2> QED  BY <2>1, <2>4, <2>5, <2>6, <2>7 DEF HoldInv
<1>2. CASE DecodeWaiting
  BY Zenon, <1>2, DecodeWaitingKept DEF HoldInv, DecodeWaiting
<1>3. CASE Tick
  BY <1>3, TickKept DEF HoldInv
<1>4. CASE UNCHANGED rxVars
  BY <1>4 DEF HoldInv, rxVars
<1> QED
  BY <1>1, <1>2, <1>3, <1>4, RxSteps

---------------------------------------------------------------------------
(* Reassembly as its users know it                                         *)

Held == UNION {Holds(rxQueue[s]) : s \in Slots}

(* The two modules say alike what a whole packet is made of.               *)
LEMMA WholeAgrees ==
    ASSUME NEW x, IsWhole(x), DOMAIN x = 1..Len(x)
    PROVE  Reassembles!Whole(x) /\ Reassembles!Used(x) = Pieces(x)
BY DEF IsWhole, Reassembles!Whole, Reassembles!Used, Pieces

(* A step that takes datagrams off the net, delivers at most one packet    *)
(* and holds nothing of it any more is a step of Reassembly.               *)
LEMMA DeliverOne ==
    ASSUME NEW d \in net, net' = net \ {d},
           Held' \subseteq Held \cup {d},
           \/ delivered' = delivered
           \/ \E x : /\ delivered' = delivered \cup {x} /\ IsWhole(x) /\ DOMAIN x = 1..Len(x)
                     /\ Pieces(x) \subseteq Held \cup {d} /\ Pieces(x) \cap Held' = {}
    PROVE  Reassembles!Next
<1>1. CASE delivered' = delivered
  BY <1>1 DEF Reassembles!Next, Held
<1>2. ASSUME NEW x, delivered' = delivered \cup {x}, IsWhole(x), DOMAIN x = 1..Len(x),
             Pieces(x) \subseteq Held \cup {d}, Pieces(x) \cap Held' = {}
      PROVE  Reassembles!Next
  <2>1. Reassembles!Whole(x) /\ Reassembles!Used(x) = Pieces(x)
    BY <1>2, WholeAgrees
  <2>2. delivered' \ delivered \subseteq {x} /\ delivered \subseteq delivered'
    BY <1>2
  <2>3. net' \subseteq net /\ net \ net' = {d}
    OBVIOUS
  <2>4. Held' \subseteq {c \in Held \cup {d} : c \notin Pieces(x)}
    BY <1>2
  <2> HIDE DEF Held
  <2>5. PICK h, k : h = Held /\ k = Held'
    BY Zenon
  <2>6. /\ \A y \in delivered' \ delivered : Reassembles!Whole(y) /\ Reassembles!Used(y) \subseteq h \cup {d}
        /\ \A y, z \in delivered' \ delivered : y # z => Reassembles!Used(y) \cap Reassembles!Used(z) = {}
    BY Zenon, <1>2, <2>1, <2>2, <2>5
  <2>7. k \subseteq {c \in h \cup {d} : \A y \in delivered' \ delivered : c \notin Reassembles!Used(y)}
    BY Zenon, <2>1, <2>2, <2>4, <2>5
  <2> QED  BY Zenon, <2>2, <2>3, <2>5, <2>6, <2>7 DEF Reassembles!Next, Held
<1> QED
  BY <1>1, <1>2

(* Every step of the switch is a step of Reassembly or none.               *)
LEMMA NextReassembles ==
    IInv /\ HoldInv /\ [Next]_vars => [Reassembles!Next]_(Reassembles!vars)
<1> SUFFICES ASSUME IInv, HoldInv, [Next]_vars
             PROVE  [Reassembles!Next]_(Reassembles!vars)
  OBVIOUS
<1>1. ASSUME NEW d \in net, Receive(d) PROVE Reassembles!Next
  <2>1. net' = net \ {d}
    BY <1>1, Zenon DEF Receive, RecvFragment, RecvHead, RecvWhole, Receives
  <2>2. PICK s \in Slots :
          /\ \A t \in Slots \ {s} : Untouched(t)
          /\ Started(d, s) \/ Joined(d, s) \/ Passed(d, s)
          /\ Kept(rxQueue'[s])
    BY <1>1, ReceiveHandled DEF Handled
  <2>3. \A t \in Slots : Untouched(t) => Holds(rxQueue'[t]) \subseteq Holds(rxQueue[t])
    BY DEF Untouched, Holds
  <2>4. Holds(rxQueue'[s]) \subseteq Holds(rxQueue[s]) \cup {d}
    BY Zenon, <2>2, <2>3 DEF Started, Joined, Passed
  <2>5. \A t \in Slots \ {s} : Holds(rxQueue'[t]) \subseteq Holds(rxQueue[t])
    BY Zenon, <2>2, <2>3
  <2>6. \A t \in Slots : d \notin Holds(rxQueue[t])
    BY <1>1 DEF HoldInv
  <2>7. Held' \subseteq Held \cup {d}
    BY <2>4, <2>5 DEF Held
  <2>8. CASE delivered' = delivered
    BY <2>1, <2>7, <2>8, DeliverOne
  <2>9. ASSUME NEW x, delivered' = delivered \cup {x}, IsWhole(x), DOMAIN x = 1..Len(x),
               Pieces(x) \subseteq Holds(rxQueue[s]) \cup {d}, ~rxQueue'[s].used
        PROVE  Reassembles!Next
    <3>1. Holds(rxQueue'[s]) = {}
      BY <2>9 DEF Holds
    <3>2. Pieces(x) \subseteq Held \cup {d} /\ Pieces(x) \cap Held' = {}
      <4>1. Pieces(x) \subseteq Held \cup {d}
        BY <2>9 DEF Held
      <4>2. ASSUME NEW y \in Pieces(x), y \in Held' PROVE FALSE
        <5>1. PICK t \in Slots : y \in Holds(rxQueue'[t])
          BY <4>2 DEF Held
        <5>2. t # s /\ y \in Holds(rxQueue[t])
          BY <2>5, <3>1, <5>1
        <5> QED  BY <2>6, <2>9, <5>2 DEF HoldInv
      <4> QED  BY <4>1, <4>2
    <3> QED  BY <2>1, <2>7, <2>9, <3>2, DeliverOne
  <2>10. CASE Untouched(s) /\ Fragments[d.pid] = 1 /\ delivered' = delivered \cup {<<d>>}
    <3>1. d \notin Held'
      BY <2>3, <2>5, <2>6, <2>10 DEF Held
    <3>2. d \in Datagrams
      BY DEF IInv, TypeOK
    <3>3. IsWhole(<<d>>) /\ DOMAIN <<d>> = 1..Len(<<d>>) /\ Pieces(<<d>>) = {d}
      BY <2>10, <3>2, DatagramFacts DEF IsWhole, Pieces
    <3> QED  BY <2>1, <2>7, <2>10, <3>1, <3>3, DeliverOne
  <2> QED  BY Zenon, <2>2, <2>8, <2>9, <2>10 DEF Started, Joined, Passed
<1>2. CASE DecodeWaiting
  <2>1. /\ \A s \in Slots : Holds(rxQueue'[s]) \subseteq Holds(rxQueue[s])
        /\ \A s \in Done : Holds(rxQueue'[s]) = {}
        /\ delivered' = delivered \cup {rxQueue[s].frag0.segs : s \in Done}
        /\ net' = net /\ Done \subseteq Slots
    BY <1>2, DecodeWaitingKept DEF Holds, DecodeWaiting, Done
  <2> DEFINE x(s) == rxQueue[s].frag0.segs
  <2>2. ASSUME NEW s \in Done
        PROVE  /\ Reassembles!Whole(x(s)) /\ Reassembles!Used(x(s)) = Pieces(x(s))
               /\ Pieces(x(s)) \subseteq Holds(rxQueue[s])
    <3>1. /\ IsWhole(x(s)) /\ rxQueue[s] \in Entries
          /\ Pieces(x(s)) \subseteq Holds(rxQueue[s])
      BY Zenon DEF IInv, TypeOK, SlotsSound, EntrySound, HoldInv, Kept, Done
    <3>2. DOMAIN x(s) = 1..Len(x(s))
      BY <3>1 DEF Entries, Packets
    <3> HIDE DEF x
    <3> QED  BY <3>1, <3>2, WholeAgrees
  <2> HIDE DEF x
  <2>3. \A y \in delivered' \ delivered : \E s \in Done : y = x(s)
    BY <2>1 DEF x
  <2>4. \A y \in delivered' \ delivered :
           Reassembles!Whole(y) /\ Reassembles!Used(y) \subseteq Held
    BY <2>1, <2>2, <2>3 DEF Held
  <2>5. ASSUME NEW y \in delivered' \ delivered, NEW z \in delivered' \ delivered, y # z
        PROVE  Reassembles!Used(y) \cap Reassembles!Used(z) = {}
    <3>1. PICK s \in Done : y = x(s)
      BY <2>3
    <3>2. PICK t \in Done : z = x(t)
      BY <2>3
    <3>3. s # t /\ s \in Slots /\ t \in Slots
      BY Zenon, <2>1, <2>5, <3>1, <3>2
    <3>4. Holds(rxQueue[s]) \cap Holds(rxQueue[t]) = {}
      BY Zenon, <3>3 DEF HoldInv
    <3>5. Reassembles!Used(y) \subseteq Holds(rxQueue[s]) /\ Reassembles!Used(z) \subseteq Holds(rxQueue[t])
      BY Zenon, <2>2, <3>1, <3>2
    <3> QED  BY ZenonT(30), <3>4, <3>5
  <2>6. Held' \subseteq Held
    BY <2>1 DEF Held
  <2>7. ASSUME NEW y \in delivered' \ delivered, NEW d \in Held'
        PROVE  d \notin Reassembles!Used(y)
    <3>1. PICK s \in Done : y = x(s)
      BY <2>3
    <3>2. PICK t \in Slots : d \in Holds(rxQueue'[t])
      BY DEF Held
    <3>3. t \notin Done /\ d \in Holds(rxQueue[t])
      BY Zenon, <2>1, <3>2
    <3>4. s \in Slots /\ s # t
      BY Zenon, <2>1, <3>1, <3>3
    <3>5. Holds(rxQueue[s]) \cap Holds(rxQueue[t]) = {}
      BY Zenon, <3>4 DEF HoldInv
    <3>6. Reassembles!Used(y) \subseteq Holds(rxQueue[s])
      BY Zenon, <2>2, <3>1
    <3> QED  BY Zenon, <3>3, <3>5, <3>6
  <2>8. delivered \subseteq delivered' /\ net' \subseteq net
    BY <2>1
  <2> QED  BY <2>4, <2>5, <2>6, <2>7, <2>8 DEF Reassembles!Next, Held
<1>3. CASE Tick
  <2>1. net' = net /\ delivered' = delivered /\ Held' = Held
    BY <1>3, TickKept DEF Held
  <2> QED  BY <2>1 DEF Reassembles!vars, Held
<1>4. CASE UNCHANGED rxVars
  BY <1>4 DEF Reassembles!vars, rxVars
<1> QED
  BY <1>1, <1>2, <1>3, <1>4, RxSteps

(* The receive queue implements reassembly: a packet reaches its handler   *)
(* whole, made of datagrams that arrived, none of them used for a second   *)
(* delivery, whatever is evicted, freed and overwritten on the way.        *)
THEOREM ReassemblyImplemented == Spec => ReassemblySpec
<1>1. Init => Reassembles!Init
  <2> SUFFICES ASSUME Init PROVE Reassembles!Init
    OBVIOUS
  <2>1. \A s \in Slots : Holds(rxQueue[s]) = {}
    BY Zenon DEF Init, Unused, Holds
  <2> QED  BY <2>1 DEF Init, Reassembles!Init
<1> QED
  BY <1>1, InitIInv, NextIInv, InitHoldInv, NextHoldInv, NextReassembles, PTL
  DEF Spec, ReassemblySpec, Reassembles!Spec

(* A step takes the slot of a packet that has not expired only when every  *)
(* slot is in use and no packet is older.                                  *)
THEOREM EvictionAlwaysOldest == Spec => EvictsOnlyOldest
<1> DEFINE A == \A s \in Slots :
                  /\ rxQueue[s].used /\ rxQueue[s].age < Expire
                  /\ rxQueue'[s].used /\ rxQueue'[s].pid # rxQueue[s].pid
                  => \A t \in Slots : rxQueue[t].used /\ rxQueue[t].age <= rxQueue[s].age
<1>1. IInv /\ HoldInv /\ [Next]_vars => A
  <2> SUFFICES ASSUME IInv, HoldInv, [Next]_vars, NEW r \in Slots,
                      rxQueue[r].used, rxQueue[r].age < Expire,
                      rxQueue'[r].used, rxQueue'[r].pid # rxQueue[r].pid
               PROVE  \A t \in Slots : rxQueue[t].used /\ rxQueue[t].age <= rxQueue[r].age
    OBVIOUS
  <2>1. ASSUME NEW d \in net, Receive(d)
        PROVE  \A t \in Slots : rxQueue[t].used /\ rxQueue[t].age <= rxQueue[r].age
    <3>1. PICK s \in Slots :
            /\ \A t \in Slots \ {s} : Untouched(t)
            /\ Started(d, s) \/ Joined(d, s) \/ Passed(d, s)
      BY <2>1, ReceiveHandled DEF Handled
    <3>2. ~Untouched(r)
      BY DEF Untouched
    <3>3. s = r
      BY <3>1, <3>2
    <3>4. Started(d, r)
      BY Zenon, <3>1, <3>2, <3>3 DEF Joined, Passed
    <3> QED  BY <3>4 DEF Started
  <2>2. ~DecodeWaiting
    BY DecodeWaitingKept
  <2>3. ~Tick
    BY TickKept
  <2>4. ~UNCHANGED rxVars
    BY DEF rxVars
  <2> QED  BY <2>1, <2>2, <2>3, <2>4, RxSteps
<1> HIDE DEF A
<1>2. Spec => [][A]_vars
  BY <1>1, InitIInv, NextIInv, InitHoldInv, NextHoldInv, PTL DEF Spec
<1> QED
  BY <1>2 DEF A, EvictsOnlyOldest

(* A complete packet that has not expired is not lost, as long as no       *)
(* packet needs a credential's issuer after it was decrypted in place.     *)
THEOREM WaitingNeverLost ==
    ASSUME NeverDeferred
    PROVE  Spec => WaitingNotLost
<1> DEFINE A == \A s \in Slots :
                  /\ rxQueue[s].used /\ rxQueue[s].complete /\ rxQueue[s].age < Expire
                  /\ ~rxQueue'[s].used
                  => rxQueue[s].frag0.segs \in delivered'
<1>1. IInv /\ HoldInv /\ [Next]_vars => A
  <2> SUFFICES ASSUME IInv, HoldInv, [Next]_vars, NEW r \in Slots,
                      rxQueue[r].used, rxQueue[r].complete, rxQueue[r].age < Expire,
                      ~rxQueue'[r].used
               PROVE  rxQueue[r].frag0.segs \in delivered'
    OBVIOUS
  <2>1. ASSUME NEW d \in net, Receive(d)
        PROVE  FALSE
    <3>1. PICK s \in Slots :
            /\ \A t \in Slots \ {s} : Untouched(t)
            /\ Started(d, s) \/ Joined(d, s) \/ Passed(d, s)
      BY Zenon, <2>1, ReceiveHandled DEF Handled
    <3>2. rxQueue[r].age \in Nat /\ Expire \in Nat
      BY RxAssumption DEF IInv, TypeOK, Entries
    <3>3. ~Untouched(r)
      BY <3>2 DEF Untouched
    <3> QED  BY Zenon, <3>1, <3>3 DEF Started, Joined, Passed
  <2>2. CASE DecodeWaiting
    <3>1. Finished(rxQueue[r].frag0)
      BY <2>2, DecodeWaitingKept
    <3>2. Authentic(rxQueue[r].frag0)
      BY Zenon DEF Authentic, IInv, SlotsSound, EntrySound, HoldInv, Kept
    <3>3. Outcome(rxQueue[r].frag0) = "done"
      BY <3>1, <3>2 DEF Finished, Outcome
    <3> QED  BY <2>2, <3>3, DecodeWaitingKept DEF Done
  <2>3. ~Tick
    BY TickKept
  <2>4. ~UNCHANGED rxVars
    BY DEF rxVars
  <2> QED  BY <2>1, <2>2, <2>3, <2>4, RxSteps
<1> HIDE DEF A
<1>2. Spec => [][A]_vars
  BY <1>1, InitIInv, NextIInv, InitHoldInv, NextHoldInv, PTL DEF Spec
<1> QED
  BY <1>2 DEF A, WaitingNotLost
=============================================================================
