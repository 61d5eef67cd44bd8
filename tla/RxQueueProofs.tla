--------------------------- MODULE RxQueueProofs ---------------------------
(***************************************************************************)
(* What the operators of RxQueue.tla do to an entry, for any number of     *)
(* slots, packets and fragments: the facts the proofs about Switch.tla     *)
(* rest on.                                                                *)
(***************************************************************************)
EXTENDS RxQueue, FiniteSetTheorems, TLAPS

USE DEF Slots

(* One sequence after the other.                                           *)
LEMMA ConcatFacts ==
    ASSUME NEW S, NEW s1 \in Seq(S), NEW s2 \in Seq(S)
    PROVE  /\ s1 \o s2 \in Seq(S)
           /\ Len(s1 \o s2) = Len(s1) + Len(s2)
           /\ \A i \in 1..(Len(s1) + Len(s2)) :
                (s1 \o s2)[i] = IF i <= Len(s1) THEN s1[i] ELSE s2[i - Len(s1)]
  OBVIOUS

(* A datagram is numbered within its packet.                               *)
LEMMA DatagramFacts ==
    ASSUME NEW d \in Datagrams
    PROVE  /\ d.pid \in PacketIds
           /\ d.fno \in 0..(Fragments[d.pid] - 1)
           /\ d.fno \in 0..(WireFragments - 1)
           /\ Fragments[d.pid] \in 1..WireFragments
BY RxAssumption DEF Datagrams

(* RXQueueEntry() is a well-formed entry.                                  *)
LEMMA UnusedType == Unused \in Entries
BY RxAssumption DEF Unused, Entries, Packets

(* The bytes a head datagram leaves in frag0.                              *)
LEMMA HeadOnlyType ==
    ASSUME NEW d \in Datagrams
    PROVE  HeadOnly(d) \in Packets
BY DEF HeadOnly, Packets

(* The fragment branch keeps the entry well formed, whatever the slot held *)
(* before: the first fragment of a packet ...                              *)
LEMMA StartWithFragmentSound ==
    ASSUME NEW e \in Entries, NEW d \in Datagrams, SaneFragment(d)
    PROVE  /\ StartWithFragment(e, d) \in Entries
           /\ StartWithFragment(e, d).used
           /\ StartWithFragment(e, d).pid = d.pid
           /\ EntrySound(StartWithFragment(e, d))
<1> DEFINE n == StartWithFragment(e, d)
<1>1. /\ d.fno \in 1..(MaxFragments - 1)
      /\ d.pid \in PacketIds
      /\ d.fno \in 0..(WireFragments - 1)
      /\ d.fno \in 0..(Fragments[d.pid] - 1)
      /\ Fragments[d.pid] \in 0..WireFragments
      /\ Fragments[d.pid] <= MaxFragments
  BY DatagramFacts, RxAssumption DEF SaneFragment
<1>2. n \in Entries
  <2>1. [e.frags EXCEPT ![d.fno] = d] \in [1..(MaxFragments - 1) -> Datagrams \cup {NoDatagram}]
    BY <1>1 DEF Entries
  <2> DEFINE g == [e.frags EXCEPT ![d.fno] = d]  tot == Fragments[d.pid]
             one == {d.fno}
  <2>2. 0 \in 0..MaxAge /\ d.pid \in PacketIds \cup {"none"}
        /\ tot \in 0..WireFragments /\ one \in SUBSET (0..(WireFragments - 1))
    BY <1>1, RxAssumption
  <2>3. n = [e EXCEPT !.used = TRUE, !.age = 0, !.pid = d.pid, !.frags = g,
                   !.total = tot, !.have = one, !.complete = FALSE]
    BY DEF StartWithFragment
  <2> HIDE DEF g, tot, one, n
  <2> QED
    BY Zenon, <2>1, <2>2, <2>3 DEF Entries, g
<1>3. /\ n.used = TRUE /\ n.pid = d.pid /\ n.have = {d.fno}
      /\ n.frags[d.fno] = d /\ n.total = Fragments[d.pid]
      /\ n.complete = FALSE
  BY Zenon, <1>1 DEF StartWithFragment, Entries
<1>4. EntrySound(n)
  BY <1>1, <1>3 DEF EntrySound
<1> QED
  BY <1>2, <1>3, <1>4

(* ... a further one, of the packet the entry is for, ...                  *)
LEMMA AddFragmentSound ==
    ASSUME NEW e \in Entries, NEW d \in Datagrams, SaneFragment(d),
           e.used, e.pid = d.pid, EntrySound(e), d.fno \notin e.have
    PROVE  /\ AddFragment(e, d) \in Entries
           /\ AddFragment(e, d).used
           /\ AddFragment(e, d).pid = d.pid
           /\ ~AddFragment(e, d).complete
           /\ EntrySound(AddFragment(e, d))
<1> DEFINE n == AddFragment(e, d)
           g == [e.frags EXCEPT ![d.fno] = d]
           more == e.have \cup {d.fno}
<1>1. /\ d.fno \in 1..(MaxFragments - 1)
      /\ d.pid \in PacketIds
      /\ d.fno \in 0..(WireFragments - 1)
      /\ d.fno \in 0..(Fragments[d.pid] - 1)
      /\ Fragments[d.pid] \in 0..WireFragments
      /\ Fragments[d.pid] <= MaxFragments
  BY DatagramFacts, RxAssumption DEF SaneFragment
<1>2. n = [e EXCEPT !.frags = g, !.total = Fragments[d.pid], !.have = more]
  BY DEF AddFragment
<1>3. /\ g \in [1..(MaxFragments - 1) -> Datagrams \cup {NoDatagram}]
      /\ more \in SUBSET (0..(WireFragments - 1))
      /\ g[d.fno] = d
      /\ \A f \in e.have \ {0} : g[f] = e.frags[f]
  <2>1. e.frags \in [1..(MaxFragments - 1) -> Datagrams \cup {NoDatagram}]
        /\ e.have \subseteq 0..(WireFragments - 1)
    BY DEF Entries
  <2>2. e.have \ {0} \subseteq 1..(MaxFragments - 1)
    BY <1>1, RxAssumption DEF EntrySound
  <2> QED  BY Zenon, <1>1, <2>1, <2>2
<1>4. n \in Entries
  <2> HIDE DEF n, g, more
  <2> QED  BY Zenon, <1>1, <1>2, <1>3 DEF Entries
<1>5. /\ n.used = e.used /\ n.pid = e.pid /\ n.complete = e.complete
      /\ n.have = more /\ n.frags = g /\ n.total = Fragments[d.pid]
      /\ n.frag0 = e.frag0
  <2> HIDE DEF n, g, more
  <2> QED  BY Zenon, <1>2 DEF Entries
<1>6. ~e.complete
  BY <1>1 DEF EntrySound
<1>7. EntrySound(n)
  <2> HIDE DEF n, g
  <2> QED  BY <1>1, <1>3, <1>5, <1>6 DEF EntrySound
<1> QED
  BY <1>4, <1>5, <1>6, <1>7

(* ... the head as the first datagram of its packet, ...                   *)
LEMMA StartWithHeadSound ==
    ASSUME NEW e \in Entries, NEW d \in Datagrams, d.fno = 0
    PROVE  /\ StartWithHead(e, d) \in Entries
           /\ StartWithHead(e, d).used
           /\ StartWithHead(e, d).pid = d.pid
           /\ EntrySound(StartWithHead(e, d))
<1> DEFINE n == StartWithHead(e, d)  h == HeadOnly(d)  one == {0}
<1>1. /\ 0 \in 0..MaxAge /\ 0 \in 0..WireFragments
      /\ one \in SUBSET (0..(WireFragments - 1))
      /\ d.pid \in PacketIds \cup {"none"} /\ d.pid \in PacketIds
      /\ h \in Packets
      /\ 0 \in 0..(Fragments[d.pid] - 1)
  BY DatagramFacts, HeadOnlyType, RxAssumption
<1>2. n = [e EXCEPT !.used = TRUE, !.age = 0, !.pid = d.pid, !.frag0 = h,
                    !.total = 0, !.have = one, !.complete = FALSE]
  BY DEF StartWithHead
<1>3. n \in Entries
  <2> HIDE DEF n, h, one
  <2> QED  BY Zenon, <1>1, <1>2 DEF Entries
<1>4. /\ n.used = TRUE /\ n.pid = d.pid /\ n.have = one /\ n.frag0 = h
      /\ n.total = 0 /\ n.complete = FALSE
  <2> HIDE DEF n, h, one
  <2> QED  BY <1>2 DEF Entries
<1>5. EntrySound(n)
  BY <1>1, <1>4 DEF EntrySound
<1> QED
  BY <1>3, <1>4, <1>5

(* ... and the head after fragments of its packet.                         *)
LEMMA AddHeadSound ==
    ASSUME NEW e \in Entries, NEW d \in Datagrams, d.fno = 0,
           e.used, e.pid = d.pid, EntrySound(e), 0 \notin e.have
    PROVE  /\ AddHead(e, d) \in Entries
           /\ AddHead(e, d).used
           /\ AddHead(e, d).pid = d.pid
           /\ ~AddHead(e, d).complete
           /\ EntrySound(AddHead(e, d))
<1> DEFINE n == AddHead(e, d)  h == HeadOnly(d)  more == e.have \cup {0}
<1>1. /\ d.pid \in PacketIds
      /\ Fragments[d.pid] \in 1..WireFragments
      /\ h \in Packets
  BY DatagramFacts, HeadOnlyType
<1>2. n = [e EXCEPT !.frag0 = h, !.have = more]
  BY DEF AddHead
<1>3. more \in SUBSET (0..(WireFragments - 1))
  BY RxAssumption DEF Entries
<1>4. n \in Entries
  <2> HIDE DEF n, h, more
  <2> QED  BY Zenon, <1>1, <1>2, <1>3 DEF Entries
<1>5. /\ n.used = e.used /\ n.pid = e.pid /\ n.complete = e.complete
      /\ n.have = more /\ n.frags = e.frags /\ n.total = e.total
      /\ n.frag0 = h
  <2> HIDE DEF n, h, more
  <2> QED  BY Zenon, <1>2 DEF Entries
<1>6. ~e.complete
  BY <1>1 DEF EntrySound
<1>7. EntrySound(n)
  <2> HIDE DEF n
  <2> QED  BY <1>1, <1>5, <1>6 DEF EntrySound
<1> QED
  BY <1>4, <1>5, <1>6, <1>7
(* countBits(haveFragments) == totalFragments only when every fragment is  *)
(* there.                                                                  *)
LEMMA HasAllMeansAll ==
    ASSUME NEW e \in Entries, EntrySound(e), HasAll(e)
    PROVE  /\ e.total = Fragments[e.pid]
           /\ e.total \in 2..MaxFragments
           /\ e.have = 0..(e.total - 1)
<1>1. /\ e.total = Fragments[e.pid] /\ e.total \in Nat /\ e.total > 1
      /\ e.have \subseteq 0..(e.total - 1)
  BY DEF EntrySound, HasAll, Entries
<1>2. IsFiniteSet(0..(e.total - 1)) /\ Cardinality(0..(e.total - 1)) = e.total
  BY <1>1, FS_Interval
<1>3. e.have = 0..(e.total - 1)
  BY <1>1, <1>2, FS_Subset DEF HasAll
<1>4. e.total <= MaxFragments
  <2>1. 1 \in e.have \ {0}
    BY <1>1, <1>3
  <2> QED  BY <1>1, <2>1 DEF EntrySound
<1> QED
  BY <1>1, <1>3, <1>4, RxAssumption

(* Assembly yields the packet its sender cut up: no fragment of another    *)
(* packet, none missing, none in the wrong place.                          *)
LEMMA AssembledWhole ==
    ASSUME NEW e \in Entries, EntrySound(e), ~e.complete, HasAll(e)
    PROVE  /\ Assembled(e) \in Entries
           /\ IsWhole(Assembled(e).frag0.segs)
           /\ Assembled(e).frag0.segs[1].pid = e.pid
           /\ Assembled(e).used = e.used
           /\ Assembled(e).pid = e.pid
           /\ Assembled(e).have = 0..(Fragments[e.pid] - 1)
           /\ Assembled(e).total = Fragments[e.pid]
           /\ Assembled(e).frags = e.frags
           /\ ~Assembled(e).complete
<1> DEFINE tail == [i \in 1..(e.total - 1) |-> e.frags[i]]
           all  == e.frag0.segs \o tail
           n    == Assembled(e)
<1>1. /\ e.total = Fragments[e.pid] /\ e.total \in Nat /\ e.total > 1
      /\ e.have = 0..(e.total - 1) /\ 0 \in e.have
  BY HasAllMeansAll, RxAssumption
<1>2. PICK d \in Datagrams : d.pid = e.pid /\ d.fno = 0 /\ e.frag0 = HeadOnly(d)
  BY <1>1 DEF EntrySound
<1>3. e.frag0.segs = <<d>> /\ e.frag0.plain = FALSE
  BY <1>2 DEF HeadOnly
<1>4. \A i \in 1..(e.total - 1) :
         e.frags[i] \in Datagrams /\ e.frags[i].pid = e.pid /\ e.frags[i].fno = i
  <2>1. \A i \in 1..(e.total - 1) : i \in e.have \ {0}
    BY <1>1
  <2> QED  BY <2>1 DEF EntrySound
<1>5. tail \in Seq(Datagrams) /\ Len(tail) = e.total - 1
  BY <1>1, <1>4
<1>6. /\ all \in Seq(Datagrams) /\ Len(all) = e.total
      /\ \A i \in 1..e.total : all[i] = IF i <= 1 THEN d ELSE e.frags[i - 1]
  <2>1. <<d>> \in Seq(Datagrams) /\ Len(<<d>>) = 1 /\ <<d>>[1] = d
    OBVIOUS
  <2> DEFINE h == <<d>>
  <2> HIDE DEF tail, h
  <2>2. /\ h \o tail \in Seq(Datagrams) /\ Len(h \o tail) = 1 + Len(tail)
        /\ \A i \in 1..(1 + Len(tail)) : (h \o tail)[i] = IF i <= 1 THEN h[i] ELSE tail[i - 1]
    BY <2>1, <1>5, ConcatFacts DEF h
  <2>3. \A i \in 2..e.total : tail[i - 1] = e.frags[i - 1]
    BY <1>1 DEF tail
  <2> QED  BY <1>1, <1>3, <1>5, <2>1, <2>2, <2>3 DEF h
<1>7. /\ all # <<>> /\ all[1] = d
      /\ \A i \in 1..Len(all) : all[i].pid = e.pid /\ all[i].fno = i - 1
  <2> HIDE DEF all
  <2> QED  BY <1>1, <1>2, <1>4, <1>6
<1>8. IsWhole(all) /\ all[1].pid = e.pid
  <2> HIDE DEF all
  <2> QED  BY <1>1, <1>2, <1>6, <1>7 DEF IsWhole
<1>9. n = [e EXCEPT !.frag0 = [e.frag0 EXCEPT !.segs = all]]
  BY DEF Assembled
<1>10. [e.frag0 EXCEPT !.segs = all] \in Packets /\ [e.frag0 EXCEPT !.segs = all].segs = all
  <2>1. e.frag0 \in Packets
    BY DEF Entries
  <2> HIDE DEF all
  <2> QED  BY <2>1, <1>6 DEF Packets
<1>11. n \in Entries /\ n.frag0.segs = all
  <2> DEFINE p == [e.frag0 EXCEPT !.segs = all]
  <2> HIDE DEF p, n, all
  <2> QED  BY Zenon, <1>9, <1>10 DEF p, Entries
<1>12. /\ n.used = e.used /\ n.pid = e.pid /\ n.have = e.have
       /\ n.total = e.total /\ n.frags = e.frags /\ n.complete = e.complete
  <2> HIDE DEF n, all
  <2> QED  BY <1>9 DEF Entries
<1> QED
  <2> HIDE DEF all
  <2> QED  BY <1>1, <1>8, <1>11, <1>12
(* A packet tryDecode() could not finish stays, complete; only the bytes   *)
(* may have been decrypted.                                                *)
LEMMA KeptSound ==
    ASSUME NEW e \in Entries, NEW b \in BOOLEAN,
           e.pid \in PacketIds, e.used,
           e.have = 0..(Fragments[e.pid] - 1),
           e.total = Fragments[e.pid],
           \A f \in e.have \ {0} :
             /\ Fragments[e.pid] <= MaxFragments
             /\ e.frags[f] \in Datagrams
             /\ e.frags[f].pid = e.pid /\ e.frags[f].fno = f,
           IsWhole(e.frag0.segs), e.frag0.segs[1].pid = e.pid,
           NEW n, n = [e EXCEPT !.frag0 = [e.frag0 EXCEPT !.plain = b], !.complete = TRUE]
    PROVE  /\ n \in Entries /\ n.used /\ n.pid = e.pid
           /\ EntrySound(n)
<1> DEFINE p == [e.frag0 EXCEPT !.plain = b]
<1>1. p \in Packets /\ p.segs = e.frag0.segs
  BY DEF Entries, Packets
<1>2. /\ n \in Entries /\ n.used = e.used /\ n.pid = e.pid /\ n.have = e.have
      /\ n.total = e.total /\ n.frags = e.frags /\ n.complete = TRUE /\ n.frag0 = p
  <2> HIDE DEF p
  <2>1. n = [e EXCEPT !.frag0 = p, !.complete = TRUE]
    BY DEF p
  <2> QED  BY Zenon, <1>1, <2>1 DEF Entries
<1>3. EntrySound(n)
  <2> HIDE DEF p
  <2>1. \A f \in n.have \ {0} :
          /\ Fragments[n.pid] <= MaxFragments
          /\ n.frags[f] \in Datagrams
          /\ n.frags[f].pid = n.pid /\ n.frags[f].fno = f
    BY ZenonT(30), <1>2
  <2>2. /\ IsWhole(n.frag0.segs) /\ n.frag0.segs[1].pid = n.pid
        /\ n.have = 0..(Fragments[n.pid] - 1) /\ n.total = Fragments[n.pid]
        /\ n.pid \in PacketIds
    BY <1>1, <1>2
  <2> QED  BY Zenon, <1>2, <2>1, <2>2 DEF EntrySound
<1> QED
  BY <1>2, <1>3

(* An unfragmented packet is kept in whatever slot is the oldest.          *)
LEMMA StoreWholeSound ==
    ASSUME NEW e \in Entries, NEW d \in Datagrams, NEW b \in BOOLEAN,
           Fragments[d.pid] = 1
    PROVE  /\ StoreWhole(e, d, b) \in Entries
           /\ StoreWhole(e, d, b).used
           /\ StoreWhole(e, d, b).pid = d.pid
           /\ EntrySound(StoreWhole(e, d, b))
<1> DEFINE n == StoreWhole(e, d, b)  p == [segs |-> <<d>>, plain |-> b]
           one == {0}
<1>1. /\ p \in Packets /\ p.segs = <<d>>
      /\ 0 \in 0..MaxAge /\ 1 \in 0..WireFragments
      /\ one \in SUBSET (0..(WireFragments - 1))
      /\ d.pid \in PacketIds \cup {"none"} /\ d.pid \in PacketIds /\ d.fno = 0
  BY DatagramFacts, RxAssumption DEF Packets
<1>2. n = [e EXCEPT !.used = TRUE, !.age = 0, !.pid = d.pid, !.frag0 = p,
                    !.total = 1, !.have = one, !.complete = TRUE]
  BY DEF StoreWhole
<1>3. /\ n \in Entries /\ n.used = TRUE /\ n.pid = d.pid /\ n.have = one
      /\ n.total = 1 /\ n.frag0 = p /\ n.complete = TRUE
  <2> HIDE DEF n, p, one
  <2> QED  BY Zenon, <1>1, <1>2 DEF Entries
<1>4. IsWhole(<<d>>) /\ <<d>>[1].pid = d.pid
  BY <1>1 DEF IsWhole
<1>5. EntrySound(n)
  <2> HIDE DEF n, p
  <2> QED  BY <1>1, <1>3, <1>4 DEF EntrySound
<1> QED
  BY <1>3, <1>5

(* Giving a slot up and growing older leave the rest of the entry alone.   *)
LEMMA FreedType ==
    ASSUME NEW e \in Entries
    PROVE  Freed(e) \in Entries /\ ~Freed(e).used
BY Zenon DEF Freed, Entries

(* An entry that grows older stays sound.                                  *)
LEMMA OlderSound ==
    ASSUME NEW e \in Entries
    PROVE  /\ Older(e) \in Entries
           /\ Older(e).used = e.used /\ Older(e).pid = e.pid
           /\ EntrySound(e) => EntrySound(Older(e))
<1> DEFINE n == Older(e)  a == IF e.age < MaxAge THEN e.age + 1 ELSE e.age
<1>1. n = [e EXCEPT !.age = a] /\ a \in 0..MaxAge
  BY RxAssumption DEF Older, Entries
<1>2. /\ n \in Entries /\ n.used = e.used /\ n.pid = e.pid /\ n.have = e.have
      /\ n.total = e.total /\ n.frags = e.frags /\ n.frag0 = e.frag0
      /\ n.complete = e.complete
  <2> HIDE DEF n, a
  <2> QED  BY <1>1 DEF Entries
<1>3. EntrySound(e) => EntrySound(n)
  <2> HIDE DEF n
  <2> QED  BY <1>2 DEF EntrySound
<1> QED
  BY <1>2, <1>3

(* The scan for a slot changes an entry only by freeing it.                *)
LEMMA SweepFacts ==
    ASSUME NEW q \in [Slots -> Entries], NEW pid
    PROVE  /\ Sweep(q, pid) \in [Slots -> Entries]
           /\ \A s \in Slots : Sweep(q, pid)[s].used => Sweep(q, pid)[s] = q[s]
<1>1. \A s \in Slots : /\ [q[s] EXCEPT !.used = FALSE] \in Entries
                       /\ ~[q[s] EXCEPT !.used = FALSE].used
  BY ZenonT(30) DEF Entries
<1> QED
  BY <1>1 DEF Sweep

---------------------------------------------------------------------------
(* The datagrams an entry holds                                            *)

(* The datagrams a packet was put together from.                           *)
Pieces(x) == {x[i] : i \in DOMAIN x}

(* A datagram an entry in use holds is one its mask claims.                *)
LEMMA InHolds ==
    ASSUME NEW e, NEW x
    PROVE  x \in Holds(e) <=>
             e.used /\ (\/ \E f \in e.have : f > 0 /\ x = e.frags[f]
                        \/ 0 \in e.have /\ x = e.frag0.segs[1])
BY DEF Holds

(* The entry a fragment starts holds that fragment and nothing the slot    *)
(* had before; ...                                                         *)
LEMMA StartWithFragmentHolds ==
    ASSUME NEW e \in Entries, NEW d \in Datagrams, SaneFragment(d)
    PROVE  Holds(StartWithFragment(e, d)) = {d} /\ ~StartWithFragment(e, d).complete
<1> DEFINE n == StartWithFragment(e, d)
<1>1. d.fno \in 1..(MaxFragments - 1)
  BY DatagramFacts, RxAssumption DEF SaneFragment
<1>2. /\ n.used = TRUE /\ n.have = {d.fno}
      /\ n.frags[d.fno] = d /\ n.complete = FALSE
  BY Zenon, <1>1 DEF StartWithFragment, Entries
<1> HIDE DEF n
<1>3. \A x : x \in Holds(n) <=> x = d
  BY <1>1, <1>2, InHolds
<1> QED
  BY <1>2, <1>3 DEF n

(* ... a further fragment is added to what it holds; ...                   *)
LEMMA AddFragmentHolds ==
    ASSUME NEW e \in Entries, NEW d \in Datagrams, SaneFragment(d), e.used, EntrySound(e),
           d.fno \notin e.have
    PROVE  Holds(AddFragment(e, d)) = Holds(e) \cup {d}
<1> DEFINE n == AddFragment(e, d)
<1>1. d.fno \in 1..(MaxFragments - 1)
  BY DatagramFacts, RxAssumption DEF SaneFragment
<1>2. /\ n.used = e.used /\ n.have = e.have \cup {d.fno} /\ n.frag0 = e.frag0
      /\ n.frags = [e.frags EXCEPT ![d.fno] = d]
  BY Zenon DEF AddFragment, Entries
<1>3. /\ n.frags[d.fno] = d /\ d.fno > 0
      /\ \A f \in e.have : f > 0 => n.frags[f] = e.frags[f]
  <2>1. e.frags \in [1..(MaxFragments - 1) -> Datagrams \cup {NoDatagram}]
    BY DEF Entries
  <2>2. \A f \in e.have : f > 0 => f \in 1..(MaxFragments - 1)
    BY RxAssumption DEF EntrySound
  <2>3. \A f \in e.have : f # d.fno
    OBVIOUS
  <2>4. d.fno > 0
    BY <1>1
  <2> HIDE DEF n
  <2> QED  BY Zenon, <1>1, <1>2, <2>1, <2>2, <2>3, <2>4
<1> HIDE DEF n
<1>4. ASSUME NEW x PROVE x \in Holds(n) <=> x \in Holds(e) \/ x = d
  <2>1. d.fno # 0 /\ (0 \in n.have <=> 0 \in e.have)
    BY <1>1, <1>2
  <2>2. (\E f \in n.have : f > 0 /\ x = n.frags[f])
          <=> x = d \/ \E f \in e.have : f > 0 /\ x = e.frags[f]
    BY Zenon, <1>2, <1>3
  <2>3. n.used /\ n.frag0.segs[1] = e.frag0.segs[1]
    BY Zenon, <1>2
  <2> QED  BY <2>1, <2>2, <2>3, InHolds
<1> QED
  BY <1>4 DEF n

(* ... the head likewise.                                                  *)
LEMMA StartWithHeadHolds ==
    ASSUME NEW e \in Entries, NEW d \in Datagrams
    PROVE  Holds(StartWithHead(e, d)) = {d} /\ ~StartWithHead(e, d).complete
<1> DEFINE n == StartWithHead(e, d)
<1>1. /\ n.used = TRUE /\ n.have = {0} /\ n.frag0 = HeadOnly(d) /\ n.complete = FALSE
  BY Zenon DEF StartWithHead, Entries
<1>2. HeadOnly(d).segs[1] = d
  BY DEF HeadOnly
<1> HIDE DEF n
<1>3. \A x : x \in Holds(n) <=> x = d
  BY <1>1, <1>2, InHolds
<1> QED
  BY <1>1, <1>3 DEF n

(* A head that completes or joins the fragments of its packet.             *)
LEMMA AddHeadHolds ==
    ASSUME NEW e \in Entries, NEW d \in Datagrams, e.used, 0 \notin e.have
    PROVE  Holds(AddHead(e, d)) = Holds(e) \cup {d}
<1> DEFINE n == AddHead(e, d)
<1>1. /\ n.used = e.used /\ n.have = e.have \cup {0} /\ n.frag0 = HeadOnly(d)
      /\ n.frags = e.frags
  BY Zenon DEF AddHead, Entries
<1>2. HeadOnly(d).segs[1] = d
  BY DEF HeadOnly
<1> HIDE DEF n
<1>3. \A x : x \in Holds(n) <=> x \in Holds(e) \/ x = d
  <2>1. \A f \in n.have : f > 0 <=> f \in e.have /\ f > 0
    BY <1>1
  <2> SUFFICES ASSUME NEW x PROVE x \in Holds(n) <=> x \in Holds(e) \/ x = d
    OBVIOUS
  <2>2. (\E f \in n.have : f > 0 /\ x = n.frags[f])
          <=> \E f \in e.have : f > 0 /\ x = e.frags[f]
    BY Zenon, <1>1, <2>1
  <2>3. n.used /\ n.frag0.segs[1] = d /\ 0 \in n.have
    BY Zenon, <1>1, <1>2
  <2> QED  BY <2>2, <2>3, InHolds
<1> QED
  BY <1>3 DEF n

(* An unfragmented packet is its head.                                     *)
LEMMA StoreWholeHolds ==
    ASSUME NEW e \in Entries, NEW d \in Datagrams, NEW b
    PROVE  /\ Holds(StoreWhole(e, d, b)) = {d}
           /\ Pieces(StoreWhole(e, d, b).frag0.segs) = {d}
           /\ StoreWhole(e, d, b).frag0.plain = b
<1> DEFINE n == StoreWhole(e, d, b)
<1>1. /\ n.used = TRUE /\ n.have = {0} /\ n.frag0 = [segs |-> <<d>>, plain |-> b]
  BY Zenon DEF StoreWhole, Entries
<1>2. n.frag0.segs = <<d>> /\ n.frag0.plain = b
  BY <1>1
<1>3. <<d>>[1] = d /\ Pieces(<<d>>) = {d}
  BY DEF Pieces
<1> HIDE DEF n
<1>4. \A x : x \in Holds(n) <=> x = d
  BY <1>1, <1>2, <1>3, InHolds
<1> QED
  BY <1>2, <1>3, <1>4 DEF n

(* What assembly appends to the head is what the entry holds.              *)
LEMMA AssembledPieces ==
    ASSUME NEW e \in Entries, EntrySound(e), e.used, ~e.complete, HasAll(e)
    PROVE  /\ Pieces(Assembled(e).frag0.segs) \subseteq Holds(e)
           /\ Holds(Assembled(e)) = Holds(e)
           /\ ~Assembled(e).frag0.plain
<1> DEFINE tail == [i \in 1..(e.total - 1) |-> e.frags[i]]
           all  == e.frag0.segs \o tail
           n    == Assembled(e)
<1>1. /\ e.total \in Nat /\ e.total > 1 /\ e.have = 0..(e.total - 1)
  BY HasAllMeansAll, RxAssumption
<1>2. PICK d \in Datagrams : d.pid = e.pid /\ d.fno = 0 /\ e.frag0 = HeadOnly(d)
  BY <1>1 DEF EntrySound
<1>3. e.frag0.segs = <<d>> /\ e.frag0.plain = FALSE
  BY <1>2 DEF HeadOnly
<1>4. \A i \in 1..(e.total - 1) : i \in e.have \ {0} /\ e.frags[i] \in Datagrams
  BY <1>1 DEF EntrySound
<1>5. tail \in Seq(Datagrams) /\ Len(tail) = e.total - 1
  BY <1>1, <1>4
<1>6. /\ DOMAIN all = 1..e.total /\ all[1] = d
      /\ \A i \in 2..e.total : all[i] = e.frags[i - 1]
  <2>1. <<d>> \in Seq(Datagrams) /\ Len(<<d>>) = 1 /\ <<d>>[1] = d
    OBVIOUS
  <2> DEFINE h == <<d>>
  <2> HIDE DEF tail, h
  <2>2. /\ h \o tail \in Seq(Datagrams) /\ Len(h \o tail) = 1 + Len(tail)
        /\ \A i \in 1..(1 + Len(tail)) : (h \o tail)[i] = IF i <= 1 THEN h[i] ELSE tail[i - 1]
    BY <2>1, <1>5, ConcatFacts DEF h
  <2>3. \A i \in 2..e.total : tail[i - 1] = e.frags[i - 1]
    BY <1>1 DEF tail
  <2>4. DOMAIN (h \o tail) = 1..e.total
    BY <1>1, <1>5, <2>2
  <2> QED  BY <1>1, <1>3, <1>5, <2>1, <2>2, <2>3, <2>4 DEF h
<1>7. Pieces(all) \subseteq Holds(e)
  <2> HIDE DEF all
  <2> SUFFICES ASSUME NEW i \in 1..e.total PROVE all[i] \in Holds(e)
    BY <1>6 DEF Pieces
  <2>1. CASE i = 1
    BY <1>1, <1>3, <1>6, <2>1, InHolds
  <2>2. CASE i \in 2..e.total
    <3>1. i - 1 \in e.have /\ i - 1 > 0 /\ all[i] = e.frags[i - 1]
      BY <1>1, <1>6, <2>2
    <3> QED  BY <3>1, InHolds
  <2> QED  BY <1>1, <2>1, <2>2
<1>8. n = [e EXCEPT !.frag0 = [e.frag0 EXCEPT !.segs = all]]
  BY DEF Assembled
<1>9. /\ n.frag0 = [e.frag0 EXCEPT !.segs = all] /\ n.used = e.used /\ n.have = e.have
      /\ n.frags = e.frags
  <2> HIDE DEF n, all
  <2> QED  BY Zenon, <1>8 DEF Entries
<1>10. n.frag0.segs = all /\ n.frag0.plain = FALSE
  <2> HIDE DEF n, all
  <2> QED  BY <1>3, <1>9 DEF Entries, Packets
<1>11. Holds(n) = Holds(e)
  <2>1. n.frag0.segs[1] = e.frag0.segs[1]
    <3> HIDE DEF n, all
    <3> QED  BY <1>3, <1>6, <1>10
  <2> HIDE DEF n, all
  <2> QED  BY Zenon, <1>9, <2>1 DEF Holds
<1> QED
  <2> HIDE DEF all
  <2> QED  BY <1>7, <1>10, <1>11

(* Changing the bytes' decryption, the age or the use of an entry does not *)
(* change what it holds otherwise.                                         *)
LEMMA SameHolds ==
    ASSUME NEW e, NEW n, n.have = e.have, n.frags = e.frags, n.frag0.segs = e.frag0.segs,
           n.used => e.used
    PROVE  Holds(n) \subseteq Holds(e) /\ (n.used => Holds(n) = Holds(e))
BY Zenon DEF Holds
=============================================================================
