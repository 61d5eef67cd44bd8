-------------------------- MODULE DownloadsProofs ---------------------------
(***************************************************************************)
(* Proofs about what a node puts together from parts: the configuration of *)
(* a network, the image of a new release.                                  *)
(***************************************************************************)
EXTENDS Network, Updater, FiniteSetTheorems, WellFoundedInduction, SequenceTheorems, TLAPS

-----------------------------------------------------------------------------
(* Network!AssembledWhole and Network!NoReplay for any number of slots,    *)
(* parts, revisions, updates in flight and faults.  A slot does not know   *)
(* which revision its update is: the invariant says what the parts that    *)
(* are still in flight will find there.                                    *)

Parts == {m \in [id : Ids, rev : Revs, part : Nat, answer : BOOLEAN] : m.part \in 1..Size[m.rev]}

SlotType == [id : Ids \cup {NoId}, ts : Nat, count : Nat, have : SUBSET Nat, own : SUBSET Nat]

Configs == [id : Ids \cup {NoId}, rev : Revs, whole : {TRUE}]

Types ==
    /\ slots \in [Slots -> SlotType]
    /\ net \in SUBSET Parts /\ IsFiniteSet(net)
    /\ rev = changes /\ changes \in Revs
    /\ config \in Configs /\ disk \in Configs

(* An id is the id of one update.                                          *)
OneRev == \A m, n \in net : m.id = n.id => m.rev = n.rev

(* What slot c has of the update that m is a part of: a count of different *)
(* parts, each of them with its bytes.                                     *)
Counted(c, m) ==
    c.id = m.id /\ m.rev \notin Legacy =>
        /\ c.have \subseteq 1..Size[m.rev]
        /\ c.have \subseteq c.own
        /\ c.count = Cardinality(c.have)

SlotsCounted == \A s \in Slots, m \in net : Counted(slots[s], m)

(* Slot c has all of the update i, should parts of it still be in flight.  *)
HasAll(c, i) ==
    /\ c.id = i
    /\ \A m \in net : m.id = i /\ m.rev \notin Legacy => 1..Size[m.rev] \subseteq c.have

AppliedHeld == \A i \in applied : \E s \in Slots : HasAll(slots[s], i)

ChunkInv == Types /\ OneRev /\ SlotsCounted /\ AppliedHeld

-----------------------------------------------------------------------------
(* A set of natural numbers that is not empty has a least element.         *)
LEMMA LeastNatural ==
    ASSUME NEW S \in SUBSET Nat, S # {}
    PROVE  Min(S) \in S /\ \A y \in S : Min(S) <= y
  <1>1. \E x \in S : \A y \in S : ~(<<y, x>> \in OpToRel(<, Nat))
    BY NatLessThanWellFounded, WFMin, Zenon
  <1>2. \E x \in S : \A y \in S : x <= y
    <2>1. PICK x \in S : \A y \in S : ~(<<y, x>> \in OpToRel(<, Nat))
      BY Zenon, <1>1
    <2>2. ASSUME NEW y \in S PROVE x <= y
      <3>1. x \in Nat /\ y \in Nat
        BY Zenon
      <3>2. y < x => <<y, x>> \in OpToRel(<, Nat)
        BY <3>1 DEF OpToRel
      <3>3. ~(y < x)
        BY Zenon, <2>1, <3>2
      <3> QED
        BY <3>1, <3>3
    <2> QED
      BY Zenon, <2>2
  <1> QED
    BY <1>2, Zenon DEF Min

(* There is always a slot that was used least recently.                    *)
LEMMA LowestSlotIn ==
    ASSUME slots \in [Slots -> SlotType]
    PROVE  LowestSlot \in Slots
  <1> DEFINE T == {slots[s].ts : s \in Slots}
             L == {s \in Slots : \A t \in Slots : slots[s].ts <= slots[t].ts}
  <1>1. T \in SUBSET Nat /\ T # {}
    <2>1. \A s \in Slots : slots[s].ts \in Nat
      BY DEF SlotType
    <2>2. 1 \in Slots
      BY NetworkAssumption DEF Slots
    <2> QED
      BY <2>1, <2>2
  <1>2. Min(T) \in T /\ \A y \in T : Min(T) <= y
    BY Zenon, <1>1, LeastNatural
  <1>3. L # {}
    <2>1. PICK s \in Slots : slots[s].ts = Min(T)
      BY Zenon, <1>2
    <2>2. \A t \in Slots : slots[t].ts \in T
      BY Zenon
    <2>3. \A t \in Slots : slots[s].ts <= slots[t].ts
      BY Zenon, <1>2, <2>1, <2>2
    <2> QED
      BY Zenon, <2>3
  <1>4. L \in SUBSET Nat
    BY NetworkAssumption DEF Slots
  <1>5. Min(L) \in L
    BY Zenon, <1>3, <1>4, LeastNatural
  <1> QED
    BY <1>5 DEF LowestSlot

(* Where Network::handleConfigChunk() puts a part: in a slot of its update *)
(* if there is one, in a slot it takes over if not.                        *)
LEMMA SlotForIn ==
    ASSUME Types, NEW m \in net
    PROVE  /\ SlotFor(m) \in Slots
           /\ m.rev \notin Legacy /\ (\E s \in Slots : slots[s].id = m.id) =>
                slots[SlotFor(m)].id = m.id
  <1> DEFINE same == {s \in Slots : slots[s].id = m.id}
  <1>1. same \in SUBSET Nat
    BY NetworkAssumption DEF Slots
  <1>2. CASE same # {} /\ m.rev \notin Legacy
    <2>1. Min(same) \in same
      BY Zenon, <1>1, <1>2, LeastNatural
    <2>2. SlotFor(m) = Min(same)
      BY Zenon, <1>2 DEF SlotFor
    <2> QED
      BY <2>1, <2>2
  <1>3. CASE ~(same # {} /\ m.rev \notin Legacy)
    <2>1. SlotFor(m) = LowestSlot
      BY Zenon, <1>3 DEF SlotFor
    <2> QED
      BY <1>3, <2>1, LowestSlotIn DEF Types
  <1> QED
    BY <1>2, <1>3

(* Normal() keeps everything but the ts.                                   *)
LEMMA NormalKeeps ==
    ASSUME NEW f \in [Slots -> SlotType]
    PROVE  /\ Normal(f) \in [Slots -> SlotType]
           /\ \A s \in Slots : /\ Normal(f)[s].id = f[s].id
                               /\ Normal(f)[s].count = f[s].count
                               /\ Normal(f)[s].have = f[s].have
                               /\ Normal(f)[s].own = f[s].own
  <1> DEFINE T == {f[s].ts : s \in Slots}
  <1>1. \A s \in Slots : f[s].ts \in Nat
    BY DEF SlotType
  <1>2. T \in SUBSET Nat /\ T # {}
    <2>2. 1 \in Slots
      BY NetworkAssumption DEF Slots
    <2> QED
      BY <1>1, <2>2
  <1>3. Min(T) \in T /\ \A y \in T : Min(T) <= y
    BY Zenon, <1>2, LeastNatural
  <1>4. PICK low : low = Min(T)
    BY Zenon
  <1>5. low \in Nat /\ \A s \in Slots : f[s].ts - low \in Nat
    <2>1. low \in Nat /\ \A s \in Slots : low <= f[s].ts
      <3>1. \A s \in Slots : f[s].ts \in T
        BY Zenon
      <3> QED
        BY Zenon, <1>2, <1>3, <1>4, <3>1
    <2> QED
      BY <1>1, <2>1
  <1>6. Normal(f) = [s \in Slots |-> [f[s] EXCEPT !.ts = @ - low]]
    BY Zenon, <1>4 DEF Normal
  <1>7. ASSUME NEW s \in Slots
        PROVE  /\ Normal(f)[s] \in SlotType
               /\ Normal(f)[s].id = f[s].id /\ Normal(f)[s].count = f[s].count
               /\ Normal(f)[s].have = f[s].have /\ Normal(f)[s].own = f[s].own
    BY <1>5, <1>6 DEF SlotType
  <1> QED
    BY <1>6, <1>7

(* A random id is one that nobody remembers: there are ids enough.         *)
LEMMA FreshId ==
    ASSUME Types, Cardinality(InFlight) < MaxFlight
    PROVE  Min(Ids \ Remembered) \in Ids \ Remembered
  <1> DEFINE A == {slots[s].id : s \in Slots}
             C == {config.id, disk.id}
             f == [m \in net |-> m.id]
             g == [s \in Slots |-> slots[s].id]
  <1>1. IsFiniteSet(InFlight)
    <2>1. f \in Surjection(net, InFlight)
      BY Zenon DEF Surjection, InFlight
    <2> QED
      BY Zenon, <2>1, FS_Surjection DEF Types
  <1>2. IsFiniteSet(A) /\ Cardinality(A) <= NSlots
    <2>1. g \in Surjection(Slots, A)
      BY Zenon DEF Surjection
    <2>2. IsFiniteSet(Slots) /\ Cardinality(Slots) = NSlots
      BY NetworkAssumption, FS_Interval DEF Slots
    <2>3. IsFiniteSet(A) /\ Cardinality(A) <= Cardinality(Slots)
      BY Zenon, <2>1, <2>2, FS_Surjection
    <2> QED
      BY <2>2, <2>3
  <1>3. IsFiniteSet(C) /\ Cardinality(C) <= 2
    <2>1. IsFiniteSet({config.id}) /\ Cardinality({config.id}) = 1
      BY Zenon, FS_Singleton
    <2>2. C = {config.id} \cup {disk.id}
      OBVIOUS
    <2>3. /\ IsFiniteSet({config.id} \cup {disk.id})
          /\ Cardinality({config.id} \cup {disk.id}) =
                IF disk.id \in {config.id} THEN Cardinality({config.id}) ELSE Cardinality({config.id}) + 1
      BY Zenon, <2>1, FS_AddElement
    <2> HIDE DEF C
    <2> QED
      BY <2>1, <2>2, <2>3
  <1> HIDE DEF A, C
  <1>4. \A S, T : IsFiniteSet(S) /\ IsFiniteSet(T) =>
           IsFiniteSet(S \cup T) /\ Cardinality(S \cup T) <= Cardinality(S) + Cardinality(T)
    <2> SUFFICES ASSUME NEW S, NEW T, IsFiniteSet(S), IsFiniteSet(T)
                 PROVE  /\ IsFiniteSet(S \cup T)
                        /\ Cardinality(S \cup T) <= Cardinality(S) + Cardinality(T)
      BY Zenon
    <2>1. /\ IsFiniteSet(S \cup T)
          /\ Cardinality(S \cup T) = Cardinality(S) + Cardinality(T) - Cardinality(S \cap T)
      BY Zenon, FS_Union
    <2>2. Cardinality(S) \in Nat /\ Cardinality(T) \in Nat /\ Cardinality(S \cap T) \in Nat
      BY Zenon, FS_Intersection, FS_CardinalityType
    <2> QED
      BY <2>1, <2>2
  <1>5. Cardinality(InFlight) \in Nat /\ Cardinality(A) \in Nat /\ Cardinality(C) \in Nat
    BY <1>1, <1>2, <1>3, FS_CardinalityType
  <1>6. /\ IsFiniteSet(InFlight \cup A)
        /\ Cardinality(InFlight \cup A) <= Cardinality(InFlight) + Cardinality(A)
        /\ Cardinality(InFlight \cup A) \in Nat
    BY Zenon, <1>1, <1>2, <1>4, FS_CardinalityType
  <1>7. /\ IsFiniteSet((InFlight \cup A) \cup C)
        /\ Cardinality((InFlight \cup A) \cup C) <= Cardinality(InFlight \cup A) + Cardinality(C)
        /\ Cardinality((InFlight \cup A) \cup C) \in Nat
    BY Zenon, <1>3, <1>6, <1>4, FS_CardinalityType
  <1>8. Remembered = (InFlight \cup A) \cup C
    BY Zenon DEF Remembered, A, C
  <1>9. Cardinality(Remembered) < NSlots + MaxFlight + 2 /\ IsFiniteSet(Remembered)
    BY <1>2, <1>3, <1>5, <1>6, <1>7, <1>8, NetworkAssumption
  <1>10. IsFiniteSet(Ids) /\ Cardinality(Ids) = NSlots + MaxFlight + 2
    BY NetworkAssumption, FS_Interval DEF Ids
  <1>11. Ids \ Remembered # {}
    <2> SUFFICES ASSUME Ids \subseteq Remembered PROVE FALSE
      BY Zenon
    <2>1. Cardinality(Ids) <= Cardinality(Remembered)
      BY Zenon, <1>9, FS_Subset
    <2> QED
      BY <1>9, <1>10, <2>1, <1>7, <1>8, NetworkAssumption
  <1>12. Ids \ Remembered \in SUBSET Nat
    BY NetworkAssumption DEF Ids
  <1> QED
    BY Zenon, <1>11, <1>12, LeastNatural

-----------------------------------------------------------------------------
(* What a slot has of an update, once the slot is taken for it.            *)
LEMMA ReusedCounts ==
    ASSUME NEW m \in Parts, NEW x \in SlotType, Counted(x, m),
           NEW c, c = Reused([x EXCEPT !.ts = @ + 1], m)
    PROVE  /\ c \in SlotType /\ c.id = m.id /\ Counted(c, m)
           /\ c.have = IF x.id = m.id THEN x.have ELSE {}
  <1> DEFINE y == [x EXCEPT !.ts = @ + 1]
  <1>1. y \in SlotType /\ y.id = x.id /\ y.count = x.count /\ y.have = x.have /\ y.own = x.own
    BY DEF SlotType
  <1> HIDE DEF y
  <1>2. m.id \in Ids
    BY DEF Parts
  <1>3. CASE x.id = m.id
    <2>1. c = y
      BY <1>1, <1>3 DEF Reused, y
    <2> QED
      BY Zenon, <1>1, <1>3, <2>1 DEF Counted
  <1>4. CASE x.id # m.id
    <2>1. c = [y EXCEPT !.id = m.id, !.count = 0, !.have = {}, !.own = {}]
      BY <1>1, <1>4 DEF Reused, y
    <2>2. c \in SlotType /\ c.id = m.id /\ c.count = 0 /\ c.have = {} /\ c.own = {}
      <3>1. 0 \in Nat /\ {} \in SUBSET Nat /\ m.id \in Ids \cup {NoId}
        BY <1>2
      <3> QED
        BY Zenon, <1>1, <2>1, <3>1 DEF SlotType
    <2>3. Cardinality({}) = 0
      BY FS_EmptySet
    <2> QED
      BY Zenon, <1>4, <2>2, <2>3 DEF Counted
  <1> QED
    BY <1>3, <1>4

(* A part that is no duplicate keeps the count, and when the count is full *)
(* the bytes of every part are there: they cannot be others.               *)
LEMMA StoredCounts ==
    ASSUME NEW m \in Parts, NEW c \in SlotType, c.id = m.id, Counted(c, m),
           m.rev \notin Legacy => m.part \notin c.have,
           NEW d, d = Stored(c, m)
    PROVE  /\ d \in SlotType /\ d.id = m.id /\ Counted(d, m)
           /\ Complete(c, m) =>
                /\ 1..Size[m.rev] \subseteq d.own
                /\ m.rev \notin Legacy => 1..Size[m.rev] \subseteq d.have
  <1>1. /\ m.rev \in Revs /\ m.part \in 1..Size[m.rev] /\ Size[m.rev] \in Nat \ {0}
        /\ m.part \in Nat
    BY NetworkAssumption DEF Parts
  <1>2. c.count \in Nat /\ c.have \in SUBSET Nat /\ c.own \in SUBSET Nat
    BY DEF SlotType
  <1>3. CASE c.count >= MaxParts
    BY <1>2, <1>3, NetworkAssumption DEF Stored, Complete
  <1>4. CASE ~(c.count >= MaxParts)
    <2>1. d = [c EXCEPT !.count = @ + 1, !.have = @ \cup {m.part}, !.own = @ \cup {m.part}]
      BY <1>4 DEF Stored
    <2>2. /\ d \in SlotType /\ d.id = m.id
          /\ d.count = c.count + 1 /\ d.have = c.have \cup {m.part} /\ d.own = c.own \cup {m.part}
      <3>1. c.count + 1 \in Nat /\ c.have \cup {m.part} \in SUBSET Nat /\ c.own \cup {m.part} \in SUBSET Nat
        BY <1>1, <1>2
      <3> QED
        BY Zenon, <2>1, <3>1 DEF SlotType
    <2>3. IsFiniteSet(1..Size[m.rev]) /\ Cardinality(1..Size[m.rev]) = Size[m.rev]
      <3>1. PICK k \in Nat \ {0} : k = Size[m.rev]
        BY <1>1
      <3>2. IsFiniteSet(1..k) /\ Cardinality(1..k) = IF 1 > k THEN 0 ELSE k - 1 + 1
        BY FS_Interval
      <3> QED
        BY <3>1, <3>2
    <2>4. ASSUME m.rev \notin Legacy
          PROVE  /\ d.have \subseteq 1..Size[m.rev] /\ d.have \subseteq d.own
                 /\ d.count = Cardinality(d.have)
      <3>1. c.have \subseteq 1..Size[m.rev] /\ c.have \subseteq c.own
            /\ c.count = Cardinality(c.have) /\ m.part \notin c.have
        BY <2>4 DEF Counted
      <3>2. IsFiniteSet(c.have)
        BY Zenon, <2>3, <3>1, FS_Subset
      <3>3. Cardinality(c.have \cup {m.part}) = Cardinality(c.have) + 1
        BY Zenon, <3>1, <3>2, FS_AddElement
      <3> QED
        BY <1>1, <2>2, <3>1, <3>3
    <2>5. ASSUME Complete(c, m), m.rev \notin Legacy
          PROVE  d.have = 1..Size[m.rev]
      <3>1. Cardinality(d.have) = Size[m.rev]
        BY <1>2, <2>2, <2>4, <2>5 DEF Complete
      <3> QED
        BY Zenon, <2>3, <2>4, <2>5, <3>1, FS_Subset
    <2>6. ASSUME m.rev \in Legacy
          PROVE  1..Size[m.rev] \subseteq d.own
      <3>1. Size[m.rev] = 1
        BY <1>1, <2>6, NetworkAssumption
      <3> QED
        BY <1>1, <2>2, <3>1
    <2>7. Complete(c, m) => 1..Size[m.rev] \subseteq d.own
      BY Zenon, <2>4, <2>5, <2>6
    <2> QED
      BY <2>2, <2>4, <2>5, <2>7 DEF Counted
  <1> QED
    BY <1>3, <1>4

-----------------------------------------------------------------------------
(* Parts that arrive or are lost leave the others what they were.          *)
LEMMA FewerParts ==
    ASSUME ChunkInv, net' \in SUBSET net, UNCHANGED <<slots, applied>>
    PROVE  OneRev' /\ SlotsCounted' /\ AppliedHeld'
  <1>1. OneRev' /\ SlotsCounted'
    BY Zenon DEF ChunkInv, OneRev, SlotsCounted, Counted
  <1>2. \A c, i : HasAll(c, i) => HasAll(c, i)'
    BY DEF HasAll
  <1> QED
    BY <1>1, <1>2 DEF ChunkInv, AppliedHeld

(* An update that is sent is one no slot and no other part speaks of.      *)
LEMMA UpdateSent ==
    ASSUME ChunkInv, NEW r \in Revs, NEW a \in BOOLEAN, Cardinality(InFlight) < MaxFlight,
           net' = net \cup Update(r, a), UNCHANGED <<slots, applied>>
    PROVE  net' \in SUBSET Parts /\ IsFiniteSet(net') /\ OneRev' /\ SlotsCounted' /\ AppliedHeld'
  <1>1. PICK id : id = Min(Ids \ Remembered)
    BY Zenon
  <1>2. id \in Ids /\ id \notin Remembered
    BY Zenon, <1>1, FreshId DEF ChunkInv
  <1> DEFINE Msg(p) == [id |-> id, rev |-> r, part |-> p, answer |-> a]
             new == {Msg(p) : p \in 1..Size[r]}
  <1>3. Update(r, a) = new
    BY Zenon, <1>1 DEF Update
  <1>4. Size[r] \in Nat
    BY NetworkAssumption
  <1>5. ASSUME NEW n \in new PROVE n \in Parts /\ n.id = id /\ n.rev = r
    BY <1>2, <1>4 DEF Parts
  <1>6. IsFiniteSet(new)
    <2> DEFINE f == [p \in 1..Size[r] |-> Msg(p)]
    <2>1. f \in Surjection(1..Size[r], new)
      BY Zenon DEF Surjection
    <2>2. IsFiniteSet(1..Size[r])
      BY <1>4, FS_Interval
    <2> HIDE DEF f, new
    <2> QED
      BY Zenon, <2>1, <2>2, FS_Surjection
  <1> HIDE DEF new
  <1>7. net' \in SUBSET Parts /\ IsFiniteSet(net')
    BY Zenon, <1>3, <1>5, <1>6, FS_Union DEF ChunkInv, Types
  <1>8. \A n \in net : n.id # id
    BY <1>2 DEF Remembered, InFlight
  <1>9. \A s \in Slots : slots[s].id # id
    BY <1>2 DEF Remembered
  <1>10. OneRev'
    BY Zenon, <1>3, <1>5, <1>8 DEF ChunkInv, OneRev
  <1>11. SlotsCounted'
    BY Zenon, <1>3, <1>5, <1>9 DEF ChunkInv, SlotsCounted, Counted
  <1>12. AppliedHeld'
    <2> SUFFICES ASSUME NEW i \in applied PROVE \E s \in Slots : HasAll(slots[s], i)'
      BY DEF AppliedHeld
    <2>1. PICK s \in Slots : HasAll(slots[s], i)
      BY Zenon DEF ChunkInv, AppliedHeld
    <2>2. i # id
      BY Zenon, <1>9, <2>1 DEF HasAll
    <2>3. HasAll(slots[s], i)'
      BY Zenon, <1>3, <1>5, <2>1, <2>2 DEF HasAll
    <2> QED
      BY Zenon, <2>3
  <1> QED
    BY <1>7, <1>10, <1>11, <1>12

(* Network::handleConfigChunk(): the slot it fills keeps its count, what   *)
(* is complete is whole, and what has been applied and is still in its     *)
(* slot is only ever a duplicate.                                          *)
LEMMA ChunkKeeps ==
    ASSUME ChunkInv, NEW m \in net, HandleConfigChunk(m), net' \in SUBSET net
    PROVE  /\ slots' \in [Slots -> SlotType] /\ config' \in Configs /\ disk' \in Configs
           /\ OneRev' /\ SlotsCounted' /\ AppliedHeld' /\ ReplayStep
  <1>1. CASE ~joined \/ Duplicate(m)
    <2>1. UNCHANGED <<slots, applied, config, disk>>
      BY <1>1 DEF HandleConfigChunk, node
    <2> QED
      BY <2>1, FewerParts DEF ChunkInv, Types, ReplayStep
  <1>2. CASE ~(~joined \/ Duplicate(m))
    <2>1. PICK s \in Slots : s = SlotFor(m)
      BY SlotForIn DEF ChunkInv
    <2>2. PICK c : c = Reused([slots[s] EXCEPT !.ts = @ + 1], m)
      BY Zenon
    <2>3. PICK d : d = Stored(c, m)
      BY Zenon
    <2>4. /\ slots' = Normal([slots EXCEPT ![s] = d])
          /\ IF Complete(c, m)
               THEN SetConfiguration(Assembled(d, m))
               ELSE UNCHANGED <<config, failure, due, disk>>
          /\ applied' = (applied \ {slots[s].id})
                        \cup (IF Complete(c, m) \/ c.id \in applied THEN {m.id} ELSE {})
      BY Zenon, <1>2, <2>1, <2>2, <2>3 DEF HandleConfigChunk
    <2>5. m \in Parts /\ slots[s] \in SlotType /\ Counted(slots[s], m)
      BY DEF ChunkInv, Types, SlotsCounted
    <2>6. /\ c \in SlotType /\ c.id = m.id /\ Counted(c, m)
          /\ c.have = IF slots[s].id = m.id THEN slots[s].have ELSE {}
      <3>1. PICK x : x = slots[s]
        BY Zenon
      <3>2. x \in SlotType /\ Counted(x, m) /\ c = Reused([x EXCEPT !.ts = @ + 1], m)
        BY Zenon, <2>2, <2>5, <3>1
      <3>3. /\ c \in SlotType /\ c.id = m.id /\ Counted(c, m)
            /\ c.have = IF x.id = m.id THEN x.have ELSE {}
        BY <2>5, <3>2, ReusedCounts
      <3> QED
        BY Zenon, <3>1, <3>3
    <2>7. m.rev \notin Legacy => m.part \notin c.have
      BY Zenon, <1>2, <2>6 DEF Duplicate
    <2>8. /\ d \in SlotType /\ d.id = m.id /\ Counted(d, m)
          /\ Complete(c, m) =>
                /\ 1..Size[m.rev] \subseteq d.own
                /\ m.rev \notin Legacy => 1..Size[m.rev] \subseteq d.have
      BY Zenon, <2>3, <2>5, <2>6, <2>7, StoredCounts
    <2>9. PICK f : f = [slots EXCEPT ![s] = d]
      BY Zenon
    <2>10. f \in [Slots -> SlotType] /\ f[s] = d /\ \A t \in Slots \ {s} : f[t] = slots[t]
      BY <2>8, <2>9 DEF ChunkInv, Types
    <2>11. /\ slots' \in [Slots -> SlotType]
           /\ \A t \in Slots : /\ slots'[t].id = f[t].id /\ slots'[t].count = f[t].count
                               /\ slots'[t].have = f[t].have /\ slots'[t].own = f[t].own
      BY Zenon, <2>4, <2>9, <2>10, NormalKeeps
    <2>12. \A n \in net' : n \in net /\ (n.id = m.id => n.rev = m.rev)
      BY Zenon DEF ChunkInv, OneRev
    <2>13. OneRev'
      BY Zenon DEF ChunkInv, OneRev
    <2>14. ASSUME NEW t \in Slots, NEW n \in net' PROVE Counted(slots'[t], n)
      <3>1. Counted(f[t], n)
        <4>1. CASE t = s
          BY <2>8, <2>10, <2>12, <4>1 DEF Counted
        <4>2. CASE t # s
          BY Zenon, <2>10, <2>12, <4>2 DEF ChunkInv, SlotsCounted
        <4> QED
          BY <4>1, <4>2
      <3> QED
        BY Zenon, <2>11, <3>1 DEF Counted
    <2>15. SlotsCounted'
      BY Zenon, <2>14 DEF SlotsCounted, Counted
    <2>16. m.id \in applied => m.rev \in Legacy
      <3> SUFFICES ASSUME m.id \in applied, m.rev \notin Legacy PROVE FALSE
        BY Zenon
      <3>1. PICK t \in Slots : HasAll(slots[t], m.id)
        BY Zenon DEF ChunkInv, AppliedHeld
      <3>2. slots[t].id = m.id /\ m.part \in slots[t].have
        BY <2>5, <3>1 DEF HasAll, Parts
      <3> QED
        BY Zenon, <1>2, <3>2 DEF Duplicate
    <2>17. ASSUME NEW i \in applied' PROVE \E t \in Slots : HasAll(slots[t], i)'
      <3>1. CASE i = m.id
        <4>1. Complete(c, m) \/ m.rev \in Legacy
          BY Zenon, <2>4, <2>6, <2>16, <2>17, <3>1
        <4>2. \A n \in net' : n.id = i /\ n.rev \notin Legacy => 1..Size[n.rev] \subseteq slots'[s].have
          BY Zenon, <2>8, <2>10, <2>11, <2>12, <3>1, <4>1
        <4>3. slots'[s].id = i
          BY Zenon, <2>8, <2>10, <2>11, <3>1
        <4>4. HasAll(slots[s], i)'
          BY Zenon, <4>2, <4>3 DEF HasAll
        <4> QED
          BY Zenon, <4>4
      <3>2. CASE i # m.id
        <4>1. i \in applied /\ i # slots[s].id
          BY Zenon, <2>4, <2>17, <3>2
        <4>2. PICK t \in Slots : HasAll(slots[t], i)
          BY Zenon, <4>1 DEF ChunkInv, AppliedHeld
        <4>3. t # s
          BY Zenon, <4>1, <4>2 DEF HasAll
        <4>4. slots'[t].id = slots[t].id /\ slots'[t].have = slots[t].have
          BY Zenon, <2>10, <2>11, <4>3
        <4>5. HasAll(slots[t], i)'
          BY Zenon, <2>12, <4>2, <4>4 DEF HasAll
        <4> QED
          BY Zenon, <4>5
      <3> QED
        BY <3>1, <3>2
    <2>18. AppliedHeld'
      BY Zenon, <2>17 DEF AppliedHeld
    <2>19. ASSUME Complete(c, m) PROVE Assembled(d, m) = [id |-> m.id, rev |-> m.rev, whole |-> TRUE]
      BY Zenon, <2>8, <2>19 DEF Assembled
    <2>20. config' \in Configs /\ disk' \in Configs
      <3>1. CASE Complete(c, m)
        <4>1. Assembled(d, m) \in Configs
          <5>1. m.id \in Ids \cup {NoId} /\ m.rev \in Revs
            BY <2>5 DEF Parts
          <5>2. [id |-> m.id, rev |-> m.rev, whole |-> TRUE] \in Configs
            BY <5>1 DEF Configs
          <5> QED
            BY Zenon, <2>19, <3>1, <5>2
        <4> QED
          BY Zenon, <2>4, <3>1, <4>1 DEF SetConfiguration, ChunkInv, Types
      <3>2. CASE ~Complete(c, m)
        BY <2>4, <3>2 DEF ChunkInv, Types
      <3> QED
        BY <3>1, <3>2
    <2>21. ReplayStep
      <3> SUFFICES ASSUME config'.id \in applied, config'.rev \notin Legacy PROVE config' = config
        BY Zenon DEF ReplayStep
      <3>1. CASE Complete(c, m) /\ config' # config
        <4>1. config' = [id |-> m.id, rev |-> m.rev, whole |-> TRUE]
          BY Zenon, <2>4, <2>19, <3>1 DEF SetConfiguration
        <4>2. config'.id = m.id /\ config'.rev = m.rev
          BY Zenon, <4>1
        <4> QED
          BY Zenon, <2>16, <4>2
      <3>2. CASE ~Complete(c, m)
        BY Zenon, <2>4, <3>2
      <3> QED
        BY Zenon, <3>1, <3>2
    <2> QED
      BY <2>11, <2>13, <2>15, <2>18, <2>20, <2>21
  <1> QED
    BY <1>1, <1>2

(* The constructor of Network leaves the slots empty.                      *)
LEMMA ConstructKeeps ==
    ASSUME ChunkInv, NEW c \in Configs, Construct(c), UNCHANGED <<ctrl, net>>
    PROVE  ChunkInv' /\ ReplayStep
  <1>1. Empty \in SlotType /\ Empty.id = NoId
    BY DEF Empty, SlotType
  <1>2. slots' \in [Slots -> SlotType] /\ \A s \in Slots : slots'[s] = Empty
    BY <1>1 DEF Construct
  <1>3. Types'
    BY <1>2 DEF ChunkInv, Types, Construct, ctrl
  <1>4. \A m \in net : m.id # NoId
    BY NetworkAssumption DEF ChunkInv, Types, Parts, Ids, NoId
  <1>5. SlotsCounted'
    BY Zenon, <1>1, <1>2, <1>4 DEF SlotsCounted, Counted
  <1>6. OneRev' /\ AppliedHeld' /\ ReplayStep
    BY Zenon DEF ChunkInv, OneRev, AppliedHeld, ReplayStep, Construct
  <1> QED
    BY <1>3, <1>5, <1>6 DEF ChunkInv

(* The first state: nothing is in flight and no slot is in use.            *)
LEMMA InitIInv == Init => ChunkInv
  <1> SUFFICES ASSUME Init PROVE ChunkInv
    OBVIOUS
  <1>1. Empty \in SlotType /\ NoConfig \in Configs
    BY NetworkAssumption DEF Empty, SlotType, NoConfig, Configs, Revs
  <1>2. Types
    BY <1>1, FS_EmptySet, NetworkAssumption DEF Init, Types, Revs
  <1> QED
    BY Zenon, <1>2 DEF ChunkInv, Init, OneRev, SlotsCounted, AppliedHeld

(* Every step preserves the invariant and brings nothing back, one case    *)
(* per action of Next.                                                     *)
LEMMA NextIInv ==
    ASSUME ChunkInv, [Next]_vars
    PROVE  ChunkInv' /\ ReplayStep
  <1> USE DEF node, ctrl
  <1>1. ASSUME NEW v \in Verdicts, Change(v) PROVE ChunkInv' /\ ReplayStep
    <2>1. rev + 1 \in Revs /\ changes + 1 \in Revs
      BY <1>1, NetworkAssumption DEF ChunkInv, Types, Change, Revs
    <2>2. UNCHANGED <<slots, config, disk, applied>> /\ rev' = rev + 1 /\ changes' = changes + 1
          /\ Cardinality(InFlight) < MaxFlight
      BY <1>1 DEF Change
    <2>3. net' \in SUBSET Parts /\ IsFiniteSet(net') /\ OneRev' /\ SlotsCounted' /\ AppliedHeld'
      <3>1. CASE v = "ok"
        BY Zenon, <1>1, <2>1, <2>2, <3>1, UpdateSent DEF Change
      <3>2. CASE v # "ok"
        BY Zenon, <1>1, <2>2, <3>2, FewerParts DEF Change, ChunkInv, Types
      <3> QED
        BY <3>1, <3>2
    <2> QED
      BY <2>1, <2>2, <2>3 DEF ChunkInv, Types, ReplayStep
  <1>2. CASE Request
    <2>1. UNCHANGED <<slots, config, disk, applied, rev, changes>> /\ Cardinality(InFlight) < MaxFlight
      BY <1>2 DEF Request
    <2>2. net' \in SUBSET Parts /\ IsFiniteSet(net') /\ OneRev' /\ SlotsCounted' /\ AppliedHeld'
      <3>1. CASE verdict = "ok"
        BY Zenon, <1>2, <2>1, <3>1, UpdateSent DEF Request, ChunkInv, Types
      <3>2. CASE verdict # "ok"
        BY Zenon, <1>2, <2>1, <3>2, FewerParts DEF Request, ChunkInv, Types
      <3> QED
        BY <3>1, <3>2
    <2> QED
      BY <2>1, <2>2 DEF ChunkInv, Types, ReplayStep
  <1>3. ASSUME NEW m \in net, RecvChunk(m) PROVE ChunkInv' /\ ReplayStep
    <2>1. net' \in SUBSET net /\ HandleConfigChunk(m) /\ UNCHANGED <<rev, changes>>
      BY <1>3 DEF RecvChunk
    <2>2. IsFiniteSet(net')
      BY Zenon, <2>1, FS_Subset DEF ChunkInv, Types
    <2> QED
      BY <2>1, <2>2, ChunkKeeps DEF ChunkInv, Types
  <1>4. CASE Lose
    <2>1. net' \in SUBSET net /\ UNCHANGED <<slots, config, disk, applied, rev, changes>>
      BY <1>4 DEF Lose
    <2>2. IsFiniteSet(net')
      BY Zenon, <2>1, FS_Subset DEF ChunkInv, Types
    <2> QED
      BY <2>1, <2>2, FewerParts DEF ChunkInv, Types, ReplayStep
  <1>5. CASE Age \/ (\E e \in errors : RecvError(e)) \/ UNCHANGED vars
    <2>1. UNCHANGED <<slots, config, disk, applied, rev, changes, net>>
      BY <1>5 DEF Age, RecvError, vars
    <2> QED
      BY <2>1, FewerParts DEF ChunkInv, Types, ReplayStep
  <1>6. CASE Restart \/ Leave \/ Join
    <2>1. NoConfig \in Configs /\ disk \in Configs
      <3>1. 0 \in Revs
        BY NetworkAssumption DEF Revs
      <3> QED
        BY Zenon, <3>1 DEF ChunkInv, Types, NoConfig, Configs
    <2>2. (\E c \in Configs : Construct(c)) /\ UNCHANGED <<ctrl, net>>
      BY <1>6, <2>1, Zenon DEF Restart, Leave, Join, StateObjectGet
    <2> QED
      BY Zenon, <2>2, ConstructKeeps
  <1> QED
    BY Zenon, <1>1, <1>2, <1>3, <1>4, <1>5, <1>6 DEF Next, Deliver

(* What Network::setConfiguration() is given is all of one update, however *)
(* its parts were lost, doubled and mixed with those of others.            *)
THEOREM AlwaysAssembledWhole == Spec => []AssembledWhole
  <1>1. ChunkInv => AssembledWhole
    BY Zenon DEF ChunkInv, Types, Configs, AssembledWhole
  <1> QED
    BY <1>1, InitIInv, NextIInv, PTL DEF Spec

(* handleConfigChunk() applies no signed update again after a newer one    *)
(* while its slot is still its own.                                        *)
THEOREM NeverReplayed == Spec => NoReplay
  <1> DEFINE A == ReplayStep
  <1>1. ChunkInv /\ [Next]_vars => A
    BY NextIInv
  <1> HIDE DEF A
  <1>2. Spec => [][A]_vars
    BY <1>1, InitIInv, NextIInv, PTL DEF Spec
  <1> QED
    BY <1>2 DEF A, NoReplay

-----------------------------------------------------------------------------
(* Updater!ImageSound for any set of releases of any lengths, any length   *)
(* of chunks, and any number of messages, losses, duplicates and restarts. *)
(* Besides the property, the invariant says what a message can name: a     *)
(* release, and an index into it.                                          *)

MailOK(mails) ==
    \A m \in mails :
        /\ m.verb \in {"LATEST", "GET_DATA", "DATA"} => m.rel \in Releases
        /\ m.verb \in {"GET_DATA", "DATA"} => m.idx \in Nat

MailInv ==
    /\ dist \subseteq Releases
    /\ latestMeta \in Releases \cup {None}
    /\ download \in Seq(Releases \X Nat)
    /\ downloadLength \in Nat
    /\ latestValid \in BOOLEAN
    /\ MailOK(mail)
    /\ ImageSound

(* What the operators on messages send is as MailOK says.                  *)
LEMMA SentOK ==
    ASSUME NEW r \in Releases, NEW n \in Nat, NEW v
    PROVE  MailOK({GetLatest(v)}) /\ MailOK({Latest(r)})
           /\ MailOK({GetData(r, n)}) /\ MailOK({Data(r, n)})
  BY DEF MailOK, GetLatest, Latest, GetData, Data

(* Mail is taken or joined without harm.                                   *)
LEMMA MailUnion ==
    ASSUME NEW M, NEW N, MailOK(M), MailOK(N), NEW L \in SUBSET (M \cup N)
    PROVE  MailOK(L)
  BY DEF MailOK

(* GET_LATEST names no release.                                            *)
LEMMA AsksOK == MailOK(Asks)
  BY DEF MailOK, Asks, GetLatest

(* A delivery leaves what was there and the answers.                       *)
LEMMA DeliveredOK ==
    ASSUME MailOK(mail), NEW m, NEW answers, MailOK(answers), Delivered(m, answers)
    PROVE  MailOK(mail')
  BY MailUnion DEF Delivered

(* A chunk that begins where the download ends makes it a longer beginning *)
(* of the same binary, and none longer than it.                            *)
LEMMA ChunkContinues ==
    ASSUME Chunk \in Nat \ {0}, NEW r \in Releases, r.len \in Nat,
           NEW s \in Seq(Releases \X Nat), Len(s) <= r.len,
           \A i \in 1..Len(s) : s[i] = <<r, i>>
    PROVE  LET t == s \o ChunkAt(r, Len(s)) IN
           /\ t \in Seq(Releases \X Nat)
           /\ Len(t) <= r.len
           /\ \A i \in 1..Len(t) : t[i] = <<r, i>>
  <1> DEFINE c == ChunkAt(r, Len(s))
             n == ChunkUnits(r, Len(s))
  <1>1. n \in Nat /\ Len(s) \in Nat /\ Len(s) + n <= r.len
    BY DEF ChunkUnits
  <1>2. c = [i \in 1..n |-> <<r, Len(s) + i>>]
    BY DEF ChunkAt
  <1>3. c \in Seq(Releases \X Nat) /\ Len(c) = n
    <2> HIDE DEF n
    <2> QED BY <1>1, <1>2
  <1>4. \A i \in 1..n : c[i] = <<r, Len(s) + i>>
    BY <1>2
  <1> HIDE DEF c, n
  <1>5. /\ s \o c \in Seq(Releases \X Nat)
        /\ Len(s \o c) = Len(s) + n
        /\ \A i \in 1..(Len(s) + n) : (s \o c)[i] = IF i <= Len(s) THEN s[i] ELSE c[i - Len(s)]
    BY <1>3, ConcatProperties, Zenon
  <1>6. ASSUME NEW i \in 1..(Len(s) + n) PROVE (s \o c)[i] = <<r, i>>
    <2>1. CASE i <= Len(s)
      BY <1>1, <1>5, <2>1
    <2>2. CASE i > Len(s)
      <3>1. i - Len(s) \in 1..n /\ Len(s) + (i - Len(s)) = i
        BY <1>1, <2>2
      <3>2. (s \o c)[i] = c[i - Len(s)]
        BY <1>1, <1>5, <2>2
      <3>3. c[i - Len(s)] = <<r, Len(s) + (i - Len(s))>>
        BY <1>4, <3>1
      <3> QED BY <3>1, <3>2, <3>3, Zenon
    <2>3. i <= Len(s) \/ i > Len(s)
      BY <1>1
    <2> QED BY Zenon, <2>1, <2>2, <2>3
  <1> QED BY <1>1, <1>5, <1>6 DEF c

(* An empty download.                                                      *)
LEMMA NothingOK == <<>> \in Seq(Releases \X Nat) /\ Len(<<>>) = 0
  OBVIOUS

(* A process begins with an empty download.                                *)
LEMMA Initially == UpdaterInit => MailInv
  <1> HAVE UpdaterInit
  <1>1. ImageSound
    BY DEF UpdaterInit, ImageSound
  <1>2. MailOK(mail)
    BY DEF UpdaterInit, MailOK
  <1> QED BY Zenon, <1>1, <1>2, NothingOK DEF UpdaterInit, MailInv

(* A new process has nothing of an update.                                 *)
LEMMA ConstructedOK ==
    ASSUME Constructed, dist' \subseteq Releases, MailOK(mail')
    PROVE  MailInv'
  <1>1. ImageSound'
    BY DEF Constructed, ImageSound
  <1> QED BY Zenon, <1>1, NothingOK DEF Constructed, MailInv

(* Steps that leave what the node has of an update alone.                  *)
LEMMA LeftAlone ==
    ASSUME MailInv, dist' \subseteq Releases, MailOK(mail'),
           UNCHANGED <<version, latestMeta, latestValid, download, hashPrefix,
                       downloadLength, binFile>>
    PROVE  MailInv'
  BY DEF MailInv, ImageSound

(* The update service names releases it has.                               *)
LEMMA ServiceKeeps ==
    ASSUME MailInv, NEW m \in mail, ServiceGets(m)
    PROVE  MailInv'
  <1>1. ASSUME NEW a \in Answers(m) PROVE MailOK({a})
    <2>1. CASE m.verb = "GET_LATEST"
      BY Zenon, <2>1, SentOK DEF Answers, BestFor, MailInv
    <2>2. CASE m.verb = "GET_DATA"
      <3>1. m.idx \in Nat
        BY <2>2 DEF MailInv, MailOK
      <3> QED BY Zenon, <2>2, <3>1, SentOK DEF Answers, MailInv
    <2> QED BY <2>1, <2>2 DEF ServiceGets
  <1>2. MailOK({})
    BY DEF MailOK
  <1>3. MailOK(mail')
    BY Zenon, <1>1, <1>2, DeliveredOK DEF ServiceGets, MailInv
  <1> QED BY <1>3, LeftAlone DEF ServiceGets, service, process, MailInv

(* LATEST, at the node: a newer release starts the download anew.          *)
LEMMA LatestKeeps ==
    ASSUME \A r \in Releases : r.len \in Nat,
           MailInv, NEW m \in mail, NodeGetsLatest(m)
    PROVE  MailInv'
  <1> DEFINE r == m.rel
             heard == Newer(r.ver, version) /\ r.len <= MaxSize
             answers == IF heard THEN NextChunk(hashPrefix', Len(download'), downloadLength') ELSE {}
  <1>1. r \in Releases /\ r.len \in Nat
    BY DEF MailInv, MailOK, NodeGetsLatest
  <1>2. UNCHANGED <<dist, version>>
    BY DEF NodeGetsLatest, service
  <1>3. CASE heard /\ latestMeta # r
    <2>1. /\ latestMeta' = r /\ latestValid' = FALSE
          /\ download' = <<>> /\ hashPrefix' = r /\ downloadLength' = r.len
      BY <1>3 DEF NodeGetsLatest
    <2>2. ImageSound'
      BY <1>1, <1>2, <1>3, <2>1 DEF ImageSound, None
    <2>3. answers \subseteq {GetData(r, 0)} /\ Delivered(m, answers)
      BY <1>3, <2>1 DEF NodeGetsLatest, NextChunk
    <2>4. MailOK(mail')
      <3>1. MailOK(answers)
        BY Zenon, <1>1, <2>3, SentOK DEF MailOK
      <3> HIDE DEF answers
      <3> QED BY <2>3, <3>1, DeliveredOK DEF MailInv
    <2> QED BY Zenon, <1>1, <1>2, <2>1, <2>2, <2>4, NothingOK DEF MailInv
  <1>4. CASE ~(heard /\ latestMeta # r)
    <2>1. UNCHANGED <<latestMeta, latestValid, binFile, download, hashPrefix, downloadLength>>
      BY <1>4 DEF NodeGetsLatest
    <2>2. Delivered(m, answers)
      BY DEF NodeGetsLatest
    <2>3. MailOK(answers)
      <3>1. CASE answers = {}
        BY <3>1 DEF MailOK
      <3>2. CASE answers # {}
        <4>1. Len(download) < downloadLength /\ answers = {GetData(hashPrefix, Len(download))}
          BY <2>1, <3>2 DEF NextChunk
        <4>2. hashPrefix \in Releases /\ Len(download) \in Nat
          BY <4>1 DEF MailInv, ImageSound
        <4> QED BY Zenon, <4>1, <4>2, SentOK
      <3> QED BY <3>1, <3>2
    <2>4. MailOK(mail')
      <3> HIDE DEF answers
      <3> QED BY <2>2, <2>3, DeliveredOK DEF MailInv
    <2> QED BY <1>2, <2>1, <2>4, LeftAlone DEF MailInv
  <1> QED BY <1>3, <1>4

(* DATA, at the node: only the chunk that continues the download counts.   *)
LEMMA DataKeeps ==
    ASSUME Chunk \in Nat \ {0}, \A r \in Releases : r.len \in Nat,
           MailInv, NEW m \in mail, NodeGetsData(m)
    PROVE  MailInv'
  <1> DEFINE expected == /\ Receivable(m)
                         /\ downloadLength > 0 /\ hashPrefix = m.rel
                         /\ m.idx = Len(download)
             answers == IF expected THEN NextChunk(hashPrefix, Len(download'), downloadLength) ELSE {}
  <1>1. UNCHANGED <<dist, version, latestMeta, latestValid, hashPrefix, downloadLength, binFile>>
    BY DEF NodeGetsData, service
  <1>2. Delivered(m, answers)
    BY DEF NodeGetsData
  <1>3. CASE expected
    <2>1. /\ latestMeta \in Releases /\ latestMeta.len \in Nat /\ m.rel = latestMeta
          /\ downloadLength = latestMeta.len /\ Len(download) <= latestMeta.len
          /\ download \in Seq(Releases \X Nat)
          /\ \A i \in 1..Len(download) : download[i] = <<latestMeta, i>>
      BY <1>3 DEF MailInv, ImageSound
    <2>2. download' = download \o ChunkAt(latestMeta, Len(download))
      BY <1>3, <2>1 DEF NodeGetsData
    <2>3. /\ download' \in Seq(Releases \X Nat)
          /\ Len(download') <= latestMeta.len
          /\ \A i \in 1..Len(download') : download'[i] = <<latestMeta, i>>
      BY Zenon, <2>1, <2>2, ChunkContinues
    <2>4. MailOK(answers)
      <3>1. answers \subseteq {GetData(latestMeta, Len(download'))}
        BY <1>3, <2>1 DEF NextChunk
      <3>2. Len(download') \in Nat
        BY <2>3
      <3> QED BY Zenon, <2>1, <3>1, <3>2, SentOK DEF MailOK
    <2>5. MailOK(mail')
      <3> HIDE DEF answers
      <3> QED BY <1>2, <2>4, DeliveredOK DEF MailInv
    <2>6. ImageSound'
      BY <1>1, <2>1, <2>3 DEF MailInv, ImageSound
    <2> QED BY <1>1, <2>3, <2>5, <2>6 DEF MailInv
  <1>4. CASE ~expected
    <2>1. download' = download /\ Delivered(m, {})
      BY <1>4 DEF NodeGetsData
    <2>2. MailOK({})
      BY DEF MailOK
    <2>3. MailOK(mail')
      BY <2>1, <2>2, DeliveredOK DEF MailInv
    <2> QED BY <1>1, <2>1, <2>3, LeftAlone DEF MailInv
  <1> QED BY <1>3, <1>4

(* check(), which asks again, gives up or writes the image.                *)
LEMMA CheckKeeps ==
    ASSUME \A r \in Releases : r.len \in Nat, MailInv, Check
    PROVE  MailInv'
  <1>0. UNCHANGED dist
    BY DEF Check, CheckIdle, CheckDownload, CheckComplete, service
  <1>1. CASE CheckIdle
    <2>1. MailOK(mail')
      BY <1>1, AsksOK, MailUnion DEF CheckIdle, MailInv
    <2> QED BY <1>0, <1>1, <2>1, LeftAlone DEF CheckIdle, MailInv
  <1>2. CASE CheckDownload
    <2>1. hashPrefix \in Releases /\ Len(download) \in Nat
      BY <1>2 DEF CheckDownload, MailInv, ImageSound
    <2>2. MailOK(mail \cup Asks)
      BY AsksOK, MailUnion DEF MailInv
    <2>3. MailOK({GetData(hashPrefix, Len(download))})
      BY Zenon, <2>1, SentOK
    <2>4. MailOK(mail')
      BY <1>2, <2>2, <2>3, MailUnion DEF CheckDownload
    <2> QED BY <1>0, <1>2, <2>4, LeftAlone DEF CheckDownload, MailInv
  <1>3. CASE CheckComplete
    <2>1. MailOK(mail')
      BY <1>3, AsksOK, MailUnion DEF CheckComplete, MailInv
    <2>2. CASE Apply(download)
      BY <1>0, <2>1, <2>2, ConstructedOK DEF Apply, MailInv
    <2>3. CASE /\ Verified
               /\ latestValid' = TRUE /\ binFile' = download
               /\ download' = <<>> /\ downloadLength' = 0
               /\ UNCHANGED <<version, latestMeta, hashPrefix, mishaps>>
      <3>1. latestMeta # None
        BY <1>3 DEF CheckComplete, MailInv, ImageSound
      <3>2. ImageSound'
        BY <2>3, <3>1 DEF MailInv, ImageSound, Verified, Binary
      <3> QED BY <1>0, <2>1, <2>3, <3>2, NothingOK DEF MailInv
    <2>4. CASE /\ latestMeta' = None /\ latestValid' = FALSE /\ binFile' = NoFile
               /\ download' = <<>> /\ downloadLength' = 0
      <3>1. ImageSound'
        BY <2>4 DEF ImageSound
      <3> QED BY Zenon, <1>0, <2>1, <2>4, <3>1, NothingOK DEF MailInv
    <2> QED BY Zenon, <1>3, <2>2, <2>3, <2>4 DEF CheckComplete
  <1> QED BY <1>1, <1>2, <1>3 DEF Check

(* Every step preserves the invariant.                                     *)
LEMMA NextKeeps ==
    ASSUME Chunk \in Nat \ {0}, \A r \in Releases : r.len \in Nat,
           MailInv, [UpdaterNext]_updaterVars
    PROVE  MailInv'
  <1>1. ASSUME NEW files \in SUBSET Releases, SetUpdateDistribution(files)
        PROVE  MailInv'
    BY <1>1, LeftAlone DEF SetUpdateDistribution, process, MailInv
  <1>2. ASSUME NEW verb \in Verbs, MailArrives(verb)
        PROVE  MailInv'
    BY <1>2, ServiceKeeps, LatestKeeps, DataKeeps DEF MailArrives
  <1>3. CASE Check
    BY <1>3, CheckKeeps
  <1>4. CASE CheckAges
    BY <1>4, LeftAlone DEF CheckAges, service, MailInv
  <1>5. CASE NewProcess
    BY <1>5, ConstructedOK DEF NewProcess, service, MailInv
  <1>6. CASE MailLost
    <2>1. MailOK(mail')
      BY <1>6, MailUnion DEF MailLost, MailInv
    <2> QED BY <1>6, <2>1, LeftAlone DEF MailLost, service, process, MailInv
  <1>7. CASE UNCHANGED updaterVars
    BY <1>7, LeftAlone DEF updaterVars, service, process, MailInv
  <1> QED BY <1>1, <1>2, <1>3, <1>4, <1>5, <1>6, <1>7 DEF UpdaterNext

(* However chunks and announcements are lost, repeated or late, what the   *)
(* SoftwareUpdater has downloaded is a beginning of the release announced, *)
(* what it declares valid is the whole of a signed one, and both are newer *)
(* than what runs.                                                         *)
THEOREM ImageAlwaysSound ==
    ASSUME Chunk \in Nat \ {0}, \A r \in Releases : r.len \in Nat
    PROVE  UpdaterSpec => []ImageSound
  <1>1. UpdaterInit => MailInv
    BY Initially
  <1>2. MailInv /\ [UpdaterNext]_updaterVars => MailInv'
    BY NextKeeps
  <1>3. MailInv => ImageSound
    BY DEF MailInv
  <1> QED BY <1>1, <1>2, <1>3, PTL DEF UpdaterSpec
=============================================================================
