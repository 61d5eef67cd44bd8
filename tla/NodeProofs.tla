----------------------------- MODULE NodeProofs -----------------------------
(***************************************************************************)
(* Proofs about the parts of a node that share no state with the switch:   *)
(* the worlds it orbits, the packets it expects replies to, the fragments  *)
(* it cuts its packets into.                                               *)
(***************************************************************************)
EXTENDS Topology, Replies, Fragmenter, TLAPS

-----------------------------------------------------------------------------
(* What Topology.tla's runs check on one moon and two threads, for any     *)
(* worlds, addresses and threads.  The invariant follows an orbit() from   *)
(* the call through the seed, the file and the moon, and says what the     *)
(* files hold that a restart reads.                                        *)

Planets == {w \in Worlds \cup {DefaultPlanet} : w.type = "planet"}
Moons == {w \in Worlds : w.type = "moon"}

(* The calls a thread can be in; what an orbit() carries is wanted.        *)
CallOK(c, want) ==
    \/ c = NoCall
    \/ /\ c \in [op : {"addWorld"}, w : Worlds, always : BOOLEAN]
       /\ c.always => c.w \in Moons /\ c.w.id \in want
    \/ c \in [op : {"seed"}, id : want, seed : Seeds]
    \/ c \in [op : {"removeMoon"}, id : MoonIds]
    \/ c \in [op : {"doPeriodicTasks", "getUpstreamPeer"}]

CallsOK ==
    /\ calls = [t \in Callers |-> calls[t]]
    /\ \A t \in Callers : CallOK(calls[t], wanted)

WorldsOK ==
    /\ planet \in Planets
    /\ moons \subseteq Moons
    /\ \A m \in moons : m.id \in wanted
    /\ \A s \in moonSeeds : s[1] \in wanted

(* A file has what belongs there, or nothing that can be read.  One that   *)
(* was written well has the world in force, and a moon that can be read    *)
(* back after a crash is in force.                                         *)
FilesOK ==
    /\ files \in [Files -> Planets \cup Moons \cup {Garbage, Null}]
    /\ files[PlanetFile].type # "moon"
    /\ \A i \in MoonIds :
         /\ files[i].type # "planet"
         /\ files[i].type = "moon" => files[i].id = i
         /\ files[i].type = "moon" /\ embedder # "OneService" => \E m \in moons : m.id = i
    /\ PlanetFile \notin unsaved => files[PlanetFile] = planet
    /\ \A m \in moons : Lasting(m.id) => files[m.id] = m

OrbitInv == UpstreamsExact /\ CallsOK /\ WorldsOK /\ FilesOK

-----------------------------------------------------------------------------
(* Worlds and where they are stored.                                       *)
LEMMA PlanetFacts ==
    ASSUME NEW p \in Planets
    PROVE  p.type = "planet" /\ p.id \in Nat \ {0} /\ p.ts \in Nat /\ FileOf(p) = PlanetFile
  BY TopologyAssumption DEF Planets, FileOf

(* What a moon is, and where it is kept.                                   *)
LEMMA MoonFacts ==
    ASSUME NEW m \in Moons
    PROVE  /\ m.type = "moon" /\ m.id \in Nat \ {0} /\ m.ts \in Nat
           /\ m.id \in MoonIds /\ FileOf(m) = m.id
  BY TopologyAssumption DEF Moons, MoonIds, FileOf

(* The planet's file is no moon's.                                         *)
LEMMA MoonIdsPositive == PlanetFile \notin MoonIds
  BY TopologyAssumption DEF MoonIds, PlanetFile

(* A world is a planet or a moon.                                          *)
LEMMA WorldIsOne == \A w \in Worlds : w \in Planets \/ w \in Moons
  BY TopologyAssumption DEF Planets, Moons

(* What a file has that has no world.                                      *)
LEMMA NoWorlds == Null.type = "null" /\ Garbage.type = "garbage"
  BY DEF Null, Garbage

(* The built-in planet is one.                                             *)
LEMMA DefaultIsPlanet == DefaultPlanet \in Planets
  BY TopologyAssumption DEF Planets

(* World::shouldBeReplacedBy() of a world that is one: only a newer one.   *)
LEMMA ReplacedByNewer ==
    ASSUME NEW w \in Planets \cup Moons, NEW u, ShouldBeReplacedBy(w, u)
    PROVE  w.id = u.id /\ w.ts < u.ts /\ w.type = u.type
  BY PlanetFacts, MoonFacts DEF ShouldBeReplacedBy

-----------------------------------------------------------------------------
(* Calls                                                                   *)
LEMMA CallMonotone ==
    ASSUME NEW c, NEW W, NEW V, W \subseteq V, CallOK(c, W)
    PROVE  CallOK(c, V)
  BY DEF CallOK

(* A thread goes on to a call.                                             *)
LEMMA GotoKeeps ==
    ASSUME CallsOK, wanted \subseteq wanted',
           NEW t \in Callers, NEW c, CallOK(c, wanted'), Goto(t, c)
    PROVE  CallsOK'
  <1>1. calls' = [u \in Callers |-> IF u = t THEN c ELSE calls[u]]
    BY Zenon DEF Goto, CallsOK
  <1>2. ASSUME NEW u \in Callers PROVE CallOK(calls'[u], wanted')
    <2>1. CASE u = t
      BY <1>1, <2>1
    <2>2. CASE u # t
      <3>1. calls'[u] = calls[u]
        BY <1>1, <2>2
      <3>2. CallOK(calls[u], wanted)
        BY DEF CallsOK
      <3> QED
        BY Zenon, <3>1, <3>2, CallMonotone
    <2> QED
      BY <2>1, <2>2
  <1>3. calls' = [u \in Callers |-> calls'[u]]
    BY Zenon, <1>1
  <1> QED
    BY Zenon, <1>2, <1>3 DEF CallsOK

(* A thread may be in no call.                                             *)
LEMMA NoCallOK == \A W : CallOK(NoCall, W)
  BY DEF CallOK

(* What a call can be, by its name.                                        *)
LEMMA CallShapes ==
    ASSUME NEW c, NEW W, CallOK(c, W)
    PROVE  /\ c.op = "addWorld" => c.w \in Worlds /\ c.always \in BOOLEAN
                                    /\ (c.always => c.w \in Moons /\ c.w.id \in W)
           /\ c.op = "seed" => c.id \in W /\ c.seed \in Seeds
           /\ c.op = "removeMoon" => c.id \in MoonIds /\ c = [op |-> "removeMoon", id |-> c.id]
  BY DEF CallOK, NoCall

-----------------------------------------------------------------------------
(* Worlds, upstreams and files                                             *)
LEMMA MemoizedExact ==
    ASSUME Memoized(planet', moons', upstreams', amRoot', known')
    PROVE  UpstreamsExact'
  BY DEF Memoized, UpstreamsExact

(* A step that leaves the worlds does not take them back.                  *)
LEMMA SameWorldsStep ==
    ASSUME WorldsOK, planet' = planet, moons' = moons
    PROVE  WorldsStep
  <1>1. planet'.ts >= planet.ts
    BY PlanetFacts DEF WorldsOK
  <1>2. ASSUME NEW m \in moons PROVE \E n \in moons' : n.id = m.id /\ n.ts >= m.ts
    <2>1. m.ts \in Nat
      BY MoonFacts DEF WorldsOK
    <2>2. m.ts >= m.ts
      BY <2>1
    <2> QED
      BY <2>2
  <1> QED
    BY Zenon, <1>1, <1>2 DEF WorldsStep

(* Steps that leave the worlds alone, though a moon may become wanted.     *)
LEMMA Untouched ==
    ASSUME UpstreamsExact, WorldsOK, FilesOK, wanted \subseteq wanted',
           UNCHANGED <<worlds, known, files, embedder, unsaved>>
    PROVE  UpstreamsExact' /\ WorldsOK' /\ FilesOK' /\ WorldsStep
  <1>1. UpstreamsExact'
    BY DEF UpstreamsExact, worlds
  <1>2. WorldsOK'
    BY DEF WorldsOK, worlds
  <1>3. FilesOK'
    BY DEF FilesOK, Lasting, worlds
  <1>4. WorldsStep
    BY SameWorldsStep DEF worlds
  <1> QED
    BY <1>1, <1>2, <1>3, <1>4

(* A write leaves the other files as they were; its own has the world, or  *)
(* is counted among the unsaved.                                           *)
LEMMA PutStores ==
    ASSUME FilesOK, NEW w \in Planets \cup Moons, StateObjectPut(w)
    PROVE  /\ files' \in [Files -> Planets \cup Moons \cup {Garbage, Null}]
           /\ \A f \in Files \ {FileOf(w)} :
                files'[f] = files[f] /\ (f \in unsaved' <=> f \in unsaved)
           /\ files'[FileOf(w)] \in {w, Garbage, files[FileOf(w)]}
           /\ FileOf(w) \notin unsaved' => files'[FileOf(w)] = w
  <1>1. FileOf(w) \in Files
    BY PlanetFacts, MoonFacts DEF Files
  <1>2. PICK f \in Files : f = FileOf(w)
    BY <1>1
  <1>3. PICK written \in {w, Garbage, files[f]} :
             /\ files' = [files EXCEPT ![f] = written]
             /\ unsaved' = IF written = w THEN unsaved \ {f} ELSE unsaved \cup {f}
    BY Zenon, <1>2 DEF StateObjectPut
  <1>4. files \in [Files -> Planets \cup Moons \cup {Garbage, Null}]
    BY DEF FilesOK
  <1>5. written \in Planets \cup Moons \cup {Garbage, Null}
    BY <1>4
  <1>6. files' \in [Files -> Planets \cup Moons \cup {Garbage, Null}]
    BY <1>3, <1>4, <1>5
  <1>7. files'[f] = written /\ \A g \in Files \ {f} : files'[g] = files[g]
    BY <1>3, <1>4
  <1> QED
    BY <1>2, <1>3, <1>6, <1>7

(* The moons' share of FilesOK, when only the planet's file may change.    *)
LEMMA PlanetPutFiles ==
    ASSUME FilesOK, NEW p \in Planets, StateObjectPut(p), planet' = p, UNCHANGED embedder,
           moons' \subseteq Moons,
           \A i \in MoonIds : files[i].type = "moon" /\ embedder # "OneService"
                                 => \E m \in moons' : m.id = i,
           \A m \in moons' : Lasting(m.id) => files[m.id] = m
    PROVE  FilesOK'
  <1>1. FileOf(p) = PlanetFile /\ p.type = "planet"
    BY PlanetFacts
  <1>2. /\ files' \in [Files -> Planets \cup Moons \cup {Garbage, Null}]
        /\ \A f \in Files \ {PlanetFile} :
              files'[f] = files[f] /\ (f \in unsaved' <=> f \in unsaved)
        /\ files'[PlanetFile] \in {p, Garbage, files[PlanetFile]}
        /\ PlanetFile \notin unsaved' => files'[PlanetFile] = p
    BY <1>1, PutStores
  <1>3. files'[PlanetFile].type # "moon"
    BY <1>1, <1>2, NoWorlds DEF FilesOK
  <1>4. \A i \in MoonIds : i \in Files \ {PlanetFile}
    BY MoonIdsPositive DEF Files
  <1>5. \A i \in MoonIds : files'[i] = files[i] /\ (i \in unsaved' <=> i \in unsaved)
    BY Zenon, <1>2, <1>4
  <1>6. ASSUME NEW m \in moons', Lasting(m.id)' PROVE files'[m.id] = m
    <2>1. m.id \in MoonIds
      BY MoonFacts
    <2>2. Lasting(m.id)
      BY <1>5, <1>6, <2>1 DEF Lasting
    <2> QED
      BY Zenon, <1>5, <2>1, <2>2
  <1>7. \A i \in MoonIds :
         /\ files'[i].type # "planet"
         /\ files'[i].type = "moon" => files'[i].id = i
         /\ files'[i].type = "moon" /\ embedder' # "OneService" => \E m \in moons' : m.id = i
    BY <1>5 DEF FilesOK
  <1> QED
    BY Zenon, <1>2, <1>3, <1>6, <1>7 DEF FilesOK

-----------------------------------------------------------------------------
(* Topology::addWorld() with a newer planet                                *)
LEMMA NewPlanet ==
    ASSUME WorldsOK, FilesOK, NEW w \in Planets, ShouldBeReplacedBy(planet, w),
           planet' = w, UNCHANGED <<moons, moonSeeds, embedder, wanted>>, StateObjectPut(w)
    PROVE  WorldsOK' /\ FilesOK' /\ WorldsStep
  <1>1. WorldsOK'
    BY Zenon DEF WorldsOK
  <1>2. FilesOK'
    <2>1. moons' \subseteq Moons
      BY Zenon DEF WorldsOK
    <2>2. \A i \in MoonIds : files[i].type = "moon" /\ embedder # "OneService"
                               => \E m \in moons' : m.id = i
      BY Zenon DEF FilesOK
    <2>3. \A m \in moons' : Lasting(m.id) => files[m.id] = m
      BY Zenon DEF FilesOK
    <2> QED
      BY Zenon, <2>1, <2>2, <2>3, PlanetPutFiles
  <1>3. WorldsStep
    <2>1. planet \in Planets
      BY DEF WorldsOK
    <2>2. planet.ts < w.ts
      BY <2>1, ReplacedByNewer
    <2>3. planet'.ts >= planet.ts
      BY <2>1, <2>2, PlanetFacts
    <2>4. ASSUME NEW m \in moons PROVE \E n \in moons' : n.id = m.id /\ n.ts >= m.ts
      <3>1. m.ts \in Nat
        BY MoonFacts DEF WorldsOK
      <3>2. m.ts >= m.ts
        BY <3>1
      <3> QED
        BY <3>2
    <2> QED
      BY Zenon, <2>3, <2>4 DEF WorldsStep
  <1> QED
    BY <1>1, <1>2, <1>3

(* ... and with a moon, newer than the one there is, or new                *)
LEMMA NewMoon ==
    ASSUME WorldsOK, FilesOK, NEW w \in Moons, w.id \in wanted,
           \A m \in moons : m.id = w.id => ShouldBeReplacedBy(m, w),
           moons' = {m \in moons : m.id # w.id} \cup {w}, moonSeeds' \subseteq moonSeeds,
           UNCHANGED <<planet, embedder, wanted>>, StateObjectPut(w)
    PROVE  WorldsOK' /\ FilesOK' /\ WorldsStep
  <1>1. WorldsOK'
    BY Zenon DEF WorldsOK
  <1>2. w.id \in MoonIds /\ FileOf(w) = w.id /\ w.type = "moon" /\ w.id # PlanetFile
    BY MoonFacts, MoonIdsPositive
  <1>3. /\ files' \in [Files -> Planets \cup Moons \cup {Garbage, Null}]
        /\ \A f \in Files \ {w.id} :
              files'[f] = files[f] /\ (f \in unsaved' <=> f \in unsaved)
        /\ files'[w.id] \in {w, Garbage, files[w.id]}
        /\ w.id \notin unsaved' => files'[w.id] = w
    BY <1>2, PutStores
  <1>4. FilesOK'
    <2>1. PlanetFile \in Files \ {w.id}
      BY <1>2 DEF Files
    <2>2. files'[PlanetFile].type # "moon"
          /\ (PlanetFile \notin unsaved' => files'[PlanetFile] = planet')
      BY <1>3, <2>1 DEF FilesOK
    <2>3. ASSUME NEW i \in MoonIds
          PROVE  /\ files'[i].type # "planet"
                 /\ files'[i].type = "moon" => files'[i].id = i
                 /\ files'[i].type = "moon" /\ embedder' # "OneService"
                      => \E m \in moons' : m.id = i
      <3>1. i \in Files
        BY DEF Files
      <3>2. CASE i = w.id
        <4>1. \E m \in moons' : m.id = i
          BY <3>2
        <4> QED
          BY <1>2, <1>3, <3>2, <4>1, NoWorlds DEF FilesOK
      <3>3. CASE i # w.id
        <4>1. files'[i] = files[i]
          BY <1>3, <3>1, <3>3
        <4>2. \A m \in moons : m.id = i => m \in moons'
          BY <3>3
        <4> QED
          BY <4>1, <4>2 DEF FilesOK
      <3> QED
        BY <3>2, <3>3
    <2>4. ASSUME NEW m \in moons', Lasting(m.id)' PROVE files'[m.id] = m
      <3>1. CASE m = w
        BY <1>2, <1>3, <2>4, <3>1 DEF Lasting
      <3>2. CASE m # w
        <4>1. m \in moons /\ m.id # w.id
          BY <3>2
        <4>2. m.id \in Files \ {w.id}
          BY <4>1, MoonFacts DEF WorldsOK, Files
        <4>3. Lasting(m.id)
          BY <1>3, <2>4, <4>2, <1>2 DEF Lasting
        <4> QED
          BY <1>3, <4>1, <4>2, <4>3 DEF FilesOK
      <3> QED
        BY <3>1, <3>2
    <2> QED
      BY Zenon, <1>3, <2>2, <2>3, <2>4 DEF FilesOK
  <1>5. WorldsStep
    <2>1. planet'.ts >= planet.ts
      BY PlanetFacts DEF WorldsOK
    <2>2. ASSUME NEW m \in moons PROVE \E n \in moons' : n.id = m.id /\ n.ts >= m.ts
      <3>1. m \in Moons /\ m.ts \in Nat /\ w.ts \in Nat
        BY MoonFacts DEF WorldsOK
      <3>2. CASE m.id = w.id
        <4>1. m.ts < w.ts
          BY <3>1, <3>2, ReplacedByNewer
        <4>2. w.ts >= m.ts
          BY <3>1, <4>1
        <4> QED
          BY <3>2, <4>2
      <3>3. CASE m.id # w.id
        <4>1. m.ts >= m.ts
          BY <3>1
        <4> QED
          BY <3>3, <4>1
      <3> QED
        BY <3>2, <3>3
    <2> QED
      BY Zenon, <2>1, <2>2 DEF WorldsStep
  <1> QED
    BY <1>1, <1>4, <1>5

(* addWorld(), whichever world it is given.                                *)
LEMMA AddWorldKeeps ==
    ASSUME OrbitInv, NEW t \in Callers, AddWorld(t)
    PROVE  UpstreamsExact' /\ WorldsOK' /\ FilesOK' /\ WorldsStep
  <1> USE DEF OrbitInv
  <1>1. PICK w : w = calls[t].w
    OBVIOUS
  <1>2. w \in Worlds /\ calls[t].always \in BOOLEAN /\ (calls[t].always => w.id \in wanted)
    BY <1>1, CallShapes DEF AddWorld, Locked, CallsOK
  <1>3. embedder' = embedder /\ wanted' = wanted
    BY DEF AddWorld
  <1>4. CASE ~Accepts(w, calls[t].always)
    <2>1. UNCHANGED <<worlds, known, files, embedder, unsaved>>
      BY Zenon, <1>1, <1>3, <1>4 DEF AddWorld
    <2> QED
      BY Zenon, <1>3, <2>1, Untouched
  <1>5. CASE Accepts(w, calls[t].always)
    <2>1. /\ planet' = IF w.type = "planet" THEN w ELSE planet
          /\ moons' = IF w.type = "planet" THEN moons ELSE {m \in moons : m.id # w.id} \cup {w}
          /\ IF w.type = "planet" \/ Follows(w, moons) \/ calls[t].always
               THEN UNCHANGED moonSeeds
               ELSE \E s \in SeedsFor(w) : moonSeeds' = moonSeeds \ {s}
          /\ StateObjectPut(w)
          /\ Memoized(planet', moons', upstreams', amRoot', known')
      BY Zenon, <1>1, <1>5 DEF AddWorld
    <2>2. UpstreamsExact'
      BY Zenon, <2>1, MemoizedExact
    <2>3. CASE w \in Planets
      <3>1. w.type = "planet"
        BY <2>3, PlanetFacts
      <3>2. ShouldBeReplacedBy(planet, w)
        BY <1>5, <3>1 DEF Accepts
      <3>3. planet' = w /\ UNCHANGED <<moons, moonSeeds, embedder, wanted>>
        BY <1>3, <2>1, <3>1
      <3> QED
        BY Zenon, <2>1, <2>2, <2>3, <3>2, <3>3, NewPlanet
    <2>4. CASE w \in Moons
      <3>1. w.type = "moon"
        BY <2>4, MoonFacts
      <3>2. \A m \in moons : m.id = w.id => ShouldBeReplacedBy(m, w)
        BY <1>5, <3>1 DEF Accepts, Follows
      <3>3. moonSeeds' \subseteq moonSeeds
        BY <2>1, <3>1
      <3>4. w.id \in wanted
        <4>1. CASE Follows(w, moons)
          BY <4>1 DEF Follows, WorldsOK
        <4>2. CASE calls[t].always
          BY <1>2, <4>2
        <4>3. CASE ~Follows(w, moons) /\ ~calls[t].always
          <5>1. SeedsFor(w) # {}
            BY <1>5, <3>1, <4>3 DEF Accepts
          <5> QED
            BY <5>1 DEF SeedsFor, WorldsOK
        <4> QED
          BY <4>1, <4>2, <4>3
      <3>5. planet' = planet /\ moons' = {m \in moons : m.id # w.id} \cup {w}
        BY <2>1, <3>1
      <3> QED
        BY Zenon, <1>3, <2>1, <2>2, <2>4, <3>2, <3>3, <3>4, <3>5, NewMoon
    <2> QED
      BY Zenon, <1>2, <2>3, <2>4, WorldIsOne
  <1> QED
    BY Zenon, <1>4, <1>5

-----------------------------------------------------------------------------
(* Topology::removeMoon()                                                  *)
LEMMA RemoveMoonKeeps ==
    ASSUME OrbitInv, NEW t \in Callers, RemoveMoon(t)
    PROVE  UpstreamsExact' /\ CallsOK' /\ WorldsOK' /\ FilesOK' /\ WorldsStep
  <1> USE DEF OrbitInv
  <1>1. PICK id : id = calls[t].id
    OBVIOUS
  <1>2. id \in MoonIds /\ calls[t] = [op |-> "removeMoon", id |-> id]
    BY <1>1, CallShapes DEF RemoveMoon, Locked, CallsOK
  <1>3. /\ moons' = {m \in moons : m.id # id}
        /\ moonSeeds' = {s \in moonSeeds : s[1] # id}
        /\ files' = IF \E m \in moons : m.id = id THEN [files EXCEPT ![id] = Null] ELSE files
        /\ unsaved' = unsaved \ {id}
        /\ wanted' = IF OrbitInFlight(id) THEN wanted ELSE wanted \ {id}
        /\ Memoized(planet, moons', upstreams', amRoot', known')
        /\ planet' = planet /\ embedder' = embedder
        /\ Goto(t, NoCall)
    BY Zenon, <1>1 DEF RemoveMoon, SeedsWithout, Locked
  <1>4. UpstreamsExact'
    BY <1>3, MemoizedExact
  <1>5. WorldsOK'
    BY <1>3 DEF WorldsOK
  <1>6. CallsOK'
    <2>1. calls' = [u \in Callers |-> IF u = t THEN NoCall ELSE calls[u]]
      BY Zenon, <1>3 DEF Goto, CallsOK
    <2>2. ASSUME NEW u \in Callers PROVE CallOK(calls'[u], wanted')
      <3>1. CASE u = t
        BY Zenon, <2>1, <3>1, NoCallOK
      <3>2. CASE u # t /\ OrbitInFlight(id)
        BY <1>3, <2>1, <3>2 DEF CallsOK
      <3>3. CASE u # t /\ ~OrbitInFlight(id)
        <4>1. calls'[u] = calls[u] /\ wanted' = wanted \ {id}
          BY <1>3, <2>1, <3>3
        <4>2. CallOK(calls[u], wanted)
          BY DEF CallsOK
        <4>3. /\ calls[u].op = "seed" => calls[u].id # id
              /\ calls[u].op = "addWorld" => calls[u].w.id # id \/ ~calls[u].always
          BY <3>3 DEF OrbitInFlight
        <4> QED
          BY <4>1, <4>2, <4>3 DEF CallOK
      <3> QED
        BY <3>1, <3>2, <3>3
    <2>3. calls' = [u \in Callers |-> calls'[u]]
      BY Zenon, <2>1
    <2> QED
      BY Zenon, <2>2, <2>3 DEF CallsOK
  <1>7. FilesOK'
    <2>1. files \in [Files -> Planets \cup Moons \cup {Garbage, Null}] /\ id \in Files
          /\ id # PlanetFile /\ PlanetFile \in Files
      BY <1>2, MoonIdsPositive DEF FilesOK, Files
    <2>2. /\ files' \in [Files -> Planets \cup Moons \cup {Garbage, Null}]
          /\ \A f \in Files \ {id} : files'[f] = files[f]
          /\ files'[id] = IF \E m \in moons : m.id = id THEN Null ELSE files[id]
      BY <1>3, <2>1
    <2>3. files'[PlanetFile].type # "moon"
          /\ (PlanetFile \notin unsaved' => files'[PlanetFile] = planet')
      BY <1>3, <2>1, <2>2 DEF FilesOK
    <2>4. ASSUME NEW i \in MoonIds
          PROVE  /\ files'[i].type # "planet"
                 /\ files'[i].type = "moon" => files'[i].id = i
                 /\ files'[i].type = "moon" /\ embedder' # "OneService"
                      => \E m \in moons' : m.id = i
      <3>1. i \in Files
        BY DEF Files
      <3>2. CASE i = id
        BY <1>3, <2>2, <3>2, NoWorlds DEF FilesOK
      <3>3. CASE i # id
        <4>1. files'[i] = files[i]
          BY <2>2, <3>1, <3>3
        <4>2. \A m \in moons : m.id = i => m \in moons'
          BY <1>3, <3>3
        <4> QED
          BY <1>3, <4>1, <4>2 DEF FilesOK
      <3> QED
        BY <3>2, <3>3
    <2>5. ASSUME NEW m \in moons', Lasting(m.id)' PROVE files'[m.id] = m
      <3>1. m \in moons /\ m.id # id
        BY <1>3
      <3>2. m.id \in Files
        BY <3>1, MoonFacts DEF WorldsOK, Files
      <3>3. Lasting(m.id)
        BY <1>3, <2>5, <3>1 DEF Lasting
      <3> QED
        BY <2>2, <3>1, <3>2, <3>3 DEF FilesOK
    <2> QED
      BY Zenon, <2>2, <2>3, <2>4, <2>5 DEF FilesOK
  <1>8. WorldsStep
    <2>1. planet'.ts >= planet.ts
      BY <1>3, PlanetFacts DEF WorldsOK
    <2>2. ASSUME NEW m \in moons
          PROVE  \/ \E n \in moons' : n.id = m.id /\ n.ts >= m.ts
                 \/ \E u \in Callers : calls[u] = [op |-> "removeMoon", id |-> m.id]
      <3>1. CASE m.id = id
        BY Zenon, <1>2, <3>1
      <3>2. CASE m.id # id
        <4>1. m \in moons'
          BY <1>3, <3>2
        <4>2. m.ts \in Nat
          BY MoonFacts DEF WorldsOK
        <4>3. m.ts >= m.ts
          BY <4>2
        <4> QED
          BY <4>1, <4>3
      <3> QED
        BY <3>1, <3>2
    <2> QED
      BY Zenon, <2>1, <2>2 DEF WorldsStep
  <1> QED
    BY <1>4, <1>5, <1>6, <1>7, <1>8

(* The constructor after a crash: what it reads is what was in force, if   *)
(* it was written.                                                         *)
LEMMA RestartKeeps ==
    ASSUME OrbitInv, Restart
    PROVE  OrbitInv' /\ WorldsStep
  <1> USE DEF OrbitInv
  <1>1. PICK disk : disk = files[PlanetFile]
    OBVIOUS
  <1>2. PICK cached : cached = IF disk.type = "planet" THEN disk ELSE Null
    OBVIOUS
  <1>3. PICK p : p = IF ShouldBeReplacedBy(cached, DefaultPlanet) THEN DefaultPlanet ELSE cached
    OBVIOUS
  <1>4. PICK ms : ms = {w \in {StateObjectGet(i) : i \in MoonIds} : w.type = "moon"}
    BY Zenon
  <1>5. /\ planet' = p /\ moons' = ms /\ moonSeeds' = {}
        /\ upstreams' = RootsOf(p, ms) \ {Self} /\ amRoot' = (Self \in RootsOf(p, ms))
        /\ known' = (cached.roots \cup RootsOf(p, ms)) \ {Self}
        /\ IF p = disk THEN UNCHANGED <<files, unsaved>> ELSE StateObjectPut(p)
        /\ calls' = [t \in Callers |-> NoCall]
        /\ embedder' = embedder /\ wanted' = wanted
    <2>1. StateObjectGet(PlanetFile) = disk
      BY <1>1 DEF StateObjectGet
    <2> QED
      BY Zenon, <1>2, <1>3, <1>4, <2>1 DEF Restart
  <1>6. UpstreamsExact'
    BY <1>5 DEF UpstreamsExact
  <1>7. CallsOK'
    BY <1>5, NoCallOK DEF CallsOK
  <1>9. disk \in Planets \cup Moons \cup {Garbage, Null} /\ disk.type # "moon"
    BY <1>1 DEF FilesOK, Files
  <1>10. cached \in Planets \/ cached = Null
    BY <1>2, <1>9, MoonFacts, NoWorlds
  <1>11. p \in Planets
    BY <1>3, <1>10, DefaultIsPlanet, NoWorlds DEF ShouldBeReplacedBy
  <1>12. ASSUME NEW m \in ms
         PROVE  m \in Moons /\ m.id \in wanted /\ m.id \in MoonIds /\ files[m.id] = m
                /\ embedder # "OneService"
    <2>1. PICK i \in MoonIds : m = StateObjectGet(i) /\ m.type = "moon"
      BY Zenon, <1>4
    <2>2. embedder # "OneService" /\ m = files[i]
      BY <2>1, MoonIdsPositive, NoWorlds DEF StateObjectGet
    <2>3. m \in Planets \cup Moons \cup {Garbage, Null}
      BY <2>2 DEF FilesOK, Files
    <2>4. m \in Moons
      BY <2>1, <2>3, PlanetFacts, NoWorlds
    <2>5. m.id = i /\ \E n \in moons : n.id = i
      BY <2>1, <2>2 DEF FilesOK
    <2>6. i \in wanted
      BY <2>5 DEF WorldsOK
    <2> QED
      BY <2>1, <2>2, <2>4, <2>5, <2>6
  <1>13. WorldsOK'
    BY Zenon, <1>5, <1>11, <1>12 DEF WorldsOK
  <1>14. \A i \in MoonIds : files[i].type = "moon" /\ embedder # "OneService"
                              => \E m \in moons' : m.id = i
    <2> SUFFICES ASSUME NEW i \in MoonIds, files[i].type = "moon", embedder # "OneService"
                 PROVE  \E m \in moons' : m.id = i
      BY Zenon
    <2>1. StateObjectGet(i) = files[i]
      BY DEF StateObjectGet
    <2>2. files[i] \in ms
      BY <1>4, <2>1
    <2>3. files[i].id = i
      BY DEF FilesOK
    <2> QED
      BY <1>5, <2>2, <2>3
  <1>15. FilesOK'
    <2>1. CASE p = disk
      <3>1. UNCHANGED <<files, unsaved>>
        BY Zenon, <1>5, <2>1
      <3>2. \A m \in moons' : Lasting(m.id)' => files'[m.id] = m
        BY <1>5, <1>12, <3>1
      <3>3. files'[PlanetFile] = planet'
        BY <1>1, <1>5, <2>1, <3>1
      <3>4. files' \in [Files -> Planets \cup Moons \cup {Garbage, Null}]
            /\ files'[PlanetFile].type # "moon"
        BY <3>1 DEF FilesOK
      <3>5. \A i \in MoonIds :
              /\ files'[i].type # "planet"
              /\ files'[i].type = "moon" => files'[i].id = i
              /\ files'[i].type = "moon" /\ embedder' # "OneService" => \E m \in moons' : m.id = i
        BY <1>5, <1>14, <3>1 DEF FilesOK
      <3> QED
        BY Zenon, <3>2, <3>3, <3>4, <3>5 DEF FilesOK
    <2>2. CASE p # disk
      <3>1. StateObjectPut(p) /\ planet' = p /\ UNCHANGED embedder
        BY Zenon, <1>5, <2>2
      <3>2. moons' \subseteq Moons /\ \A m \in moons' : Lasting(m.id) => files[m.id] = m
        BY Zenon, <1>5, <1>12
      <3> QED
        BY Zenon, <1>11, <1>14, <3>1, <3>2, PlanetPutFiles
    <2> QED
      BY <2>1, <2>2
  <1>16. WorldsStep
    <2>1. planet'.ts >= planet.ts \/ PlanetFile \in unsaved
      <3> SUFFICES ASSUME PlanetFile \notin unsaved PROVE planet'.ts >= planet.ts
        OBVIOUS
      <3>1. disk = planet /\ planet \in Planets /\ planet.type = "planet"
        BY <1>1, PlanetFacts DEF FilesOK, WorldsOK
      <3>2. cached = planet
        BY <1>2, <3>1
      <3>3. CASE ShouldBeReplacedBy(planet, DefaultPlanet)
        <4>1. planet.ts < DefaultPlanet.ts /\ p = DefaultPlanet
          BY <1>3, <3>1, <3>2, <3>3, ReplacedByNewer
        <4> QED
          BY <1>5, <3>1, <4>1, PlanetFacts, DefaultIsPlanet
      <3>4. CASE ~ShouldBeReplacedBy(planet, DefaultPlanet)
        <4>1. p = planet
          BY Zenon, <1>3, <3>1, <3>2, <3>4
        <4>2. planet' = planet /\ planet.ts \in Nat
          BY Zenon, <1>5, <3>1, <4>1, PlanetFacts
        <4> QED
          BY <4>2
      <3> QED
        BY <3>3, <3>4
    <2>2. ASSUME NEW m \in moons, Lasting(m.id)
          PROVE  \E n \in moons' : n.id = m.id /\ n.ts >= m.ts
      <3>1. files[m.id] = m /\ m \in Moons
        BY <2>2 DEF FilesOK, WorldsOK
      <3>2. m.id \in MoonIds /\ m.type = "moon" /\ m.ts \in Nat
        BY <3>1, MoonFacts
      <3>3. embedder # "OneService"
        BY <2>2, <3>2, MoonIdsPositive DEF Lasting
      <3>4. m = StateObjectGet(m.id)
        BY <3>1, <3>3 DEF StateObjectGet
      <3>5. m \in moons'
        BY Zenon, <1>4, <1>5, <3>2, <3>4
      <3>6. m.ts >= m.ts
        BY <3>2
      <3> QED
        BY <3>5, <3>6
    <2> QED
      BY Zenon, <2>1, <2>2 DEF WorldsStep
  <1> QED
    BY Zenon, <1>6, <1>7, <1>13, <1>15, <1>16

-----------------------------------------------------------------------------
(* At the start of the process.                                            *)
LEMMA InitOrbit == TopologyInit => OrbitInv
  <1> SUFFICES ASSUME TopologyInit PROVE OrbitInv
    OBVIOUS
  <1> USE DEF TopologyInit
  <1>1. moons = {} /\ moonSeeds = {} /\ planet = DefaultPlanet
    OBVIOUS
  <1>2. UpstreamsExact
    <2>1. RootsOf(planet, moons) = DefaultPlanet.roots
      BY DEF RootsOf
    <2> QED
      BY <2>1 DEF UpstreamsExact
  <1>3. CallsOK
    BY NoCallOK DEF CallsOK
  <1>5. WorldsOK
    BY <1>1, DefaultIsPlanet DEF WorldsOK
  <1>6. FilesOK
    <2>1. files \in [Files -> Planets \cup Moons \cup {Garbage, Null}]
      BY DefaultIsPlanet
    <2>2. files[PlanetFile] = DefaultPlanet /\ DefaultPlanet.type = "planet"
      BY DefaultIsPlanet, PlanetFacts DEF Files
    <2>3. \A i \in MoonIds : files[i] = Null
      BY MoonIdsPositive DEF Files
    <2> QED
      BY <1>1, <2>1, <2>2, <2>3, NoWorlds DEF FilesOK
  <1> QED
    BY <1>2, <1>3, <1>5, <1>6 DEF OrbitInv

(* Node::orbit() reads a file that belongs to the moon it names.           *)
LEMMA OrbitKeeps ==
    ASSUME OrbitInv, NEW t \in Callers, NEW id \in MoonIds, NEW seed \in Seeds, Orbit(t, id, seed)
    PROVE  CallsOK'
  <1> USE DEF OrbitInv
  <1>1. wanted' = wanted \cup {id}
    BY DEF Orbit
  <1>2. PICK w : w = StateObjectGet(id)
    OBVIOUS
  <1>3. CASE w.type = "moon" /\ Goto(t, [op |-> "addWorld", w |-> w, always |-> TRUE])
    <2>1. w = files[id]
      BY Zenon, <1>2, <1>3, NoWorlds DEF StateObjectGet
    <2>2. w \in Moons /\ w.id = id
      BY Zenon, <1>3, <2>1, PlanetFacts, NoWorlds DEF FilesOK, Files
    <2>3. w \in Worlds
      BY <2>2 DEF Moons
    <2>4. CallOK([op |-> "addWorld", w |-> w, always |-> TRUE], wanted')
      BY <1>1, <2>2, <2>3 DEF CallOK
    <2> QED
      BY Zenon, <1>1, <1>3, <2>4, GotoKeeps
  <1>4. CASE Goto(t, [op |-> "seed", id |-> id, seed |-> seed])
    <2>1. CallOK([op |-> "seed", id |-> id, seed |-> seed], wanted')
      BY <1>1 DEF CallOK
    <2> QED
      BY Zenon, <1>1, <1>4, <2>1, GotoKeeps
  <1> QED
    BY Zenon, <1>2, <1>3, <1>4 DEF Orbit

(* Every step preserves the invariant and takes no world back.             *)
LEMMA NextOrbit ==
    OrbitInv /\ [TopologyNext]_topologyVars => OrbitInv' /\ (WorldsStep \/ UNCHANGED topologyVars)
  <1> SUFFICES ASSUME OrbitInv, [TopologyNext]_topologyVars
               PROVE  OrbitInv' /\ (WorldsStep \/ UNCHANGED topologyVars)
    OBVIOUS
  <1> USE DEF OrbitInv
  <1>1. CASE Restart
    BY Zenon, <1>1, RestartKeeps
  <1>2. ASSUME NEW a \in Addrs, AddPeer(a)
        PROVE  OrbitInv' /\ WorldsStep
    <2>1. UpstreamsExact'
      BY <1>2 DEF AddPeer, UpstreamsExact, worlds
    <2>2. WorldsOK' /\ FilesOK' /\ CallsOK'
      BY <1>2 DEF AddPeer, WorldsOK, FilesOK, CallsOK, Lasting, worlds
    <2>3. WorldsStep
      BY <1>2, SameWorldsStep DEF AddPeer, worlds
    <2> QED
      BY <2>1, <2>2, <2>3
  <1>3. ASSUME NEW t \in Callers, LockFirst(t)
        PROVE  OrbitInv' /\ WorldsStep
    <2>1. CallsOK'
      BY <1>3 DEF LockFirst, CallsOK
    <2>2. UNCHANGED <<worlds, known, files, embedder, unsaved>> /\ wanted' = wanted
      BY <1>3 DEF LockFirst
    <2> QED
      BY Zenon, <2>1, <2>2, Untouched
  <1>4. ASSUME NEW t \in Callers, AddWorld(t)
        PROVE  OrbitInv' /\ WorldsStep
    <2>1. Locked(t, "addWorld") /\ Goto(t, NoCall) /\ wanted' = wanted
      BY Zenon, <1>4 DEF AddWorld, Locked
    <2>2. CallsOK'
      BY Zenon, <2>1, NoCallOK, GotoKeeps
    <2> QED
      BY Zenon, <1>4, <2>2, AddWorldKeeps
  <1>5. ASSUME NEW t \in Callers, AddSeed(t)
        PROVE  OrbitInv' /\ WorldsStep
    <2>1. calls[t].id \in wanted
      BY <1>5, CallShapes DEF AddSeed, CallsOK
    <2>2. Goto(t, NoCall) /\ wanted' = wanted
      BY Zenon, <1>5 DEF AddSeed
    <2>3. CallsOK'
      BY Zenon, <2>2, NoCallOK, GotoKeeps
    <2>4. WorldsOK'
      BY <1>5, <2>1 DEF AddSeed, WorldsOK
    <2>5. UpstreamsExact' /\ FilesOK'
      BY <1>5 DEF AddSeed, UpstreamsExact, FilesOK, Lasting
    <2>6. WorldsStep
      BY Zenon, <1>5, SameWorldsStep DEF AddSeed
    <2> QED
      BY <2>3, <2>4, <2>5, <2>6
  <1>6. ASSUME NEW t \in Callers, RemoveMoon(t)
        PROVE  OrbitInv' /\ WorldsStep
    BY Zenon, <1>6, RemoveMoonKeeps
  <1>7. ASSUME NEW t \in Callers, GetUpstreamPeer(t)
        PROVE  OrbitInv' /\ WorldsStep
    <2>1. Locked(t, "getUpstreamPeer") /\ Goto(t, NoCall) /\ wanted' = wanted
          /\ UNCHANGED <<worlds, known, files, embedder, unsaved>>
      BY Zenon, <1>7 DEF GetUpstreamPeer, Locked
    <2>2. CallsOK'
      BY Zenon, <2>1, NoCallOK, GotoKeeps
    <2> QED
      BY Zenon, <2>1, <2>2, Untouched
  <1>8. ASSUME NEW t \in Callers, NEW from \in Addrs, NEW w \in Worlds, DoOk(t, from, w)
        PROVE  OrbitInv' /\ WorldsStep
    <2>1. CallOK([op |-> "addWorld", w |-> w, always |-> FALSE], wanted')
      BY DEF CallOK
    <2>2. Goto(t, [op |-> "addWorld", w |-> w, always |-> FALSE]) /\ wanted' = wanted
          /\ UNCHANGED <<worlds, known, files, embedder, unsaved>>
      BY <1>8 DEF DoOk
    <2>3. CallsOK'
      BY Zenon, <2>1, <2>2, GotoKeeps
    <2> QED
      BY Zenon, <2>2, <2>3, Untouched
  <1>9. ASSUME NEW t \in Callers, NEW id \in MoonIds, Deorbit(t, id)
        PROVE  OrbitInv' /\ WorldsStep
    <2>1. CallOK([op |-> "removeMoon", id |-> id], wanted')
      BY DEF CallOK
    <2>2. Goto(t, [op |-> "removeMoon", id |-> id]) /\ wanted' = wanted
          /\ UNCHANGED <<worlds, known, files, embedder, unsaved>>
      BY <1>9 DEF Deorbit
    <2>3. CallsOK'
      BY Zenon, <2>1, <2>2, GotoKeeps
    <2> QED
      BY Zenon, <2>2, <2>3, Untouched
  <1>10. ASSUME NEW t \in Callers, NEW id \in MoonIds, NEW seed \in Seeds, Orbit(t, id, seed)
         PROVE  OrbitInv' /\ WorldsStep
    <2>1. wanted \subseteq wanted'
          /\ UNCHANGED <<worlds, known, files, embedder, unsaved>>
      BY <1>10 DEF Orbit
    <2>2. CallsOK'
      BY Zenon, <1>10, OrbitKeeps
    <2> QED
      BY Zenon, <2>1, <2>2, Untouched
  <1>11. ASSUME NEW t \in Callers, NEW op \in {"doPeriodicTasks", "getUpstreamPeer"}, Begin(t, op)
         PROVE  OrbitInv' /\ WorldsStep
    <2>1. CallOK([op |-> op], wanted')
      BY DEF CallOK
    <2>2. Goto(t, [op |-> op]) /\ wanted' = wanted
          /\ UNCHANGED <<worlds, known, files, embedder, unsaved>>
      BY <1>11 DEF Begin
    <2>3. CallsOK'
      BY Zenon, <2>1, <2>2, GotoKeeps
    <2> QED
      BY Zenon, <2>2, <2>3, Untouched
  <1>12. ASSUME NEW t \in Callers, NEW dead \in SUBSET Addrs, DoPeriodicTasks(t, dead)
         PROVE  OrbitInv' /\ WorldsStep
    <2>1. Locked(t, "doPeriodicTasks") /\ Goto(t, NoCall) /\ wanted' = wanted
          /\ UNCHANGED <<worlds, files, embedder, unsaved>>
      BY <1>12 DEF DoPeriodicTasks, Locked
    <2>2. CallsOK'
      BY Zenon, <2>1, NoCallOK, GotoKeeps
    <2>3. UpstreamsExact'
      BY <1>12, <2>1 DEF DoPeriodicTasks, Keeps, UpstreamsExact, worlds
    <2>4. WorldsOK' /\ FilesOK'
      BY <2>1 DEF WorldsOK, FilesOK, Lasting, worlds
    <2>5. WorldsStep
      BY <2>1, SameWorldsStep DEF worlds
    <2> QED
      BY <2>2, <2>3, <2>4, <2>5
  <1>13. CASE UNCHANGED topologyVars
    <2>1. OrbitInv'
      BY <1>13 DEF topologyVars, worlds, UpstreamsExact, CallsOK, WorldsOK, FilesOK, Lasting
    <2> QED
      BY <1>13, <2>1
  <1> QED
    BY Zenon, <1>1, <1>2, <1>3, <1>4, <1>5, <1>6, <1>7, <1>8, <1>9, <1>10, <1>11, <1>12, <1>13
       DEF TopologyNext

(* So the invariant always holds.                                          *)
LEMMA AlwaysIInv == TopologySpec => []OrbitInv
  BY InitOrbit, NextOrbit, PTL DEF TopologySpec

(* _upstreamAddresses and _amRoot are at all times what the worlds in      *)
(* force say, and every upstream has a peer, however addWorld(),           *)
(* removeMoon(), housekeeping and restarts follow each other.              *)
THEOREM UpstreamsAlwaysExact == TopologySpec => []UpstreamsExact
  <1>1. OrbitInv => UpstreamsExact
    BY DEF OrbitInv
  <1> QED
    BY <1>1, AlwaysIInv, PTL

(* A moon that removeMoon() took away stays away until the next orbit(),   *)
(* whatever calls, seeds and files there are of it.                        *)
THEOREM DeorbitAlwaysSticks == TopologySpec => []DeorbitSticks
  <1>1. OrbitInv => DeorbitSticks
    BY DEF OrbitInv, WorldsOK, DeorbitSticks
  <1> QED
    BY <1>1, AlwaysIInv, PTL

(* No step, a crash and restart included, goes back to an older planet or  *)
(* moon or loses one, unless removeMoon() or a failed write is to blame.   *)
THEOREM WorldsNeverGoBack == TopologySpec => WorldsNeverBack
  <1>1. OrbitInv /\ [TopologyNext]_topologyVars => [WorldsStep]_topologyVars
    BY NextOrbit
  <1>2. TopologySpec => [][WorldsStep]_topologyVars
    BY <1>1, AlwaysIInv, PTL DEF TopologySpec
  <1> QED
    BY <1>2 DEF WorldsNeverBack

-----------------------------------------------------------------------------
(* Replies!RecentExpected for any number of threads, any ring and any      *)
(* pointer that wraps where the ring does.  The invariant says in which    *)
(* slot, counted back from the pointer, each of the last numbers is.       *)

Notes == [id : Nat, alone : BOOLEAN]
Calls == [pc : {"increment", "write"}, id : Nat, at : 0..(Pointer - 1), alone : BOOLEAN]
Places == 0..(RingSize - 1)

(* The slot d before slot s, and the one after it.                         *)
Back(s, d) == IF d <= s THEN s - d ELSE s + RingSize - d
After(s) == IF s = RingSize - 1 THEN 0 ELSE s + 1

(* The last of the numbers nt are in the ring rg, backwards from slot s.   *)
Recent(rg, s, nt) ==
    \A k \in 1..Len(nt) :
        k > Len(nt) - RingSize /\ (\A j \in k..Len(nt) : nt[j].alone)
        => rg[Back(s, Len(nt) + 1 - k)] = nt[k].id

(* A thread that has been alone in expectReplyTo() since it came.          *)
Alone(t) == noting[t] # Outside /\ noting[t].alone

(* A thread that is alone has the pointer to itself; any two that are not  *)
(* leave a number behind that was not noted alone.                         *)
RepliesInv ==
    /\ ring \in [Places -> Nat]
    /\ ptr \in 0..(Pointer - 1)
    /\ next \in Nat
    /\ noted \in Seq(Notes)
    /\ noting \in [SendThreads -> Calls \cup {Outside}]
    /\ \A t \in SendThreads : Alone(t) =>
         /\ \A o \in SendThreads \ {t} : noting[o] = Outside
         /\ ptr = IF noting[t].pc = "increment" THEN noting[t].at ELSE (noting[t].at + 1) % Pointer
         /\ Recent(ring, Slot(noting[t].at), noted)
    /\ (\A t \in SendThreads : noting[t] = Outside) => Recent(ring, Slot(ptr), noted)

-----------------------------------------------------------------------------
(* The pointer                                                             *)
LEMMA ModOf ==
    ASSUME NEW R \in Nat \ {0}, NEW q \in Nat, NEW r \in 0..(R - 1)
    PROVE  (R * q + r) % R = r
  OBVIOUS

(* The next number has the next slot, or the first.                        *)
LEMMA ModNext ==
    ASSUME NEW R \in Nat \ {0}, NEW a \in Nat
    PROVE  /\ a % R \in 0..(R - 1)
           /\ (a + 1) % R = IF a % R = R - 1 THEN 0 ELSE (a % R) + 1
  <1>1. PICK r \in 0..(R - 1) : r = a % R
    OBVIOUS
  <1>2. PICK q \in Nat : q = a \div R
    OBVIOUS
  <1>3. a = R * q + r
    BY <1>1, <1>2
  <1>4. CASE r = R - 1
    <2>1. a + 1 = R * (q + 1) + 0
      BY <1>3, <1>4
    <2>2. q + 1 \in Nat /\ 0 \in 0..(R - 1)
      OBVIOUS
    <2>3. (R * (q + 1) + 0) % R = 0
      BY Zenon, <2>2, ModOf
    <2> QED
      BY <1>1, <1>4, <2>1, <2>3
  <1>5. CASE r # R - 1
    <2>1. a + 1 = R * q + (r + 1)
      BY <1>3
    <2>2. r + 1 \in 0..(R - 1)
      BY <1>5
    <2>3. (R * q + (r + 1)) % R = r + 1
      BY Zenon, <2>2, ModOf
    <2> QED
      BY <1>1, <1>5, <2>1, <2>3
  <1> QED
    BY <1>4, <1>5

(* A pointer counted up has the next slot, where it wraps too.             *)
LEMMA SlotAfter ==
    ASSUME NEW a \in 0..(Pointer - 1)
    PROVE  /\ Slot(a) \in Places
           /\ (a + 1) % Pointer \in 0..(Pointer - 1)
           /\ Slot((a + 1) % Pointer) = After(Slot(a))
  <1>1. RingSize \in Nat \ {0} /\ Pointer \in Nat \ {0} /\ Pointer % RingSize = 0
    BY RepliesAssumption
  <1>2. a \in Nat
    BY <1>1
  <1>3. a % RingSize \in Places /\ (a + 1) % RingSize = After(a % RingSize)
    BY Zenon, <1>1, <1>2, ModNext DEF After, Places
  <1>4. CASE a + 1 < Pointer
    <2>1. (a + 1) % Pointer = a + 1
      BY <1>1, <1>2, <1>4
    <2> QED
      BY <1>1, <1>2, <1>3, <1>4, <2>1 DEF Slot
  <1>5. CASE a + 1 = Pointer
    <2>1. (a + 1) % Pointer = 0 /\ 0 % RingSize = 0
      BY <1>1, <1>5
    <2>2. (a + 1) % RingSize = 0
      BY <1>1, <1>5
    <2> QED
      BY <1>1, <1>3, <2>1, <2>2 DEF Slot
  <1> QED
    BY <1>1, <1>2, <1>4, <1>5

-----------------------------------------------------------------------------
(* The ring                                                                *)

(* A number goes into the slot after those of the last ones.               *)
LEMMA OneMore ==
    ASSUME NEW rg \in [Places -> Nat], NEW s \in Places, NEW nt \in Seq(Notes), NEW e \in Notes,
           Recent(rg, s, nt)
    PROVE  Recent([rg EXCEPT ![s] = e.id], After(s), Append(nt, e))
  <1> DEFINE rg2 == [rg EXCEPT ![s] = e.id]
             nt2 == Append(nt, e)
  <1>1. Len(nt) \in Nat /\ Len(nt2) = Len(nt) + 1 /\ nt2[Len(nt) + 1] = e
        /\ \A k \in 1..Len(nt) : nt2[k] = nt[k]
    OBVIOUS
  <1>2. PICK n \in Nat : n = Len(nt)
    BY <1>1
  <1>a. rg2[s] = e.id /\ \A p \in Places \ {s} : rg2[p] = rg[p]
    OBVIOUS
  <1> HIDE DEF nt2, rg2
  <1>3. RingSize \in Nat \ {0} /\ s \in 0..(RingSize - 1) /\ s \in Nat
    BY RepliesAssumption DEF Places
  <1>4. ASSUME NEW k \in 1..Len(nt2), k > Len(nt2) - RingSize, \A j \in k..Len(nt2) : nt2[j].alone
        PROVE  rg2[Back(After(s), Len(nt2) + 1 - k)] = nt2[k].id
    <2>1. Len(nt2) = n + 1 /\ k \in 1..(n + 1) /\ k > (n + 1) - RingSize
          /\ \A j \in k..(n + 1) : nt2[j].alone
      <3>1. Len(nt2) = n + 1
        BY <1>1, <1>2
      <3>2. k \in 1..(n + 1)
        BY Zenon, <1>4, <3>1
      <3>3. k > (n + 1) - RingSize
        BY Zenon, <1>4, <3>1
      <3>4. \A j \in k..(n + 1) : nt2[j].alone
        BY Zenon, <1>4, <3>1
      <3> QED
        BY Zenon, <3>1, <3>2, <3>3, <3>4
    <2>2. PICK d \in Nat : d = n + 1 - k
      BY <2>1
    <2>3. Len(nt2) + 1 - k = d + 1 /\ d < RingSize
      BY <1>3, <2>1, <2>2
    <2>4. CASE d = 0
      <3>1. Back(After(s), d + 1) = s
        BY <1>3, <2>4 DEF Back, After
      <3>2. nt2[k] = e
        BY <1>1, <1>2, <2>1, <2>2, <2>4
      <3> QED
        BY Zenon, <1>a, <2>3, <3>1, <3>2
    <2>5. CASE d # 0
      <3>1. k \in 1..n /\ k > n - RingSize
        BY <1>3, <2>1, <2>2, <2>5
      <3>2. ASSUME NEW j \in k..n PROVE nt[j].alone
        <4>1. j \in k..(n + 1) /\ j \in 1..n
          BY <3>1
        <4> QED
          BY <1>1, <1>2, <2>1, <4>1
      <3>3. rg[Back(s, d)] = nt[k].id
        BY <1>2, <2>2, <3>1, <3>2 DEF Recent
      <3>4. Back(After(s), d + 1) = Back(s, d) /\ Back(s, d) # s /\ Back(s, d) \in Places
        BY <1>3, <2>3, <2>5 DEF Back, After, Places
      <3>5. rg2[Back(s, d)] = rg[Back(s, d)] /\ nt2[k] = nt[k]
        BY Zenon, <1>a, <1>1, <1>2, <3>1, <3>4
      <3> QED
        BY Zenon, <2>3, <3>3, <3>4, <3>5
    <2> QED
      BY <2>4, <2>5
  <1> QED
    BY Zenon, <1>4 DEF Recent, nt2, rg2

(* After a number that was not noted alone, nothing is claimed.            *)
LEMMA NotAlone ==
    ASSUME NEW rg, NEW s, NEW nt \in Seq(Notes), NEW e \in Notes, ~e.alone
    PROVE  Recent(rg, s, Append(nt, e))
  <1>1. Len(nt) \in Nat /\ Len(Append(nt, e)) = Len(nt) + 1 /\ Append(nt, e)[Len(nt) + 1] = e
    OBVIOUS
  <1>2. \A k \in 1..(Len(nt) + 1) : Len(nt) + 1 \in k..(Len(nt) + 1)
    BY <1>1
  <1> QED
    BY <1>1, <1>2 DEF Recent

(* The answer to a number in the ring is let through.                      *)
LEMMA RecentFound ==
    ASSUME NEW s \in Places, ring \in [Places -> Nat], noted \in Seq(Notes), Recent(ring, s, noted)
    PROVE  RecentExpected
  <1>1. SUFFICES ASSUME NEW k \in DOMAIN noted, k > Len(noted) - RingSize,
                        \A j \in k..Len(noted) : noted[j].alone
                 PROVE  ExpectingReplyTo(noted[k].id)
    BY <1>1 DEF RecentExpected
  <1>2. PICK n \in Nat : n = Len(noted)
    OBVIOUS
  <1>3. k \in 1..n
    BY <1>2
  <1>4. ring[Back(s, n + 1 - k)] = noted[k].id
    BY <1>1, <1>2, <1>3 DEF Recent
  <1>5. RingSize \in Nat \ {0} /\ s \in 0..(RingSize - 1)
    BY RepliesAssumption DEF Places
  <1>6. PICK d \in Nat : d = n + 1 - k
    BY <1>3
  <1>7. d >= 1 /\ d <= RingSize
    BY <1>1, <1>2, <1>3, <1>5, <1>6
  <1>8. Back(s, d) \in Places
    BY <1>5, <1>7 DEF Back, Places
  <1>9. Back(s, d) \in DOMAIN ring
    BY <1>8
  <1> QED
    BY <1>4, <1>6, <1>9 DEF ExpectingReplyTo

-----------------------------------------------------------------------------
(* Every step                                                              *)
LEMMA RepliesInitially == RepliesInit => RepliesInv
  <1> SUFFICES ASSUME RepliesInit PROVE RepliesInv
    OBVIOUS
  <1>1. ring \in [Places -> Nat] /\ ptr \in 0..(Pointer - 1) /\ next \in Nat /\ noted \in Seq(Notes)
    BY RepliesAssumption DEF RepliesInit, Places
  <1>2. noting \in [SendThreads -> Calls \cup {Outside}] /\ \A t \in SendThreads : ~Alone(t)
    BY DEF RepliesInit, Alone
  <1>3. Recent(ring, Slot(ptr), noted)
    BY DEF RepliesInit, Recent
  <1> QED
    BY Zenon, <1>1, <1>2, <1>3 DEF RepliesInv

(* A thread reads the pointer;                                             *)
LEMMA LoadKeeps ==
    ASSUME RepliesInv, NEW t \in SendThreads, Load(t)
    PROVE  RepliesInv'
  <1>1. noting[t] = Outside /\ UNCHANGED <<ring, ptr, noted>> /\ next' = next + 1
    BY DEF Load
  <1>2. PICK x : x = [pc |-> "increment", id |-> next, at |-> ptr, alone |-> Others(t) = {}]
    BY Zenon
  <1>3. x \in Calls /\ x.pc = "increment" /\ x.at = ptr /\ (x.alone <=> Others(t) = {})
    BY Zenon, <1>2 DEF Calls, RepliesInv
  <1>4. /\ noting'[t] = x
        /\ \A o \in SendThreads \ {t} : noting'[o] = IF noting[o] = Outside THEN Outside
                                                     ELSE [noting[o] EXCEPT !.alone = FALSE]
        /\ noting' = [o \in SendThreads |-> noting'[o]]
    BY <1>2 DEF Load
  <1>5. ASSUME NEW o \in SendThreads \ {t}
        PROVE  /\ noting'[o] \in Calls \cup {Outside} /\ ~Alone(o)'
               /\ noting[o] = Outside => noting'[o] = Outside
    <2>1. CASE noting[o] = Outside
      BY <1>4, <2>1 DEF Alone
    <2>2. CASE noting[o] # Outside
      <3>1. noting[o] \in Calls /\ noting'[o] = [noting[o] EXCEPT !.alone = FALSE]
        BY <1>4, <2>2 DEF RepliesInv
      <3>2. noting'[o] \in Calls /\ noting'[o].alone = FALSE
        BY Zenon, <3>1 DEF Calls
      <3> QED
        BY <2>2, <3>2 DEF Alone
    <2> QED
      BY <2>1, <2>2
  <1>6. noting' \in [SendThreads -> Calls \cup {Outside}]
    BY <1>3, <1>4, <1>5
  <1>7. ASSUME Alone(t)'
        PROVE  /\ \A o \in SendThreads : noting[o] = Outside
               /\ \A o \in SendThreads \ {t} : noting'[o] = Outside
    <2>1. Others(t) = {}
      BY <1>3, <1>4, <1>7 DEF Alone
    <2> QED
      BY <1>1, <1>5, <2>1 DEF Others
  <1>8. noting'[t] # Outside
    BY <1>3, <1>4 DEF Outside
  <1>9. ASSUME NEW o \in SendThreads, Alone(o)'
        PROVE  /\ \A u \in SendThreads \ {o} : noting'[u] = Outside
               /\ ptr' = IF noting'[o].pc = "increment" THEN noting'[o].at ELSE (noting'[o].at + 1) % Pointer
               /\ Recent(ring', Slot(noting'[o].at), noted')
    <2>1. o = t
      BY Zenon, <1>5, <1>9
    <2>2. Recent(ring, Slot(ptr), noted)
      BY Zenon, <1>7, <1>9, <2>1 DEF RepliesInv
    <2> QED
      BY Zenon, <1>1, <1>3, <1>4, <1>7, <1>9, <2>1, <2>2
  <1>10. ring' \in [Places -> Nat] /\ ptr' \in 0..(Pointer - 1) /\ next' \in Nat /\ noted' \in Seq(Notes)
    BY <1>1 DEF RepliesInv
  <1> QED
    BY Zenon, <1>6, <1>8, <1>9, <1>10 DEF RepliesInv

(* counts it up;                                                           *)
LEMMA IncrementKeeps ==
    ASSUME RepliesInv, NEW t \in SendThreads, Increment(t)
    PROVE  RepliesInv'
  <1>1. noting[t].pc = "increment" /\ UNCHANGED <<ring, next, noted>>
        /\ ptr' = (noting[t].at + 1) % Pointer
        /\ noting' = [noting EXCEPT ![t].pc = "write"]
    BY DEF Increment
  <1>2. noting[t] \in Calls /\ noting[t] # Outside
    BY <1>1 DEF RepliesInv, Outside
  <1>3. PICK a \in 0..(Pointer - 1) : a = noting[t].at
    BY <1>2 DEF Calls
  <1>4. /\ noting'[t] \in Calls /\ noting'[t].pc = "write" /\ noting'[t].at = a
        /\ noting'[t].alone = noting[t].alone /\ noting'[t] # Outside
        /\ \A o \in SendThreads \ {t} : noting'[o] = noting[o]
        /\ noting' \in [SendThreads -> Calls \cup {Outside}]
    BY Zenon, <1>1, <1>2, <1>3 DEF RepliesInv, Calls, Outside
  <1>5. ptr' = (a + 1) % Pointer /\ ptr' \in 0..(Pointer - 1)
    BY Zenon, <1>1, <1>3, SlotAfter
  <1>6. ASSUME NEW o \in SendThreads, Alone(o)'
        PROVE  o = t /\ Alone(t)
    <2>1. CASE o # t
      <3>1. Alone(o) /\ t \in SendThreads \ {o}
        BY <1>4, <1>6, <2>1 DEF Alone
      <3> QED
        BY Zenon, <1>2, <3>1 DEF RepliesInv
    <2>2. CASE o = t
      BY <1>2, <1>4, <1>6, <2>2 DEF Alone
    <2> QED
      BY <2>1, <2>2
  <1>7. ASSUME NEW o \in SendThreads, Alone(o)'
        PROVE  /\ \A u \in SendThreads \ {o} : noting'[u] = Outside
               /\ ptr' = IF noting'[o].pc = "increment" THEN noting'[o].at ELSE (noting'[o].at + 1) % Pointer
               /\ Recent(ring', Slot(noting'[o].at), noted')
    <2>1. o = t /\ Alone(t)
      BY Zenon, <1>6, <1>7
    <2>2. (\A u \in SendThreads \ {t} : noting[u] = Outside) /\ Recent(ring, Slot(a), noted)
      BY Zenon, <1>3, <2>1 DEF RepliesInv
    <2>3. noting'[t].pc # "increment"
      BY <1>4
    <2> QED
      BY Zenon, <1>1, <1>4, <1>5, <2>1, <2>2, <2>3
  <1>8. ring' \in [Places -> Nat] /\ next' \in Nat /\ noted' \in Seq(Notes)
    BY <1>1 DEF RepliesInv
  <1> QED
    BY Zenon, <1>4, <1>5, <1>7, <1>8 DEF RepliesInv

(* and writes its note to the slot it read.                                *)
LEMMA WriteKeeps ==
    ASSUME RepliesInv, NEW t \in SendThreads, Write(t)
    PROVE  RepliesInv'
  <1>1. noting[t].pc = "write"
    BY DEF Write
  <1>2. noting[t] \in Calls /\ noting[t] # Outside
    BY <1>1 DEF RepliesInv, Outside
  <1>3. PICK a \in 0..(Pointer - 1) : a = noting[t].at
    BY <1>2 DEF Calls
  <1>4. PICK e : e = [id |-> noting[t].id, alone |-> noting[t].alone]
    BY Zenon
  <1>5. e \in Notes /\ e.id = noting[t].id /\ e.alone = noting[t].alone
    BY <1>2, <1>4 DEF Calls, Notes
  <1>6. /\ ring' = [ring EXCEPT ![Slot(a)] = e.id] /\ noted' = Append(noted, e)
        /\ noting' = [noting EXCEPT ![t] = Outside] /\ UNCHANGED <<ptr, next>>
    BY Zenon, <1>3, <1>4, <1>5 DEF Write
  <1>7. Slot(a) \in Places
    BY Zenon, SlotAfter
  <1>8. ring' \in [Places -> Nat] /\ noted' \in Seq(Notes)
    BY <1>5, <1>6, <1>7 DEF RepliesInv, Notes
  <1>9. ptr' \in 0..(Pointer - 1) /\ next' \in Nat
    BY <1>6 DEF RepliesInv
  <1>10. /\ noting'[t] = Outside /\ \A o \in SendThreads \ {t} : noting'[o] = noting[o]
         /\ noting' \in [SendThreads -> Calls \cup {Outside}]
    BY <1>6 DEF RepliesInv
  <1>11. ASSUME NEW o \in SendThreads PROVE ~Alone(o)'
    <2>1. CASE o = t
      BY <1>10, <2>1 DEF Alone
    <2>2. CASE o # t
      <3>1. ASSUME Alone(o) PROVE FALSE
        BY Zenon, <1>2, <2>2, <3>1 DEF RepliesInv
      <3> QED
        BY Zenon, <1>10, <2>2, <3>1 DEF Alone
    <2> QED
      BY <2>1, <2>2
  <1>12. Recent(ring', Slot(ptr'), noted')
    <2>1. CASE Alone(t)
      <3>1. ptr = (a + 1) % Pointer /\ Recent(ring, Slot(a), noted)
        <4>1. noting[t].pc # "increment"
          BY <1>1
        <4> QED
          BY Zenon, <1>3, <2>1, <4>1 DEF RepliesInv
      <3>2. Slot(ptr') = After(Slot(a))
        BY Zenon, <1>6, <3>1, SlotAfter
      <3>3. ring \in [Places -> Nat] /\ noted \in Seq(Notes)
        BY DEF RepliesInv
      <3> QED
        BY Zenon, <1>5, <1>6, <1>7, <3>1, <3>2, <3>3, OneMore
    <2>2. CASE ~Alone(t)
      <3>1. ~e.alone
        BY Zenon, <1>2, <1>5, <2>2 DEF Alone
      <3>2. noted \in Seq(Notes)
        BY DEF RepliesInv
      <3> QED
        BY Zenon, <1>5, <1>6, <3>1, <3>2, NotAlone
    <2> QED
      BY <2>1, <2>2
  <1> QED
    BY Zenon, <1>8, <1>9, <1>10, <1>11, <1>12 DEF RepliesInv

(* Every step preserves the invariant.                                     *)
LEMMA RepliesStep == RepliesInv /\ [RepliesNext]_repliesVars => RepliesInv'
  <1> SUFFICES ASSUME RepliesInv, [RepliesNext]_repliesVars PROVE RepliesInv'
    OBVIOUS
  <1>1. CASE UNCHANGED repliesVars
    <2>1. \A t \in SendThreads : Alone(t)' <=> Alone(t)
      BY <1>1 DEF Alone, repliesVars
    <2> QED
      BY Zenon, <1>1, <2>1 DEF RepliesInv, repliesVars
  <1> QED
    BY Zenon, <1>1, LoadKeeps, IncrementKeeps, WriteKeeps DEF RepliesNext, AllNoted

(* However the threads that send interleave in expectReplyTo(), which has  *)
(* no lock: the answer to a request among the last of its bucket is let    *)
(* through, if none since overlapped; the pointer's wrap loses none.       *)
THEOREM RecentAlwaysExpected == RepliesSpec => []RecentExpected
  <1>1. RepliesInv => RecentExpected
    <2>1. ASSUME RepliesInv, \A t \in SendThreads : noting[t] = Outside
          PROVE  RecentExpected
      <3>1. ring \in [Places -> Nat] /\ noted \in Seq(Notes) /\ Recent(ring, Slot(ptr), noted)
            /\ ptr \in 0..(Pointer - 1)
        BY Zenon, <2>1 DEF RepliesInv
      <3>2. Slot(ptr) \in Places
        BY Zenon, <3>1, SlotAfter
      <3> QED
        BY Zenon, <3>1, <3>2, RecentFound
    <2> QED
      BY Zenon, <2>1 DEF RecentExpected
  <1> QED
    BY <1>1, RepliesInitially, RepliesStep, PTL DEF RepliesSpec

-----------------------------------------------------------------------------
(* Fragmentation is right for every MTU, header length and packet size.    *)

(* A full payload is not empty.                                            *)
LEMMA PayloadPositive == Payload \in Nat /\ Payload > 0
  BY FragmenterAssumption DEF Payload

(* Later fragments have later places.                                      *)
LEMMA PlaceGrows ==
  ASSUME NEW a \in Nat, NEW b \in Nat, a <= b
  PROVE  Place(a) \in Nat /\ Place(b) \in Nat /\ Place(a) <= Place(b)
<1>1. Payload \in Nat /\ Payload > 0 /\ Mtu \in Nat
  BY PayloadPositive, FragmenterAssumption
<1> DEFINE P == Payload
<1> HIDE DEF P
<1>2. P \in Nat /\ P > 0
  BY <1>1 DEF P
<1>3. CASE a = 0
  <2>1. b # 0 => (b - 1) * P \in Nat
    BY <1>2
  <2> QED BY <1>1, <1>3, <2>1 DEF Place, P
<1>4. CASE a # 0
  <2>1. a - 1 \in Nat /\ b - 1 \in Nat /\ b - a \in Nat
    BY <1>4
  <2>2. (a - 1) * P \in Nat /\ (b - 1) * P \in Nat /\ (b - a) * P \in Nat
    BY <1>2, <2>1
  <2>3. (b - 1) * P = (a - 1) * P + (b - a) * P
    BY <1>2
  <2> QED BY <1>1, <1>4, <2>2, <2>3 DEF Place, P
<1> QED BY <1>3, <1>4

(* The next place is one payload further on.                               *)
LEMMA PlaceNext ==
  ASSUME NEW n \in Nat, n > 0
  PROVE  Place(n + 1) = Place(n) + Payload
<1> DEFINE P == Payload
<1> HIDE DEF P
<1>1. P \in Nat /\ Mtu \in Nat
  BY PayloadPositive, FragmenterAssumption DEF P
<1>2. (n + 1 - 1) * P = (n - 1) * P + P
  BY <1>1
<1>3. (n - 1) * P \in Int
  BY <1>1
<1> QED BY <1>1, <1>2, <1>3 DEF Place, P

(* The count of fragments is a division rounded up.                        *)
LEMMA FragsRemainingExact ==
  ASSUME NEW n \in Nat, n > 0
  PROVE  /\ FragsRemaining(n) \in Nat /\ FragsRemaining(n) > 0
         /\ (FragsRemaining(n) - 1) * Payload < n
         /\ n <= FragsRemaining(n) * Payload
<1> DEFINE P == Payload
           q == n \div P
           r == n % P
<1> HIDE DEF P
<1>1. P \in Nat /\ P > 0
  BY PayloadPositive DEF P
<1>2. q \in Nat /\ r \in 0..(P - 1) /\ n = P * q + r
  BY <1>1
<1> HIDE DEF q, r
<1>3. q * P = P * q /\ q * P \in Nat /\ (q + 1) * P = q * P + P /\ (q - 1) * P = q * P - P
  BY <1>1, <1>2
<1>4. FragsRemaining(n) = IF q * P < n THEN q + 1 ELSE q
  BY DEF FragsRemaining, q, P
<1>5. CASE q * P < n
  <2>1. FragsRemaining(n) = q + 1
    BY <1>4, <1>5
  <2>2. (q + 1 - 1) * P = q * P
    BY <1>1, <1>2
  <2> QED BY <1>1, <1>2, <1>3, <1>5, <2>1, <2>2 DEF P
<1>6. CASE ~(q * P < n)
  <2>1. FragsRemaining(n) = q /\ n = q * P
    BY <1>1, <1>2, <1>3, <1>4, <1>6
  <2>2. q # 0
    BY <1>1, <2>1
  <2> QED BY <1>1, <1>2, <1>3, <2>1, <2>2 DEF P
<1> QED BY <1>5, <1>6

---------------------------------------------------------------------------
(* The loop is where its counter says, and total is the number of pieces   *)
(* the packet needs: the strengthening that makes the properties inductive.*)
Progress ==
    /\ pc = "head" => total = 0 /\ fno = 0 /\ wire = {}
    /\ pc = "done" /\ wire = {} => total = 0
    /\ total > 0 =>
         /\ Place(total - 1) < size /\ size <= Place(total)
         /\ 1 <= fno /\ fno <= total
         /\ fragStart = Shorter(size, Place(fno))
         /\ remaining = size - fragStart
    /\ pc = "fragments" => total > 0 /\ wire # {}
    /\ pc = "done" => fno = total

CutInv == TypeOK /\ Progress /\ Reassembles /\ TotalExact /\ ReceiverTakesAll

(* A packet of a size that occurs needs at most 15 pieces.                 *)
LEMMA SizeFacts ==
  ASSUME NEW n \in Sizes
  PROVE  n \in Nat /\ n > 0 /\ n <= Place(15) /\ Place(0) = 0 /\ Place(1) = Mtu
<1>1. n \in 1..(MaxFragments * Mtu) /\ MaxFragments * Mtu \in Nat
  BY FragmenterAssumption
<1>2. Place(15) = Mtu + 14 * Payload
  BY PayloadPositive, FragmenterAssumption DEF Place
<1>3. Place(0) = 0 /\ Place(1) = Mtu
  BY PayloadPositive, FragmenterAssumption DEF Place
<1>4. MaxFragments * Mtu <= Place(15)
  BY <1>2, FragmenterAssumption
<1>5. Place(15) \in Nat
  BY <1>2, PayloadPositive, FragmenterAssumption
<1> HIDE DEF Place
<1> QED BY <1>1, <1>3, <1>4, <1>5

(* The number of pieces determines what a receiver can take.               *)
LEMMA FewEnough ==
  ASSUME NEW n \in Nat, NEW k \in Nat, NEW m \in Nat,
         k > 0, Place(k - 1) < n, n <= Place(m)
  PROVE  k <= m
<1>1. SUFFICES ASSUME m <= k - 1 PROVE FALSE
  OBVIOUS
<1>2. Place(m) <= Place(k - 1) /\ Place(m) \in Nat /\ Place(k - 1) \in Nat
  BY <1>1, PlaceGrows
<1> QED BY <1>2

(* The initial state satisfies the invariant.                              *)
LEMMA InitCut == Init => CutInv
<1> SUFFICES ASSUME Init PROVE CutInv
  OBVIOUS
<1>1. size \in Nat /\ size > 0
  BY SizeFacts DEF Init
<1>2. TypeOK
  BY <1>1 DEF Init, TypeOK
<1>3. Progress /\ Reassembles /\ TotalExact
  BY DEF Init, Progress, Reassembles, TotalExact
<1>4. ReceiverTakesAll
  BY FragmenterAssumption DEF Init, ReceiverTakesAll
<1> QED BY <1>2, <1>3, <1>4 DEF CutInv

(* Sending the head preserves it: total is the number of pieces.           *)
LEMMA SendHeadIInv == CutInv /\ SendHead => CutInv'
<1> SUFFICES ASSUME CutInv, SendHead PROVE CutInv'
  OBVIOUS
<1> DEFINE chunk == Shorter(size, Mtu)
           rest == size - chunk
<1>1. size \in Sizes /\ size \in Nat /\ size > 0 /\ size <= Place(15)
  BY SizeFacts DEF CutInv, TypeOK
<1>2. Mtu \in Nat /\ Mtu > 0 /\ Place(0) = 0 /\ Place(1) = Mtu
  BY <1>1, SizeFacts, FragmenterAssumption
<1>3. chunk \in Nat /\ chunk > 0 /\ chunk <= Mtu /\ rest \in Nat /\ chunk <= size
      /\ (rest > 0 <=> chunk < size) /\ (rest > 0 => chunk = Mtu) /\ chunk = Shorter(size, Place(1))
  BY <1>1, <1>2 DEF Shorter
<1>4. /\ wire' = {Fragment(0, 0, 0, chunk)}
      /\ fragStart' = chunk /\ remaining' = rest /\ fno' = 1
      /\ total' = FragsRemaining(rest) + 1
      /\ pc' = (IF chunk < size THEN "fragments" ELSE "done") /\ size' = size
  BY DEF SendHead
<1> HIDE DEF chunk, rest
<1>5. total' \in Nat /\ total' > 0 /\ Place(total' - 1) < size /\ size <= Place(total')
  <2>1. CASE rest = 0
    <3>1. 0 \div Payload = 0 /\ 0 * Payload = 0
      BY PayloadPositive
    <3>2. FragsRemaining(0) = 0
      BY <3>1, PayloadPositive DEF FragsRemaining
    <3> QED BY <1>1, <1>2, <1>3, <1>4, <2>1, <3>2
  <2>2. CASE rest > 0
    <3> DEFINE k == FragsRemaining(rest)
    <3>1. /\ k \in Nat /\ k > 0
          /\ (k - 1) * Payload < rest /\ rest <= k * Payload
      BY <1>3, <2>2, FragsRemainingExact
    <3>2. total' = k + 1
      BY <1>4
    <3> HIDE DEF k
    <3>3. Place(k + 1) = Mtu + k * Payload /\ Place(k) = Mtu + (k - 1) * Payload
      BY <3>1 DEF Place
    <3>4. k * Payload \in Int /\ (k - 1) * Payload \in Int
      BY <3>1, PayloadPositive
    <3>5. size = Mtu + rest
      BY <1>1, <1>2, <1>3, <2>2 DEF rest
    <3> QED BY <1>1, <1>2, <1>3, <3>1, <3>2, <3>3, <3>4, <3>5
  <2> QED BY <1>3, <2>1, <2>2
<1>6. total' <= 15
  BY <1>1, <1>5, FewEnough
<1>7. Fragment(0, 0, 0, chunk) = [no |-> 0, of |-> 0, start |-> 0, len |-> chunk]
  BY DEF Fragment
<1>8. TypeOK'
  <2>1. chunk \in 0..size /\ rest \in 0..size
    BY <1>1, <1>3 DEF rest
  <2>2. wire' \subseteq [no : 0..15, of : 0..15, start : Nat, len : Nat]
    BY <1>3, <1>4, <1>7
  <2> QED BY <1>1, <1>4, <1>5, <1>6, <2>1, <2>2 DEF TypeOK
<1>9. chunk = size => total' = 1
  <2> SUFFICES ASSUME chunk = size PROVE total' <= 1
    BY <1>5
  <2> QED BY <1>1, <1>2, <1>3, <1>5, FewEnough
<1>10. Progress'
  BY <1>1, <1>3, <1>4, <1>5, <1>9 DEF Progress, rest
<1>11. Reassembles'
  BY <1>1, <1>2, <1>3, <1>4, <1>7, FragmenterAssumption DEF Reassembles
<1>12. TotalExact'
  BY <1>1, <1>3, <1>4, <1>7, <1>9 DEF TotalExact, rest
<1>13. ReceiverTakesAll'
  BY <1>1, <1>4, <1>5, FewEnough, FragmenterAssumption DEF ReceiverTakesAll
<1> QED BY <1>8, <1>10, <1>11, <1>12, <1>13 DEF CutInv

(* Sending a fragment preserves it.                                        *)
LEMMA SendFragmentIInv == CutInv /\ SendFragment => CutInv'
<1> SUFFICES ASSUME CutInv, SendFragment PROVE CutInv'
  OBVIOUS
<1> DEFINE chunk == Shorter(remaining, Payload)
           frag == Fragment(fno, total, fragStart, chunk)
<1>1. size \in Sizes /\ size \in Nat /\ size > 0 /\ size <= Place(15)
  BY SizeFacts DEF CutInv, TypeOK
<1>2. Payload \in Nat /\ Payload > 0 /\ Mtu \in Nat /\ Header \in Nat /\ Payload + Header = Mtu
  BY PayloadPositive, FragmenterAssumption DEF Payload
<1>3. /\ pc = "fragments" /\ pc' = pc /\ size' = size /\ total' = total
      /\ fno < total /\ fno' = fno + 1
      /\ fragStart' = fragStart + chunk /\ remaining' = remaining - chunk
      /\ wire' = wire \cup {frag} \/ wire' = wire
  BY DEF SendFragment
<1>4. /\ fno \in 0..15 /\ total \in 0..15 /\ wire # {} /\ fno >= 1
      /\ Place(total - 1) < size /\ size <= Place(total)
      /\ fragStart = Shorter(size, Place(fno)) /\ remaining = size - fragStart
  BY <1>3 DEF CutInv, Progress, TypeOK
<1>5. Place(fno) \in Nat /\ Place(fno) < size /\ Place(fno + 1) = Place(fno) + Payload
  BY <1>1, <1>3, <1>4, PlaceGrows, PlaceNext
<1>6. fragStart = Place(fno) /\ remaining \in Nat /\ remaining > 0
  BY <1>1, <1>4, <1>5 DEF Shorter
<1>7. /\ chunk \in Nat /\ chunk > 0 /\ chunk <= Payload /\ chunk <= remaining
      /\ fragStart + chunk = Shorter(size, Place(fno + 1))
  BY <1>1, <1>2, <1>4, <1>5, <1>6 DEF Shorter
<1> HIDE DEF chunk
<1>8. frag = [no |-> fno, of |-> total, start |-> fragStart, len |-> chunk]
  BY <1>4 DEF Fragment
<1> HIDE DEF frag
<1>9. TypeOK'
  <2>1. frag \in [no : 0..15, of : 0..15, start : Nat, len : Nat]
    BY <1>4, <1>5, <1>6, <1>7, <1>8
  <2>2. wire' \subseteq [no : 0..15, of : 0..15, start : Nat, len : Nat]
    BY <1>3, <2>1 DEF CutInv, TypeOK
  <2>3. fragStart' \in 0..size /\ remaining' \in 0..size
    BY <1>1, <1>3, <1>4, <1>5, <1>6, <1>7 DEF Shorter
  <2> QED BY <1>1, <1>3, <1>4, <2>2, <2>3 DEF TypeOK
<1>10. wire' # {}
  BY <1>3, <1>4
<1>11. Progress'
  BY <1>1, <1>3, <1>4, <1>5, <1>6, <1>7, <1>10 DEF Progress
<1>12. Reassembles'
  <2>1. frag.start = Place(frag.no) /\ frag.len > 0 /\ frag.no # 0
        /\ frag.len + Header <= Mtu /\ frag.start + frag.len = Shorter(size, Place(frag.no + 1))
    BY <1>2, <1>4, <1>6, <1>7, <1>8
  <2> QED BY <1>3, <2>1 DEF CutInv, Reassembles
<1>13. TotalExact'
  BY <1>3, <1>4, <1>8 DEF CutInv, TotalExact
<1>14. ReceiverTakesAll'
  BY <1>3 DEF CutInv, ReceiverTakesAll
<1> QED BY <1>9, <1>11, <1>12, <1>13, <1>14 DEF CutInv

(* Every step preserves the invariant.                                     *)
LEMMA NextCut == CutInv /\ [Next]_vars => CutInv'
<1> SUFFICES ASSUME CutInv, [Next]_vars PROVE CutInv'
  OBVIOUS
<1>1. CASE SendHead
  BY <1>1, SendHeadIInv
<1>2. CASE HeadRefused
  <2>1. pc = "head" /\ pc' = "done" /\ wire = {} /\ total = 0
        /\ UNCHANGED <<size, fragStart, remaining, fno, total, wire>>
    BY <1>2 DEF HeadRefused, CutInv, Progress
  <2>2. fno = 0
    BY <2>1 DEF CutInv, Progress
  <2> QED BY Zenon, <2>1, <2>2 DEF CutInv, TypeOK, Progress, Reassembles, TotalExact, ReceiverTakesAll
<1>3. CASE SendFragment
  BY <1>3, SendFragmentIInv
<1>4. CASE Finish
  <2>1. pc = "fragments" /\ pc' = "done" /\ fno = total /\ wire # {} /\ total > 0
        /\ UNCHANGED <<size, fragStart, remaining, fno, total, wire>>
    BY <1>4 DEF Finish, CutInv, Progress
  <2>2. remaining = 0
    <3>1. fragStart = Shorter(size, Place(total)) /\ size <= Place(total) /\ remaining = size - fragStart
      BY <2>1 DEF CutInv, Progress
    <3>2. size \in Nat
      BY SizeFacts DEF CutInv, TypeOK
    <3> QED BY <3>1, <3>2 DEF Shorter
  <2> QED BY Zenon, <2>1, <2>2 DEF CutInv, TypeOK, Progress, Reassembles, TotalExact, ReceiverTakesAll
<1>5. CASE UNCHANGED vars
  BY Zenon, <1>5 DEF vars, CutInv, TypeOK, Progress, Reassembles, TotalExact, ReceiverTakesAll
<1>6. CASE Done
  BY <1>5, <1>6 DEF Done
<1> QED BY <1>1, <1>2, <1>3, <1>4, <1>5, <1>6 DEF Next

(* Whatever the MTU, the header and the packet: what Switch::_trySend puts *)
(* on the wire gives back the packet when a receiver appends it in order.  *)
THEOREM FragmentsReassemble == Spec => []Reassembles
<1>1. CutInv => Reassembles
  BY DEF CutInv
<1> QED BY <1>1, InitCut, NextCut, PTL DEF Spec

(* The total each fragment announces is the number of pieces there are.    *)
THEOREM TotalAlwaysExact == Spec => []TotalExact
<1>1. CutInv => TotalExact
  BY DEF CutInv
<1> QED BY <1>1, InitCut, NextCut, PTL DEF Spec

(* No packet that leaves room for the headers is cut into more pieces than *)
(* Switch::onRemotePacket takes.                                           *)
THEOREM ReceiverAlwaysTakesAll == Spec => []ReceiverTakesAll
<1>1. CutInv => ReceiverTakesAll
  BY DEF CutInv
<1> QED BY <1>1, InitCut, NextCut, PTL DEF Spec
=============================================================================
