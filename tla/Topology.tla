------------------------------ MODULE Topology ------------------------------
(***************************************************************************)
(* node/Topology.cpp: the planet and the moons a node follows, the         *)
(* upstreams they make, and the table of peers.  Threads take the two      *)
(* locks _upstreams_m and _peers_m in the order the code does; the files   *)
(* are those of service/OneService.cpp.  A crash may come at any moment.   *)
(***************************************************************************)
EXTENDS Naturals

CONSTANTS
    Callers,
    Self,            \* RR->identity
    Addrs,           \* the addresses of other nodes
    DefaultPlanet,   \* ZT_DEFAULT_WORLD
    Worlds,          \* the worlds that upstreams may send
    Seeds,           \* seeds an operator may name: addresses, or NoSeed
    Embedders,       \* who keeps the files: "contract", "OneService"
    NoSeed

(* World::make() has two types; addWorld() lets no other in.  The id of a  *)
(* world is never zero: a moon's is the address of one of its roots.       *)
ASSUME TopologyAssumption ==
    /\ "nobody" \notin Callers
    /\ \A w \in Worlds \cup {DefaultPlanet} :
         w.type \in {"planet", "moon"} /\ w.id \in Nat \ {0} /\ w.ts \in Nat
    /\ DefaultPlanet.type = "planet"

VARIABLES
    planet, moons,   \* _planet, _moons
    moonSeeds,       \* _moonSeeds; which of several that fit goes first is left open
    upstreams,       \* _upstreamAddresses
    amRoot,          \* _amRoot
    known,           \* the keys of _peers
    files,           \* what is stored: the planet and, by id, the moons
    calls,           \* per thread, the call it is in and how far it is
    holder,          \* per lock, the thread that holds it
    embedder,
    unsaved,         \* history: worlds whose last stateObjectPut() failed
    wanted           \* history: moons whose last call was orbit()

worlds == <<planet, moons, moonSeeds, upstreams, amRoot>>
topologyVars == <<worlds, known, files, calls, holder, embedder, unsaved, wanted>>

Null == [type |-> "null", id |-> 0, ts |-> 0, key |-> "", signer |-> "", roots |-> {}]
Garbage == [Null EXCEPT !.type = "garbage"]
Nobody == "nobody"
NoCall == [op |-> "idle"]

MoonIds == {w.id : w \in {v \in Worlds : v.type = "moon"}}
PlanetFile == 0
Files == {PlanetFile} \cup MoonIds
FileOf(w) == IF w.type = "planet" THEN PlanetFile ELSE w.id

(***************************************************************************)
(* Worlds                                                                  *)
(***************************************************************************)
BugShouldBeReplacedBy(w, update) ==
    \/ w.id = 0 \/ w.type = "null"
    \/ w.id = update.id /\ w.type = update.type /\ update.signer = w.key

(* World::shouldBeReplacedBy(): "key" must sign the next update.           *)
ShouldBeReplacedBy(w, update) ==
    \/ w.id = 0 \/ w.type = "null"
    \/ w.id = update.id /\ w.ts < update.ts /\ w.type = update.type /\ update.signer = w.key

(* _memoizeUpstreams() of planet p and moons ms.                           *)
RootsOf(p, ms) == p.roots \cup UNION {m.roots : m \in ms}

Memoized(p, ms, us, root, ks) ==
    /\ us = RootsOf(p, ms) \ {Self}
    /\ root = (Self \in RootsOf(p, ms))
    /\ ks = known \cup (RootsOf(p, ms) \ {Self})

(* The seeds with w's id that are roots of w.                              *)
SeedsFor(w) == {s \in moonSeeds : s[1] = w.id /\ s[2] \in w.roots}

Follows(w, ms) == \E m \in ms : m.id = w.id

(* addWorld() decides: is w taken, given the planet, moons and seeds?      *)
Accepts(w, always) ==
    IF w.type = "planet" THEN ShouldBeReplacedBy(planet, w)
    ELSE IF Follows(w, moons) THEN \A m \in moons : m.id = w.id => ShouldBeReplacedBy(m, w)
    ELSE always \/ SeedsFor(w) # {}

(***************************************************************************)
(* The files.  A write that fails leaves the old file, or one cut short;   *)
(* the result is ignored.  OneService looks for a moon under a name made   *)
(* of the address of its id in memory, where there is no file.             *)
(***************************************************************************)
StateObjectPut(w) ==
    \E written \in {w, Garbage, files[FileOf(w)]} :
        /\ files' = [files EXCEPT ![FileOf(w)] = written]
        /\ unsaved' = IF written = w THEN unsaved \ {FileOf(w)} ELSE unsaved \cup {FileOf(w)}

StateObjectGet(f) ==
    IF f # PlanetFile /\ embedder = "OneService" THEN Null ELSE files[f]

(***************************************************************************)
(* The first start, with no files.  Later ones are Restart.                *)
(***************************************************************************)
TopologyInit ==
    /\ planet = DefaultPlanet /\ moons = {} /\ moonSeeds = {}
    /\ upstreams = DefaultPlanet.roots \ {Self} /\ amRoot = (Self \in DefaultPlanet.roots)
    /\ known = DefaultPlanet.roots \ {Self}
    /\ files = [f \in Files |-> IF f = PlanetFile THEN DefaultPlanet ELSE Null]
    /\ calls = [t \in Callers |-> NoCall]
    /\ holder = [l \in {"upstreams", "peers"} |-> Nobody]
    /\ embedder \in Embedders
    /\ unsaved = {} /\ wanted = {}

(* Topology's constructor, then OneService's orbit() of every moon file.   *)
Restart ==
    LET onDisk == StateObjectGet(PlanetFile)
        cached == IF onDisk.type = "planet" THEN onDisk ELSE Null
        p == IF ShouldBeReplacedBy(cached, DefaultPlanet) THEN DefaultPlanet ELSE cached
        ms == {w \in {StateObjectGet(i) : i \in MoonIds} : w.type = "moon"}
    IN /\ planet' = p /\ moons' = ms /\ moonSeeds' = {}
       /\ upstreams' = RootsOf(p, ms) \ {Self} /\ amRoot' = (Self \in RootsOf(p, ms))
       /\ known' = (cached.roots \cup RootsOf(p, ms)) \ {Self}
       /\ IF p = onDisk
            THEN UNCHANGED <<files, unsaved>>
            ELSE StateObjectPut(p)
       /\ calls' = [t \in Callers |-> NoCall]
       /\ holder' = [l \in {"upstreams", "peers"} |-> Nobody]
       /\ UNCHANGED <<embedder, wanted>>

(***************************************************************************)
(* Calls.  A call locks first[op], then second[op], does its work and      *)
(* unlocks both; shorter ones need one lock for one step.                  *)
(***************************************************************************)
First(op) == IF op \in {"addWorld", "removeMoon"} THEN "upstreams" ELSE "peers"

Second(op) == IF First(op) = "upstreams" THEN "peers" ELSE "upstreams"

TwoLocks == {"addWorld", "removeMoon", "doPeriodicTasks", "getUpstreamPeer"}

Goto(t, call) == calls' = [calls EXCEPT ![t] = call]

LockFirst(t) ==
    /\ calls[t].op \in TwoLocks
    /\ holder[First(calls[t].op)] = Nobody
    /\ \A l \in DOMAIN holder : holder[l] # t
    /\ holder' = [holder EXCEPT ![First(calls[t].op)] = t]
    /\ UNCHANGED <<worlds, known, files, calls, embedder, unsaved, wanted>>

(* The second lock is taken, and both are released at the end.             *)
Locked(t, op) ==
    /\ calls[t].op = op
    /\ holder[First(op)] = t /\ holder[Second(op)] = Nobody
    /\ holder' = [holder EXCEPT ![First(op)] = Nobody]
    /\ Goto(t, NoCall)

(* OK(HELLO) from an address with a world: is it one to take worlds from?  *)
DoOk(t, from, w) ==
    /\ calls[t] = NoCall /\ holder["upstreams"] = Nobody
    /\ \/ from \in upstreams
       \/ \E s \in moonSeeds : s[2] = from
    /\ Goto(t, [op |-> "addWorld", w |-> w, always |-> FALSE])
    /\ UNCHANGED <<worlds, known, files, holder, embedder, unsaved, wanted>>

AddWorld(t) ==
    /\ Locked(t, "addWorld")
    /\ LET w == calls[t].w IN
       IF ~Accepts(w, calls[t].always)
         THEN UNCHANGED <<worlds, known, files, unsaved>>
         ELSE /\ planet' = IF w.type = "planet" THEN w ELSE planet
              /\ moons' = IF w.type = "planet" THEN moons
                          ELSE {m \in moons : m.id # w.id} \cup {w}
              /\ IF w.type = "planet" \/ Follows(w, moons) \/ calls[t].always
                   THEN UNCHANGED moonSeeds
                   ELSE \E s \in SeedsFor(w) : moonSeeds' = moonSeeds \ {s}
              /\ StateObjectPut(w)
              /\ Memoized(planet', moons', upstreams', amRoot', known')
    /\ UNCHANGED <<embedder, wanted>>

(* Node::orbit() and addMoon(): the file is read without a lock.           *)
Orbit(t, id, seed) ==
    /\ calls[t] = NoCall
    /\ LET w == StateObjectGet(id) IN
       \/ w.type = "moon" /\ Goto(t, [op |-> "addWorld", w |-> w, always |-> TRUE])
       \/ w.type # "moon" /\ seed # NoSeed /\ Goto(t, [op |-> "seed", id |-> id, seed |-> seed])
    /\ wanted' = wanted \cup {id}
    /\ UNCHANGED <<worlds, known, files, holder, embedder, unsaved>>

AddSeed(t) ==
    /\ calls[t].op = "seed" /\ holder["upstreams"] = Nobody
    /\ moonSeeds' = moonSeeds \cup {<<calls[t].id, calls[t].seed>>}
    /\ Goto(t, NoCall)
    /\ UNCHANGED <<planet, moons, upstreams, amRoot, known, files, holder, embedder, unsaved, wanted>>

Deorbit(t, id) ==
    /\ calls[t] = NoCall
    /\ Goto(t, [op |-> "removeMoon", id |-> id])
    /\ UNCHANGED <<worlds, known, files, holder, embedder, unsaved, wanted>>

OrbitInFlight(id) ==
    \E t \in Callers :
        \/ calls[t].op = "seed" /\ calls[t].id = id
        \/ calls[t].op = "addWorld" /\ calls[t].w.id = id /\ calls[t].always

BugSeedsWithout(id) == moonSeeds

SeedsWithout(id) == {s \in moonSeeds : s[1] # id}

RemoveMoon(t) ==
    LET id == calls[t].id IN
    /\ Locked(t, "removeMoon")
    /\ moons' = {m \in moons : m.id # id}
    /\ moonSeeds' = SeedsWithout(id)
    /\ files' = IF \E m \in moons : m.id = id THEN [files EXCEPT ![id] = Null] ELSE files
    /\ unsaved' = unsaved \ {id}
    /\ wanted' = IF OrbitInFlight(id) THEN wanted ELSE wanted \ {id}
    /\ Memoized(planet, moons', upstreams', amRoot', known')
    /\ UNCHANGED <<planet, embedder>>

(* addPeer(): somebody is learned.                                         *)
AddPeer(a) ==
    /\ holder["peers"] = Nobody /\ a \notin known
    /\ known' = known \cup {a}
    /\ UNCHANGED <<worlds, files, calls, holder, embedder, unsaved, wanted>>

(* Housekeeping, and the choice of an upstream: both lock the peers first. *)
Begin(t, op) ==
    /\ calls[t] = NoCall /\ Goto(t, [op |-> op])
    /\ UNCHANGED <<worlds, known, files, holder, embedder, unsaved, wanted>>

BugKeeps(a, dead) == a \notin dead

Keeps(a, dead) == a \notin dead \/ a \in upstreams

DoPeriodicTasks(t, dead) ==
    /\ Locked(t, "doPeriodicTasks")
    /\ known' = {a \in known : Keeps(a, dead)}
    /\ UNCHANGED <<worlds, files, embedder, unsaved, wanted>>

GetUpstreamPeer(t) ==
    /\ Locked(t, "getUpstreamPeer")
    /\ UNCHANGED <<worlds, known, files, embedder, unsaved, wanted>>

TopologyNext ==
    \/ Restart
    \/ \E a \in Addrs : AddPeer(a)
    \/ \E t \in Callers :
         \/ LockFirst(t) \/ AddWorld(t) \/ AddSeed(t) \/ RemoveMoon(t) \/ GetUpstreamPeer(t)
         \/ \E from \in Addrs, w \in Worlds : DoOk(t, from, w)
         \/ \E id \in MoonIds : Deorbit(t, id) \/ \E seed \in Seeds : Orbit(t, id, seed)
         \/ \E op \in {"doPeriodicTasks", "getUpstreamPeer"} : Begin(t, op)
         \/ \E dead \in SUBSET Addrs : DoPeriodicTasks(t, dead)

TopologySpec == TopologyInit /\ [][TopologyNext]_topologyVars

-----------------------------------------------------------------------------
(* The memoized upstreams are the roots of the worlds in force, without    *)
(* the node itself, and each has a peer to send to: housekeeping, learned  *)
(* peers and changes of worlds by other threads never break this.          *)
UpstreamsExact ==
    /\ upstreams = RootsOf(planet, moons) \ {Self}
    /\ amRoot = (Self \in RootsOf(planet, moons))
    /\ upstreams \subseteq known

(* No world in force is replaced by an older one or dropped, except by     *)
(* deorbit(); over a crash this needs the file to have been written, and   *)
(* for moons a StateObjectGet() that finds it.                             *)
Lasting(f) == f \notin unsaved /\ (f = PlanetFile \/ embedder = "contract")

WorldsStep ==
    /\ planet'.ts >= planet.ts \/ PlanetFile \in unsaved
    /\ \A m \in moons : \/ \E n \in moons' : n.id = m.id /\ n.ts >= m.ts
                        \/ \E t \in Callers : calls[t] = [op |-> "removeMoon", id |-> m.id]
                        \/ ~Lasting(m.id)

WorldsNeverBack == [][WorldsStep]_topologyVars

(* A moon that has been deorbited does not come back, not from a late      *)
(* OK(HELLO), not from a seed and not from a file, until somebody orbits   *)
(* it again.                                                               *)
DeorbitSticks == \A m \in moons : m.id \in wanted

(* Thread t has its first lock and waits for one that u has.               *)
Waits(t, u) ==
    /\ calls[t].op \in TwoLocks /\ holder[First(calls[t].op)] = t
    /\ holder[Second(calls[t].op)] = u

(* "@return Root server or NULL if none available": getUpstreamPeer()      *)
(* comes back with an answer.  It cannot once its thread and another, in   *)
(* addWorld() or removeMoon(), have a lock each that the other waits for.  *)
CallsReturn == \A t, u \in Callers : ~(Waits(t, u) /\ Waits(u, t))

(* "Moons are persisted in the data store in moons.d/, so this can persist *)
(* across invocations if the contents of moon.d are scanned and orbit is   *)
(* called for each on startup": a moon that is on disk is in force.        *)
MoonsPersist ==
    \A i \in MoonIds : files[i].type = "moon" => \E m \in moons : m.id = i
=============================================================================
