----------------------------- MODULE Allocation -----------------------------
(***************************************************************************)
(* The automatic assignment of IPv4 addresses by the network controller    *)
(* (the end of _request() in EmbeddedNetworkController) on top of its      *)
(* store, controller/JSONDB: a thread reads a member's record and the      *)
(* network's summary, changes its copy, writes the member's file, then the *)
(* record in memory, and leaves a note for the summary thread, which       *)
(* collects the allocated addresses.  No lock spans these steps.           *)
(***************************************************************************)
EXTENDS Naturals, Sequences, FiniteSets

CONSTANTS
    Members,
    Low,          \* per member, the low bits of its ZeroTier address
    Workers,      \* threads that answer requests
    Pools,        \* ipAssignmentPools: a sequence of [start, end]
    Routes,       \* the network's routes: [first, last, via]
    MaxTrials,    \* addresses tried per pool (1000 in the code)
    MaxPosts,     \* bound: API calls
    MaxFailures   \* bound: writes of a file that fail

ASSUME AllocationAssumption ==
    /\ Low \in [Members -> Nat] /\ MaxTrials \in Nat /\ MaxPosts \in Nat
    /\ Pools \in Seq([start : Nat, end : Nat])

VARIABLES
    mem,          \* per member, its record in memory: [auth, ips], or None
    file,         \* per member, its record on disk, or None
    allocated,    \* summaryInfo.allocatedIps
    todo,         \* is the network in _summaryThreadToDo
    summing,      \* has the summary thread taken it from there
    thread,       \* per thread, what it is at
    posts, failures,
    torn,         \* history: per member, did a write of its file fail, or two saves overlap
    calm,         \* history: <<m, ip>> last assigned while nothing else was going on
    lapsed        \* history: members that were not authorized after they had been

allocationVars == <<mem, file, allocated, todo, summing, thread, posts, failures, torn, calm, lapsed>>

None == [none |-> TRUE]
Idle == [pc |-> "idle"]
Threads == Workers \cup {"api"}

Record(auth, ips) == [auth |-> auth, ips |-> ips]

(* Every member was let in by the API, and the summary is up to date.      *)
AllocationInit ==
    /\ mem = [m \in Members |-> Record(TRUE, {})]
    /\ file = mem
    /\ allocated = {} /\ todo = FALSE /\ summing = FALSE
    /\ thread = [t \in Threads |-> Idle]
    /\ posts = 0 /\ failures = 0
    /\ torn = [m \in Members |-> FALSE]
    /\ calm = {} /\ lapsed = {}

-----------------------------------------------------------------------------
(* _request()                                                              *)

(* An address counts as managed if a route without a gateway leads to it;  *)
(* the search for a new one takes any route.                               *)
Managed(ip) == \E r \in Routes : ~r.via /\ ip \in r.first..r.last
Routed(ip) == \E r \in Routes : ip \in r.first..r.last

Usable(ip, taken) == ip % 256 # 255 /\ Routed(ip) /\ ip \notin taken

(* The address of trial k.                                                 *)
Trial(pool, m, k) ==
    IF pool.end > pool.start
      THEN pool.start + ((Low[m] + k) % (pool.end - pool.start))
      ELSE pool.start

Trials(pool) ==
    IF pool.end < pool.start \/ pool.start = 0 THEN {}
    ELSE {k \in 0..(pool.end - pool.start) : k < MaxTrials}

Found(pool, m, taken) == {k \in Trials(pool) : Usable(Trial(pool, m, k), taken)}

(* The first address of the first pool that has one, or none.              *)
AutoAssigned(m, taken) ==
    LET having == {p \in DOMAIN Pools : Found(Pools[p], m, taken) # {}}
        p == CHOOSE q \in having : \A o \in having : q <= o
        k == CHOOSE j \in Found(Pools[p], m, taken) :
                \A i \in Found(Pools[p], m, taken) : j <= i
    IN IF having = {} THEN {} ELSE {Trial(Pools[p], m, k)}

Quiet == ~todo /\ ~summing /\ \A t \in Threads : thread[t] = Idle

(* getNetworkAndMember() and what follows from it.  A request of the       *)
(* member's own changes the log in its record, an update does not.         *)
Request(w, m, genuine) ==
    LET old == IF mem[m] = None THEN Record(FALSE, {}) ELSE mem[m]
        needs == old.auth /\ ~\E ip \in old.ips : Managed(ip)
        new == IF needs THEN AutoAssigned(m, allocated) ELSE {}
        rec == [old EXCEPT !.ips = @ \cup new]
        given == {<<m, ip>> : ip \in new}
    IN /\ thread[w] = Idle
       /\ genuine \/ rec # mem[m]
       /\ thread' = [thread EXCEPT ![w] = [pc |-> "write", m |-> m, rec |-> rec]]
       /\ calm' = IF Quiet THEN calm \cup given ELSE calm \ given
       /\ UNCHANGED <<mem, file, allocated, todo, summing, posts, failures, torn, lapsed>>

-----------------------------------------------------------------------------
(* The API, on the main thread                                             *)

PostMember(m, auth) ==
    LET old == IF mem[m] = None THEN Record(FALSE, {}) ELSE mem[m]
        rec == [old EXCEPT !.auth = auth]
    IN /\ thread["api"] = Idle /\ posts < MaxPosts
       /\ posts' = posts + 1
       /\ thread' = IF rec = mem[m] THEN thread
                    ELSE [thread EXCEPT !["api"] = [pc |-> "write", m |-> m, rec |-> rec]]
       /\ lapsed' = IF auth THEN lapsed ELSE lapsed \cup {m}
       /\ UNCHANGED <<mem, file, allocated, todo, summing, failures, torn, calm>>

(* Is t between its change of m's file and that of m's record; is another? *)
Between(t, m) == thread[t].pc \in {"store", "erase"} /\ thread[t].m = m
AnotherBetween(t, m) == \E o \in Threads \ {t} : Between(o, m)

(* eraseNetworkMember(): the file, then the record.                        *)
DeleteMember(m) ==
    /\ thread["api"] = Idle /\ posts < MaxPosts
    /\ posts' = posts + 1
    /\ file' = [file EXCEPT ![m] = None]
    /\ torn' = [torn EXCEPT ![m] = AnotherBetween("api", m)]
    /\ thread' = [thread EXCEPT !["api"] = [pc |-> "erase", m |-> m]]
    /\ lapsed' = lapsed \cup {m}
    /\ UNCHANGED <<mem, allocated, todo, summing, failures, calm>>

Erase ==
    /\ thread["api"].pc = "erase"
    /\ mem' = [mem EXCEPT ![thread["api"].m] = None]
    /\ todo' = (todo \/ mem[thread["api"].m] # None)
    /\ thread' = [thread EXCEPT !["api"] = Idle]
    /\ UNCHANGED <<file, allocated, summing, posts, failures, torn, calm, lapsed>>

-----------------------------------------------------------------------------
(* saveNetworkMember(): writeRaw() without a lock, whose result is not     *)
(* looked at, then the record under the lock, then the note.               *)
WriteRaw(t, ok) ==
    LET m == thread[t].m IN
    /\ thread[t].pc = "write"
    /\ ok \/ failures < MaxFailures
    /\ failures' = IF ok THEN failures ELSE failures + 1
    /\ file' = IF ok THEN [file EXCEPT ![m] = thread[t].rec] ELSE file
    /\ torn' = [torn EXCEPT ![m] = ~ok \/ AnotherBetween(t, m)]
    /\ thread' = [thread EXCEPT ![t] = [pc |-> "store", m |-> m, rec |-> thread[t].rec]]
    /\ UNCHANGED <<mem, allocated, todo, summing, posts, calm, lapsed>>

BugStore(t) ==
    /\ thread[t].pc = "store"
    /\ mem' = [mem EXCEPT ![thread[t].m] =
                 IF @ = None THEN @ ELSE thread[t].rec]
    /\ thread' = [thread EXCEPT ![t] = [pc |-> "note"]]
    /\ UNCHANGED <<file, allocated, todo, summing, posts, failures, torn, calm, lapsed>>

Store(t) ==
    /\ thread[t].pc = "store"
    /\ mem' = [mem EXCEPT ![thread[t].m] = thread[t].rec]
    /\ thread' = [thread EXCEPT ![t] = [pc |-> "note"]]
    /\ UNCHANGED <<file, allocated, todo, summing, posts, failures, torn, calm, lapsed>>

RecomputeSummaryInfo(t) ==
    /\ thread[t].pc = "note"
    /\ todo' = TRUE
    /\ thread' = [thread EXCEPT ![t] = Idle]
    /\ UNCHANGED <<mem, file, allocated, summing, posts, failures, torn, calm, lapsed>>

-----------------------------------------------------------------------------
(* threadMain() of JSONDB: it empties the list of networks to do, then     *)
(* computes their summaries.                                               *)
TakeToDo ==
    /\ todo /\ ~summing
    /\ todo' = FALSE /\ summing' = TRUE
    /\ UNCHANGED <<mem, file, allocated, thread, posts, failures, torn, calm, lapsed>>

Authorized == {m \in Members : mem[m] # None /\ mem[m].auth}

BugAllocatedIps == UNION {mem[m].ips : m \in {n \in Authorized : Cardinality(mem[n].ips) > 1}}

AllocatedIps == UNION {mem[m].ips : m \in Authorized}

Summarize ==
    /\ summing
    /\ summing' = FALSE
    /\ allocated' = AllocatedIps
    /\ UNCHANGED <<mem, file, todo, thread, posts, failures, torn, calm, lapsed>>

AllocationNext ==
    \/ \E w \in Workers, m \in Members, genuine \in BOOLEAN : Request(w, m, genuine)
    \/ \E m \in Members : DeleteMember(m) \/ \E auth \in BOOLEAN : PostMember(m, auth)
    \/ Erase \/ TakeToDo \/ Summarize
    \/ \E t \in Threads :
         \/ \E ok \in BOOLEAN : WriteRaw(t, ok)
         \/ Store(t) \/ RecomputeSummaryInfo(t)

AllocationSpec == AllocationInit /\ [][AllocationNext]_allocationVars

-----------------------------------------------------------------------------
(* Two members that stayed authorized have the same address only if one of *)
(* them got it while the other's record, or the summary, was on its way:   *)
(* the summary, when it is not behind, keeps assignments apart, whichever  *)
(* copies the workers save.                                                *)
ClashNeedsHaste ==
    \A m, n \in Authorized \ lapsed :
        m # n => \A ip \in mem[m].ips \cap mem[n].ips : <<m, ip>> \notin calm \/ <<n, ip>> \notin calm

(* When nobody is between the file and the record, they are the same,      *)
(* unless a write failed or two saves overlapped since.                    *)
FileFollows ==
    \A m \in Members :
        ~torn[m] /\ (\A t \in Threads : ~Between(t, m)) => file[m] = mem[m]
=============================================================================
