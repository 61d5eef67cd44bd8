---------------------------- MODULE Controller ----------------------------
(***************************************************************************)
(* controller/EmbeddedNetworkController and its store, controller/JSONDB,  *)
(* for one network: the main thread serves the JSON API and queues the     *)
(* configuration requests of members, worker threads answer them.  A       *)
(* worker works on a copy of the member's record and saves it afterwards.  *)
(***************************************************************************)
EXTENDS Naturals, Sequences, FiniteSets

CONSTANTS
    Members,
    Workers,     \* worker threads
    Infos,       \* what a request tells of the member: its version, its address
    MaxQueue,    \* bound: genuine requests wait only in a queue shorter than this
    MaxPosts     \* bound: API calls that change something

VARIABLES
    network,   \* the network's object, or None
    mem,       \* per member, its object, or None
    queue,     \* _queue
    worker,    \* per worker, the request it is at
    api,       \* the API call the main thread is at
    status,    \* per member, _memberStatus: [recent, online, meta]
    sent,      \* per member, the last answer sent to it
    posts,     \* API calls so far
    allowed    \* history: members that the API ever let in

controllerVars == <<network, mem, queue, worker, api, status, sent, posts, allowed>>

None == [none |-> TRUE]

Networks == [rev : 0..MaxPosts, private : BOOLEAN]

(* A member's record: authorized, whether authHistory has an entry, and    *)
(* what the member told of itself last ("" if nothing).                    *)
Records == [auth : BOOLEAN, hist : BOOLEAN, info : Infos \cup {""}]

(* _initMember                                                             *)
InitMember == [auth |-> FALSE, hist |-> FALSE, info |-> ""]

(* An entry of the queue; "asked" is the network's revision when the API   *)
(* queued it.                                                              *)
Requests == [m : Members, genuine : BOOLEAN, info : Infos, asked : 0..MaxPosts]

Answers == [kind : {"none", "notFound", "denied", "config"}, rev : 0..MaxPosts]

Answer(kind, rev) == [kind |-> kind, rev |-> rev]

Idle == [pc |-> "idle"]

(* The API has made no network yet, or a private one.                      *)
ControllerInit ==
    /\ network \in {None, [rev |-> 0, private |-> TRUE]}
    /\ mem = [m \in Members |-> None]
    /\ queue = <<>>
    /\ worker = [w \in Workers |-> Idle]
    /\ api = Idle
    /\ status = [m \in Members |-> [recent |-> FALSE, online |-> FALSE, meta |-> ""]]
    /\ sent = [m \in Members |-> Answer("none", 0)]
    /\ posts = 0
    /\ allowed = {}

Revision == IF network = None THEN 0 ELSE network.rev

---------------------------------------------------------------------------
(* The main thread                                                         *)

Request(m, info) ==
    /\ api = Idle /\ Len(queue) < MaxQueue
    /\ queue' = Append(queue, [m |-> m, genuine |-> TRUE, info |-> info, asked |-> 0])
    /\ UNCHANGED <<network, mem, worker, api, status, sent, posts, allowed>>

(* Queues an update for every one of ms that is online and has asked, in   *)
(* the order of the hash table, which may be any.                          *)
Push(ms, rev) ==
    LET to == {m \in ms : status[m].online /\ status[m].meta # ""}
        updates == {[m |-> m, genuine |-> FALSE, info |-> status[m].meta,
                     asked |-> rev] : m \in to}
    IN \E n \in 0..Cardinality(updates) : \E order \in [1..n -> updates] :
         /\ \A u \in updates : \E i \in 1..n : order[i] = u
         /\ queue' = queue \o order

(* POST of the network: read, change, save, then update the members.       *)
BugPostNetwork(private) ==
    /\ api = Idle /\ posts < MaxPosts
    /\ posts' = posts + 1
    /\ api' = [pc |-> "saveNetwork", private |-> private]
    /\ Push(Members, Revision + 1)
    /\ UNCHANGED <<network, mem, worker, status, sent, allowed>>

PostNetwork(private) ==
    /\ api = Idle /\ posts < MaxPosts
    /\ posts' = posts + 1
    /\ api' = [pc |-> "saveNetwork", private |-> private]
    /\ UNCHANGED <<network, mem, queue, worker, status, sent, allowed>>

SaveNetwork ==
    /\ api.pc = "saveNetwork"
    /\ network' = [rev |-> Revision + 1, private |-> api.private]
    /\ allowed' = IF api.private THEN allowed ELSE Members
    /\ api' = [pc |-> "pushNetwork"]
    /\ UNCHANGED <<mem, queue, worker, status, sent, posts>>

PushNetwork ==
    /\ api.pc = "pushNetwork"
    /\ Push(Members, Revision)
    /\ api' = Idle
    /\ UNCHANGED <<network, mem, worker, status, sent, posts, allowed>>

(* POST of a member that sets "authorized".  The network exists: there is  *)
(* no such check in the code, which would store a member of nothing.       *)
PostMember(m, auth) ==
    /\ api = Idle /\ network # None /\ posts < MaxPosts
    /\ posts' = posts + 1
    /\ LET old == IF mem[m] = None THEN InitMember ELSE mem[m]
       IN api' = [pc |-> "saveMember", m |-> m, was |-> mem[m],
                  rec |-> [old EXCEPT !.auth = auth, !.hist = @ \/ auth # old.auth]]
    /\ UNCHANGED <<network, mem, queue, worker, status, sent, allowed>>

SaveMember ==
    /\ api.pc = "saveMember"
    /\ IF api.rec # api.was
         THEN /\ mem' = [mem EXCEPT ![api.m] = api.rec]
              /\ api' = [pc |-> "pushMember", m |-> api.m]
         ELSE /\ api' = Idle
              /\ UNCHANGED mem
    /\ allowed' = IF api.rec.auth THEN allowed \cup {api.m} ELSE allowed
    /\ UNCHANGED <<network, queue, worker, status, sent, posts>>

PushMember ==
    /\ api.pc = "pushMember"
    /\ Push({api.m}, Revision)
    /\ api' = Idle
    /\ UNCHANGED <<network, mem, worker, status, sent, posts, allowed>>

(* DELETE of a member: first its record goes, if there is one, then its    *)
(* status.                                                                 *)
DeleteMember(m) ==
    /\ api = Idle /\ posts < MaxPosts
    /\ posts' = posts + 1
    /\ mem' = [mem EXCEPT ![m] = None]
    /\ api' = [pc |-> "forget", m |-> m]
    /\ UNCHANGED <<network, queue, worker, status, sent, allowed>>

ForgetMember ==
    /\ api.pc = "forget"
    /\ status' = [status EXCEPT ![api.m] = [recent |-> FALSE, online |-> FALSE, meta |-> ""]]
    /\ api' = Idle
    /\ UNCHANGED <<network, mem, queue, worker, sent, posts, allowed>>

---------------------------------------------------------------------------
(* A worker thread: threadMain and _request                                *)

(* It takes a request, and lets a genuine one go if the member's last one  *)
(* was less than ZT_NETCONF_MIN_REQUEST_PERIOD ago.                        *)
BugTooSoon(q) == q.genuine /\ status[q.m].online

TooSoon(q) == q.genuine /\ status[q.m].recent

Take(w) ==
    /\ worker[w] = Idle /\ queue # <<>>
    /\ LET q == Head(queue) IN
       IF TooSoon(q)
         THEN UNCHANGED <<worker, status>>
         ELSE /\ worker' = [worker EXCEPT ![w] = [pc |-> "read", q |-> q]]
              /\ status' = IF q.genuine
                             THEN [status EXCEPT ![q.m].recent = TRUE, ![q.m].online = TRUE]
                             ELSE status
    /\ queue' = Tail(queue)
    /\ UNCHANGED <<network, mem, api, sent, posts, allowed>>

(* The network as _request() sees it: getNetworkAndMember() hands out the  *)
(* network's object only together with a member's, and a field that is     *)
(* missing reads as its default.                                           *)
BugPrivate(m) == mem[m] # None /\ network.private

Private(m) == mem[m] = None \/ network.private

(* An error is sent only in answer to a member's own request.              *)
Refusal(q, kind) == Answer(IF q.genuine THEN kind ELSE "none", 0)

(* It reads, decides, and changes its copy of the record.                  *)
Read(w) ==
    /\ worker[w].pc = "read"
    /\ LET q == worker[w].q
           old == IF mem[q.m] = None THEN InitMember ELSE mem[q.m]
           authorized == old.auth \/ ~Private(q.m)
           auto == authorized /\ ~old.auth /\ ~old.hist
           rec == [auth |-> old.auth \/ auto, hist |-> old.hist \/ auto,
                   info |-> IF authorized /\ q.genuine THEN q.info ELSE old.info]
       IN worker' = [worker EXCEPT ![w] =
            IF network = None
              THEN [pc |-> "send", m |-> q.m, answer |-> Refusal(q, "notFound")]
              ELSE [pc |-> IF authorized /\ q.genuine THEN "note" ELSE "save",
                    m |-> q.m, was |-> mem[q.m], rec |-> rec, asked |-> q.asked,
                    answer |-> IF authorized THEN Answer("config", network.rev)
                               ELSE Refusal(q, "denied")]]
    /\ UNCHANGED <<network, mem, queue, api, status, sent, posts, allowed>>

(* What a genuine request told goes to the member's status.                *)
Note(w) ==
    /\ worker[w].pc = "note"
    /\ status' = [status EXCEPT ![worker[w].m].meta = worker[w].rec.info]
    /\ worker' = [worker EXCEPT ![w].pc = "save"]
    /\ UNCHANGED <<network, mem, queue, api, sent, posts, allowed>>

Save(w) ==
    /\ worker[w].pc = "save"
    /\ mem' = IF worker[w].rec # worker[w].was
                THEN [mem EXCEPT ![worker[w].m] = worker[w].rec]
                ELSE mem
    /\ worker' = [worker EXCEPT ![w] = [pc |-> "send", m |-> @.m, answer |-> @.answer]]
    /\ UNCHANGED <<network, queue, api, status, sent, posts, allowed>>

Send(w) ==
    /\ worker[w].pc = "send"
    /\ sent' = IF worker[w].answer.kind = "none" THEN sent
               ELSE [sent EXCEPT ![worker[w].m] = worker[w].answer]
    /\ worker' = [worker EXCEPT ![w] = Idle]
    /\ UNCHANGED <<network, mem, queue, api, status, posts, allowed>>

(* Time passes for a member's last request.                                *)
RequestAges(m) ==
    /\ status[m].recent
    /\ status' = [status EXCEPT ![m].recent = FALSE]
    /\ UNCHANGED <<network, mem, queue, worker, api, sent, posts, allowed>>

GoesOffline(m) ==
    /\ status[m].online /\ ~status[m].recent
    /\ status' = [status EXCEPT ![m].online = FALSE]
    /\ UNCHANGED <<network, mem, queue, worker, api, sent, posts, allowed>>

---------------------------------------------------------------------------
ApiCalls ==
    \/ \E private \in BOOLEAN : PostNetwork(private)
    \/ \E m \in Members : DeleteMember(m) \/ \E auth \in BOOLEAN : PostMember(m, auth)

ApiSteps == SaveNetwork \/ PushNetwork \/ SaveMember \/ PushMember \/ ForgetMember

WorkerSteps(w) == Take(w) \/ Read(w) \/ Note(w) \/ Save(w) \/ Send(w)

ControllerNext ==
    \/ ApiCalls \/ ApiSteps
    \/ \E w \in Workers : WorkerSteps(w)
    \/ \E m \in Members :
         \/ \E info \in Infos : Request(m, info)
         \/ RequestAges(m) \/ GoesOffline(m)

(* Threads run, members ask again and again (every                         *)
(* ZT_NETWORK_AUTOCONF_DELAY) and time passes.                             *)
Fairness ==
    /\ WF_controllerVars(ApiSteps)
    /\ \A w \in Workers : WF_controllerVars(WorkerSteps(w))
    /\ \A m \in Members :
         /\ WF_controllerVars(\E info \in Infos : Request(m, info))
         /\ WF_controllerVars(RequestAges(m))

ControllerSpec == ControllerInit /\ [][ControllerNext]_controllerVars /\ Fairness

---------------------------------------------------------------------------
ControllerTypeOK ==
    /\ network \in Networks \cup {None}
    /\ mem \in [Members -> Records \cup {None}]
    /\ queue \in Seq(Requests)
    /\ sent \in [Members -> Answers]
    /\ posts \in 0..MaxPosts
    /\ allowed \subseteq Members

(* No member is sent a configuration that the API has never let in, be it  *)
(* by itself or by making the network public.                              *)
OnlyAllowedServed ==
    \A m \in Members : sent[m].kind = "config" => m \in allowed

(* What answers a push that followed a change of the network shows that    *)
(* change (or a later one), whichever worker takes it and whenever.        *)
PushShowsChange ==
    \A w \in Workers :
        worker[w].pc = "save" /\ worker[w].answer.kind = "config"
            => worker[w].answer.rev >= worker[w].asked

(* A member that stays entitled to a configuration is in the end sent the  *)
(* last one and none but that, whatever became of the pushes.              *)
Entitled(m) == network # None /\ mem[m] # None /\ (mem[m].auth \/ ~network.private)

UpdateReaches ==
    \A m \in Members :
        <>[]Entitled(m) => <>[](sent[m] = Answer("config", Revision))
=============================================================================
