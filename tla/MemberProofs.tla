---------------------------- MODULE MemberProofs ----------------------------
(***************************************************************************)
(* Proofs about the members of a network: what its controller answers      *)
(* them, what they make of its certificates and revocations, and what its  *)
(* rules let them send each other.                                         *)
(***************************************************************************)
EXTENDS Controller, Membership, Rules, WellFoundedInduction, TLAPS

-----------------------------------------------------------------------------
(* Controller!OnlyAllowedServed and Controller!PushShowsChange for any     *)
(* set of members, any workers, and any number of API calls.  The          *)
(* invariant follows the API's permission from the records through the     *)
(* copies that workers hold to the answers, and the revision that a push   *)
(* was queued for from the queue to the worker.                            *)

Record == [auth : BOOLEAN, hist : BOOLEAN, info : Infos \cup {""}]

Status == [recent : BOOLEAN, online : BOOLEAN, meta : Infos \cup {""}]

Queued(rev) == [m : Members, genuine : BOOLEAN, info : Infos, asked : 0..rev]

Reply == [kind : {"none", "notFound", "denied", "config"}, rev : Nat]

NetOK ==
    \/ network = None
    \/ /\ network \in [rev : Nat, private : BOOLEAN]
       /\ ~network.private => Members \subseteq allowed

ApiOK ==
    \/ api \in [pc : {"idle", "pushNetwork"}]
    \/ api \in [pc : {"saveNetwork"}, private : BOOLEAN]
    \/ api \in [pc : {"saveMember"}, m : Members, was : Record \cup {None}, rec : Record]
    \/ api \in [pc : {"pushMember", "forget"}, m : Members]

Deciding == [pc : {"note", "save"}, m : Members, was : Record \cup {None}, rec : Record,
             asked : Nat, answer : Reply]

(* What a worker holds: a request; a copy of a record with an answer, both *)
(* of which only speak of permission for a member that has it; an answer.  *)
WorkerOK(x) ==
    \/ x = Idle
    \/ x \in [pc : {"read"}, q : Queued(Revision)]
    \/ /\ x \in Deciding
       /\ x.rec.auth => x.m \in allowed
       /\ x.answer.kind = "config" => x.m \in allowed /\ x.answer.rev >= x.asked
    \/ /\ x \in [pc : {"send"}, m : Members, answer : Reply]
       /\ x.answer.kind = "config" => x.m \in allowed

ServeInv ==
    /\ NetOK /\ ApiOK /\ allowed \subseteq Members
    /\ mem \in [Members -> Record \cup {None}]
    /\ \A m \in Members : mem[m] # None /\ mem[m].auth => m \in allowed
    /\ queue \in Seq(Queued(Revision))
    /\ worker = [w \in Workers |-> worker[w]]
    /\ \A w \in Workers : WorkerOK(worker[w])
    /\ status \in [Members -> Status]
    /\ sent \in [Members -> Reply]
    /\ OnlyAllowedServed

(* Nothing else is "None".                                                 *)
LEMMA NoneApart ==
    /\ None \notin Record
    /\ None \notin [rev : Nat, private : BOOLEAN]
  BY Zenon DEF None, Record

(* Sequences stay sequences of the same elements.                          *)
LEMMA QueueFacts ==
    ASSUME NEW S, NEW q \in Seq(S)
    PROVE  /\ \A x \in S : Append(q, x) \in Seq(S)
           /\ q # <<>> => Head(q) \in S /\ Tail(q) \in Seq(S)
  OBVIOUS

(* Sequences of the same elements are joined to one.                       *)
LEMMA QueueJoined ==
    ASSUME NEW S, NEW q \in Seq(S), NEW n \in Nat, NEW f \in [1..n -> S]
    PROVE  q \o f \in Seq(S)
  <1>1. f \in Seq(S)
    OBVIOUS
  <1> QED
    BY <1>1

(* A sequence over a set is one over a larger set.                         *)
LEMMA QueueWider ==
    ASSUME NEW S, NEW T, S \subseteq T, NEW q \in Seq(S)
    PROVE  q \in Seq(T)
  OBVIOUS

(* A push adds requests of members for a revision that is there.           *)
LEMMA PushedType ==
    ASSUME NEW ms \in SUBSET Members, NEW rev \in Nat,
           queue \in Seq(Queued(rev)), status \in [Members -> Status], Push(ms, rev)
    PROVE  queue' \in Seq(Queued(rev))
  <1>0. rev \in 0..rev
    OBVIOUS
  <1> DEFINE to == {m \in ms : status[m].online /\ status[m].meta # ""}
             Req(m) == [m |-> m, genuine |-> FALSE, info |-> status[m].meta, asked |-> rev]
             S == {Req(m) : m \in to}
  <1>1. PICK n \in 0..Cardinality(S) : \E f \in [1..n -> S] : queue' = queue \o f
    BY Zenon DEF Push
  <1>2. n \in Nat
    <2> HIDE DEF S
    <2> QED  OBVIOUS
  <1>3. ASSUME NEW m \in to PROVE Req(m) \in Queued(rev)
    <2>1. m \in Members /\ status[m] \in Status /\ status[m].meta # ""
      BY Zenon, <1>3
    <2>2. status[m].meta \in Infos
      BY Zenon, <2>1 DEF Status
    <2> QED
      BY <2>1, <2>2, <1>0, Zenon DEF Queued
  <1>4. S \subseteq Queued(rev)
    BY Zenon, <1>3
  <1>5. PICK order \in [1..n -> S] : queue' = queue \o order
    BY Zenon, <1>1
  <1>6. order \in [1..n -> Queued(rev)]
    <2> HIDE DEF S
    <2> QED  BY <1>4
  <1> QED
    BY Zenon, <1>2, <1>5, <1>6, QueueJoined

(* The revision is a number.                                               *)
LEMMA RevisionType ==
    ASSUME NetOK PROVE Revision \in Nat
  BY DEF NetOK, Revision

(* As permission and revision only grow, what a worker holds stays in      *)
(* order.                                                                  *)
LEMMA WorkerKept ==
    ASSUME ServeInv, allowed \subseteq allowed', Revision' \in Nat, Revision <= Revision',
           NEW w \in Workers, worker'[w] = worker[w]
    PROVE  WorkerOK(worker[w])'
  <1>1. Revision \in Nat /\ WorkerOK(worker[w])
    BY RevisionType DEF ServeInv
  <1>2. Queued(Revision) \subseteq Queued(Revision')
    BY <1>1 DEF Queued
  <1>3. CASE worker[w] = Idle
    BY <1>3 DEF WorkerOK, Idle
  <1>4. CASE worker[w] \in [pc : {"read"}, q : Queued(Revision)]
    <2>1. worker'[w] \in [pc : {"read"}, q : Queued(Revision')]
      BY <1>2, <1>4
    <2> QED
      BY <2>1 DEF WorkerOK, Queued
  <1>5. CASE /\ worker[w] \in Deciding
             /\ worker[w].rec.auth => worker[w].m \in allowed
             /\ worker[w].answer.kind = "config" =>
                  worker[w].m \in allowed /\ worker[w].answer.rev >= worker[w].asked
    BY Zenon, <1>5 DEF WorkerOK, Deciding, Record, Reply, None
  <1>6. CASE /\ worker[w] \in [pc : {"send"}, m : Members, answer : Reply]
             /\ worker[w].answer.kind = "config" => worker[w].m \in allowed
    BY <1>6 DEF WorkerOK, Reply
  <1> QED
    BY <1>1, <1>3, <1>4, <1>5, <1>6 DEF WorkerOK

(* What all steps of the members and of the API's calls have in common.    *)
LEMMA Same ==
    ASSUME ServeInv, UNCHANGED <<network, allowed>>
    PROVE  /\ Revision' = Revision /\ Revision \in Nat /\ NetOK'
           /\ \A w \in Workers : worker'[w] = worker[w] => WorkerOK(worker[w])'
  <1>1. Revision' = Revision /\ Revision \in Nat
    BY RevisionType DEF Revision, ServeInv
  <1>2. NetOK'
    BY DEF ServeInv, NetOK, None
  <1> QED
    BY <1>1, <1>2, WorkerKept

(* The calls of the API: what they are about to save is a record.          *)
LEMMA CallsKeep ==
    ASSUME ServeInv, ApiCalls
    PROVE  ServeInv'
  <1>1. ASSUME NEW p \in BOOLEAN, PostNetwork(p) PROVE ServeInv'
    <2>1. ApiOK'
      BY <1>1 DEF PostNetwork, ApiOK
    <2>2. UNCHANGED <<network, mem, queue, worker, status, sent, allowed>>
      BY <1>1 DEF PostNetwork
    <2> QED
      BY Zenon, <2>1, <2>2, Same DEF ServeInv, OnlyAllowedServed, Queued
  <1>2. ASSUME NEW m \in Members, DeleteMember(m) PROVE ServeInv'
    <2>1. ApiOK'
      BY <1>2 DEF DeleteMember, ApiOK
    <2>2. /\ mem' = [mem EXCEPT ![m] = None]
          /\ UNCHANGED <<network, queue, worker, status, sent, allowed>>
      BY <1>2 DEF DeleteMember
    <2>3. /\ mem' \in [Members -> Record \cup {None}]
          /\ \A n \in Members : mem'[n] # None /\ mem'[n].auth => n \in allowed
      BY <2>2 DEF ServeInv
    <2> QED
      BY Zenon, <2>1, <2>2, <2>3, Same DEF ServeInv, OnlyAllowedServed, Queued
  <1>3. ASSUME NEW m \in Members, NEW auth \in BOOLEAN, PostMember(m, auth) PROVE ServeInv'
    <2> DEFINE old == IF mem[m] = None THEN InitMember ELSE mem[m]
               rec == [old EXCEPT !.auth = auth, !.hist = @ \/ auth # old.auth]
    <2>1. old \in Record
      BY Zenon DEF ServeInv, InitMember, Record
    <2>2. rec \in Record
      BY Zenon, <2>1 DEF Record
    <2>3. api' = [pc |-> "saveMember", m |-> m, was |-> mem[m], rec |-> rec]
      BY <1>3 DEF PostMember
    <2>4. mem[m] \in Record \cup {None}
      BY DEF ServeInv
    <2> HIDE DEF rec
    <2>5. api' \in [pc : {"saveMember"}, m : Members, was : Record \cup {None}, rec : Record]
      BY <2>2, <2>3, <2>4
    <2>6. ApiOK'
      BY <2>5, Zenon DEF ApiOK, Record, None
    <2>7. UNCHANGED <<network, mem, queue, worker, status, sent, allowed>>
      BY <1>3 DEF PostMember
    <2> QED
      BY Zenon, <2>6, <2>7, Same DEF ServeInv, OnlyAllowedServed, Queued
  <1> QED
    BY <1>1, <1>2, <1>3 DEF ApiCalls

(* Saving the network gives permission to all if it is public; saving a    *)
(* member gives it to one.                                                 *)
LEMMA SavesKeep ==
    ASSUME ServeInv, SaveNetwork \/ SaveMember
    PROVE  ServeInv'
  <1>1. CASE SaveNetwork
    <2>1. Revision \in Nat
      BY RevisionType DEF ServeInv
    <2>2. api.private \in BOOLEAN
      BY <1>1 DEF SaveNetwork, ServeInv, ApiOK
    <2>3. /\ network' = [rev |-> Revision + 1, private |-> api.private]
          /\ allowed' = IF api.private THEN allowed ELSE Members
          /\ api' = [pc |-> "pushNetwork"]
          /\ UNCHANGED <<mem, queue, worker, status, sent>>
      BY <1>1 DEF SaveNetwork
    <2>4. allowed \subseteq allowed' /\ allowed' \subseteq Members
      BY <2>3 DEF ServeInv
    <2>5. network' # None /\ network' \in [rev : Nat, private : BOOLEAN]
      BY <2>1, <2>2, <2>3, NoneApart
    <2>6. Revision' = Revision + 1
      BY <2>3, <2>5 DEF Revision
    <2>7. NetOK'
      BY <2>3, <2>5 DEF NetOK
    <2>8. ApiOK'
      BY <2>3 DEF ApiOK
    <2>9. Queued(Revision) \subseteq Queued(Revision')
      BY <2>1, <2>6 DEF Queued
    <2>10. queue' \in Seq(Queued(Revision'))
      BY Zenon, <2>3, <2>9, QueueWider DEF ServeInv
    <2>11. \A w \in Workers : WorkerOK(worker[w])'
      BY <2>1, <2>3, <2>4, <2>6, WorkerKept
    <2> QED
      BY <2>3, <2>4, <2>7, <2>8, <2>10, <2>11 DEF ServeInv, OnlyAllowedServed, Queued
  <1>2. CASE SaveMember
    <2>1. api.m \in Members /\ api.rec \in Record
      BY <1>2 DEF SaveMember, ServeInv, ApiOK
    <2>2. /\ allowed' = IF api.rec.auth THEN allowed \cup {api.m} ELSE allowed
          /\ mem' = [mem EXCEPT ![api.m] = api.rec] \/ mem' = mem
          /\ api' = [pc |-> "pushMember", m |-> api.m] \/ api' = Idle
          /\ UNCHANGED <<network, queue, worker, status, sent>>
      BY <1>2 DEF SaveMember
    <2>3. allowed \subseteq allowed' /\ allowed' \subseteq Members
      BY <2>1, <2>2 DEF ServeInv
    <2>4. Revision' = Revision /\ Revision \in Nat
      BY <2>2, RevisionType DEF Revision, ServeInv
    <2>5. NetOK'
      BY <2>2, <2>3 DEF ServeInv, NetOK, None
    <2>6. ApiOK'
      BY <2>1, <2>2 DEF ApiOK, Idle
    <2>7. \A w \in Workers : WorkerOK(worker[w])'
      BY <2>2, <2>3, <2>4, WorkerKept
    <2>8. /\ mem' \in [Members -> Record \cup {None}]
          /\ \A m \in Members : mem'[m] # None /\ mem'[m].auth => m \in allowed'
      BY <2>1, <2>2, <2>3 DEF ServeInv
    <2> QED
      BY <2>2, <2>3, <2>4, <2>5, <2>6, <2>7, <2>8 DEF ServeInv, OnlyAllowedServed, Queued
  <1> QED
    BY <1>1, <1>2

(* Requests and pushes join the queue; a member is forgotten; time passes. *)
LEMMA OthersKeep ==
    ASSUME ServeInv,
           \/ PushNetwork \/ PushMember \/ ForgetMember
           \/ \E m \in Members :
                \/ \E info \in Infos : Request(m, info)
                \/ RequestAges(m) \/ GoesOffline(m)
    PROVE  ServeInv'
  <1>1. ASSUME UNCHANGED <<network, mem, worker, sent, allowed>>, ApiOK',
               queue' \in Seq(Queued(Revision)), status' \in [Members -> Status]
        PROVE  ServeInv'
    BY ZenonT(30), <1>1, Same DEF ServeInv, OnlyAllowedServed, Queued
  <1>2. Revision \in Nat /\ queue \in Seq(Queued(Revision)) /\ status \in [Members -> Status]
    BY RevisionType DEF ServeInv
  <1>3. CASE PushNetwork
    <2>1. queue' \in Seq(Queued(Revision))
      BY <1>2, <1>3, PushedType DEF PushNetwork
    <2> QED
      BY <1>1, <1>2, <1>3, <2>1 DEF PushNetwork, ApiOK, Idle
  <1>4. CASE PushMember
    <2>1. {api.m} \in SUBSET Members
      BY <1>4 DEF PushMember, ServeInv, ApiOK
    <2>2. queue' \in Seq(Queued(Revision))
      BY <1>2, <1>4, <2>1, PushedType DEF PushMember
    <2> QED
      BY <1>1, <1>2, <1>4, <2>2 DEF PushMember, ApiOK, Idle
  <1>5. CASE ForgetMember
    <2>1. status' \in [Members -> Status]
      BY ZenonT(30), <1>2, <1>5 DEF ForgetMember, Status
    <2> QED
      BY ZenonT(30), <1>1, <1>2, <1>5, <2>1 DEF ForgetMember, ApiOK, Idle
  <1>6. ASSUME NEW m \in Members, NEW info \in Infos, Request(m, info)
        PROVE  ServeInv'
    <2>1. [m |-> m, genuine |-> TRUE, info |-> info, asked |-> 0] \in Queued(Revision)
      BY <1>2 DEF Queued
    <2>2. queue' \in Seq(Queued(Revision))
      BY Zenon, <1>2, <1>6, <2>1, QueueFacts DEF Request
    <2> QED
      BY <1>1, <1>2, <1>6, <2>2 DEF Request, ApiOK, ServeInv
  <1>7. ASSUME NEW m \in Members, RequestAges(m) \/ GoesOffline(m)
        PROVE  ServeInv'
    <2>1. \/ status' = [status EXCEPT ![m] = [status[m] EXCEPT !.recent = FALSE]]
          \/ status' = [status EXCEPT ![m] = [status[m] EXCEPT !.online = FALSE]]
      BY <1>7 DEF RequestAges, GoesOffline
    <2>2. /\ [status[m] EXCEPT !.recent = FALSE] \in Status
          /\ [status[m] EXCEPT !.online = FALSE] \in Status
      BY Zenon, <1>2 DEF Status
    <2>3. status' \in [Members -> Status]
      BY Zenon, <1>2, <2>1, <2>2
    <2> QED
      BY <1>1, <1>2, <1>7, <2>3 DEF RequestAges, GoesOffline, ApiOK, ServeInv
  <1> QED
    BY <1>3, <1>4, <1>5, <1>6, <1>7

(* A worker's step: the others hold what they held.                        *)
LEMMA WorkerStep ==
    ASSUME ServeInv, NEW w \in Workers, NEW x, worker' = [worker EXCEPT ![w] = x],
           UNCHANGED <<network, api, allowed>>, WorkerOK(worker[w])',
           mem' \in [Members -> Record \cup {None}],
           \A m \in Members : mem'[m] # None /\ mem'[m].auth => m \in allowed,
           queue' \in Seq(Queued(Revision)), status' \in [Members -> Status],
           sent' \in [Members -> Reply], OnlyAllowedServed'
    PROVE  ServeInv'
  <1>1. \A v \in Workers \ {w} : worker'[v] = worker[v]
    BY DEF ServeInv
  <1>2. worker' = [v \in Workers |-> worker'[v]]
    BY DEF ServeInv
  <1>3. \A v \in Workers : WorkerOK(worker[v])'
    BY <1>1, Same
  <1>4. ApiOK'
    BY Zenon DEF ServeInv, ApiOK, Record, None
  <1> QED
    BY Zenon, <1>2, <1>3, <1>4, Same DEF ServeInv, Queued

(* A worker takes the head of the queue, or lets it go.                    *)
LEMMA TakeKeeps ==
    ASSUME ServeInv, NEW w \in Workers, Take(w)
    PROVE  ServeInv'
  <1> DEFINE q == Head(queue)
  <1>1. q \in Queued(Revision) /\ queue' \in Seq(Queued(Revision))
    BY Zenon, QueueFacts DEF Take, ServeInv
  <1>2. UNCHANGED <<network, mem, api, sent, allowed>>
    BY DEF Take
  <1>3. Revision' = Revision /\ Revision \in Nat
    BY <1>2, Same
  <1>4. CASE TooSoon(q)
    <2>1. UNCHANGED <<worker, status>>
      BY <1>4 DEF Take
    <2>2. \A v \in Workers : WorkerOK(worker[v])'
      BY <1>2, <2>1, Same
    <2>3. ApiOK'
      BY ZenonT(30), <1>2 DEF ServeInv, ApiOK, Record, None
    <2> QED
      BY <1>1, <1>2, <1>3, <2>1, <2>2, <2>3, Same DEF ServeInv, OnlyAllowedServed, Queued
  <1>5. CASE ~TooSoon(q)
    <2>1. /\ worker' = [worker EXCEPT ![w] = [pc |-> "read", q |-> q]]
          /\ status' = IF q.genuine
                          THEN [status EXCEPT ![q.m].recent = TRUE, ![q.m].online = TRUE]
                          ELSE status
      BY <1>5 DEF Take
    <2>2. worker'[w] \in [pc : {"read"}, q : Queued(Revision')]
      BY <1>1, <1>3, <2>1 DEF ServeInv
    <2>3. WorkerOK(worker[w])'
      BY <2>2 DEF WorkerOK, Queued
    <2>4. status' \in [Members -> Status]
      <3>1. q.m \in Members /\ status \in [Members -> Status]
        BY <1>1 DEF ServeInv, Queued
      <3>2. [status[q.m] EXCEPT !.recent = TRUE, !.online = TRUE] \in Status
        BY ZenonT(30), <3>1 DEF Status
      <3>3. \/ status' = [status EXCEPT ![q.m] = [status[q.m] EXCEPT !.recent = TRUE, !.online = TRUE]]
            \/ status' = status
        BY Zenon, <2>1, <3>1
      <3> QED
        BY <3>1, <3>2, <3>3
    <2>5. PICK x : worker' = [worker EXCEPT ![w] = x]
      BY ZenonT(30), <2>1
    <2> QED
      BY Zenon, <1>1, <1>2, <2>3, <2>4, <2>5, WorkerStep DEF ServeInv, OnlyAllowedServed
  <1> QED
    BY <1>4, <1>5

(* _request() says "config" and sets authorized only for a member that the *)
(* record or the network's being public entitles, and the network it read  *)
(* is at least at the revision the push was queued for.                    *)
LEMMA ReadKeeps ==
    ASSUME ServeInv, NEW w \in Workers, Read(w)
    PROVE  ServeInv'
  <1>1. UNCHANGED <<network, mem, queue, api, status, sent, allowed>>
    BY Zenon DEF Read
  <1>2. PICK q \in Queued(Revision) : q = worker[w].q
    <2>1. WorkerOK(worker[w]) /\ worker[w].pc = "read"
      BY Zenon DEF Read, ServeInv
    <2>2. worker[w] # Idle
      BY <2>1 DEF Idle
    <2>3. worker[w] \notin Deciding
      BY Zenon, <2>1 DEF Deciding
    <2>4. worker[w] \notin [pc : {"send"}, m : Members, answer : Reply]
      BY Zenon, <2>1
    <2>5. worker[w] \in [pc : {"read"}, q : Queued(Revision)]
      BY Zenon, <2>1, <2>2, <2>3, <2>4 DEF WorkerOK
    <2> QED
      BY ZenonT(30), <2>5
  <1>a. (IF mem[q.m] = None THEN InitMember ELSE mem[q.m]) \in Record
    <2>1. mem[q.m] \in Record \cup {None}
      BY <1>2 DEF ServeInv, Queued
    <2>2. InitMember \in Record
      BY DEF InitMember, Record
    <2> QED
      BY <2>1, <2>2
  <1>3. PICK old \in Record : old = IF mem[q.m] = None THEN InitMember ELSE mem[q.m]
    BY <1>a
  <1>4. q.m \in Members /\ q.genuine \in BOOLEAN /\ q.info \in Infos /\ q.asked \in 0..Revision
    BY <1>2 DEF Queued
  <1>5. PICK authorized \in BOOLEAN : authorized = (old.auth \/ ~Private(q.m))
    BY Zenon
  <1>6. PICK auto \in BOOLEAN : auto = (authorized /\ ~old.auth /\ ~old.hist)
    BY Zenon
  <1>7. PICK rec : rec = [auth |-> old.auth \/ auto, hist |-> old.hist \/ auto,
                          info |-> IF authorized /\ q.genuine THEN q.info ELSE old.info]
    BY Zenon
  <1>8. rec \in Record
    BY Zenon, <1>3, <1>4, <1>6, <1>7 DEF Record
  <1>9. CASE network = None
    <2>1. worker' = [worker EXCEPT ![w] =
                       [pc |-> "send", m |-> q.m, answer |-> Refusal(q, "notFound")]]
      BY <1>2, <1>9 DEF Read
    <2>2. Refusal(q, "notFound") \in Reply /\ Refusal(q, "notFound").kind # "config"
      BY DEF Refusal, Answer, Reply
    <2>3. WorkerOK(worker[w])'
      BY <1>4, <2>1, <2>2 DEF WorkerOK, ServeInv, Reply
    <2> QED
      BY Zenon, <1>1, <2>1, <2>3, WorkerStep DEF ServeInv, OnlyAllowedServed
  <1>10. CASE network # None
    <2>1. network \in [rev : Nat, private : BOOLEAN] /\ Revision = network.rev
      BY <1>10 DEF ServeInv, NetOK, Revision
    <2>2. authorized => q.m \in allowed
      BY ZenonT(30), <1>3, <1>4, <1>5, <1>10 DEF ServeInv, NetOK, Private, InitMember
    <2>a. Answer("config", network.rev) \in Reply /\ Refusal(q, "denied") \in Reply
      BY <2>1 DEF Refusal, Answer, Reply
    <2>3. PICK answer \in Reply :
            answer = IF authorized THEN Answer("config", network.rev) ELSE Refusal(q, "denied")
      BY <2>a
    <2>4. answer.kind = "config" => q.m \in allowed /\ answer.rev >= q.asked
      BY <1>4, <2>1, <2>2, <2>3 DEF Refusal, Answer
    <2>5. rec.auth => q.m \in allowed
      BY <1>3, <1>4, <1>5, <1>6, <1>7, <2>2
    <2>6. PICK pc \in {"note", "save"} : pc = IF authorized /\ q.genuine THEN "note" ELSE "save"
      OBVIOUS
    <2>7. PICK x : x = [pc |-> pc, m |-> q.m, was |-> mem[q.m], rec |-> rec, asked |-> q.asked,
                        answer |-> answer]
      BY Zenon
    <2>8. worker' = [worker EXCEPT ![w] = x]
      BY ZenonT(30), <1>2, <1>3, <1>5, <1>6, <1>7, <1>10, <2>3, <2>6, <2>7 DEF Read
    <2>9. x \in Deciding
      BY <1>4, <1>8, <2>7, RevisionType DEF Deciding, ServeInv
    <2>10. WorkerOK(worker[w])'
      <3>1. worker'[w] = x
        BY <2>8 DEF ServeInv
      <3>2. /\ x.rec.auth => x.m \in allowed'
            /\ x.answer.kind = "config" => x.m \in allowed' /\ x.answer.rev >= x.asked
        BY <1>1, <2>4, <2>5, <2>7
      <3> QED
        BY ZenonT(30), <2>9, <3>1, <3>2 DEF WorkerOK, Deciding, Record, Reply, None
    <2> QED
      BY Zenon, <1>1, <2>8, <2>10, WorkerStep DEF ServeInv, OnlyAllowedServed
  <1> QED
    BY <1>9, <1>10

(* The rest of _request(): what it decided is saved and sent.              *)
LEMMA RestKeeps ==
    ASSUME ServeInv, NEW w \in Workers, Note(w) \/ Save(w) \/ Send(w)
    PROVE  ServeInv'
  <1>1. WorkerOK(worker[w]) /\ UNCHANGED <<network, queue, api, allowed>>
    BY DEF ServeInv, Note, Save, Send
  <1>2. PICK x : x = worker[w]
    OBVIOUS
  <1>3. CASE Note(w) \/ Save(w)
    <2>1. /\ x \in Deciding /\ (x.rec.auth => x.m \in allowed)
          /\ x.answer.kind = "config" => x.m \in allowed /\ x.answer.rev >= x.asked
      BY <1>1, <1>2, <1>3 DEF WorkerOK, Idle, Note, Save
    <2>2. x.m \in Members /\ x.rec \in Record /\ x.answer \in Reply
      BY <2>1 DEF Deciding
    <2>3. CASE Note(w)
      <3>1. PICK y : y = [x EXCEPT !.pc = "save"]
        BY ZenonT(30)
      <3>2. worker' = [worker EXCEPT ![w] = y]
        BY <1>2, <2>3, <3>1 DEF Note
      <3>3. y \in Deciding /\ y.rec = x.rec /\ y.answer = x.answer /\ y.m = x.m /\ y.asked = x.asked
        BY <2>1, <3>1 DEF Deciding
      <3>4. worker'[w] = y
        BY <3>2 DEF ServeInv
      <3>5. WorkerOK(worker[w])'
        BY ZenonT(30), <1>1, <2>1, <3>3, <3>4 DEF WorkerOK, Deciding, Record, Reply, None
      <3>6. status' \in [Members -> Status]
        <4>1. status' = [status EXCEPT ![x.m] = [status[x.m] EXCEPT !.meta = x.rec.info]]
          BY <1>2, <2>3 DEF Note
        <4>2. x.rec.info \in Infos \cup {""} /\ status \in [Members -> Status]
          BY Zenon, <2>2 DEF Record, ServeInv
        <4>3. [status[x.m] EXCEPT !.meta = x.rec.info] \in Status
          BY ZenonT(30), <2>2, <4>2 DEF Status
        <4> QED
          BY ZenonT(30), <4>1, <4>2, <4>3
      <3>7. UNCHANGED <<mem, sent>>
        BY <2>3 DEF Note
      <3> QED
        BY Zenon, <1>1, <3>2, <3>5, <3>6, <3>7, WorkerStep DEF ServeInv, OnlyAllowedServed
    <2>4. CASE Save(w)
      <3>1. PICK y : y = [pc |-> "send", m |-> x.m, answer |-> x.answer]
        BY ZenonT(30)
      <3>2. worker' = [worker EXCEPT ![w] = y]
        BY <1>2, <2>4, <3>1 DEF Save, ServeInv
      <3>3. worker'[w] = y
        BY <3>2 DEF ServeInv
      <3>4. WorkerOK(worker[w])'
        BY <1>1, <2>1, <2>2, <3>1, <3>3 DEF WorkerOK, Reply
      <3>5. mem' = mem \/ mem' = [mem EXCEPT ![x.m] = x.rec]
        BY <1>2, <2>4 DEF Save
      <3>6. /\ mem' \in [Members -> Record \cup {None}]
            /\ \A m \in Members : mem'[m] # None /\ mem'[m].auth => m \in allowed
        BY <2>1, <2>2, <3>5 DEF ServeInv
      <3>7. UNCHANGED <<status, sent>>
        BY <2>4 DEF Save
      <3> QED
        BY Zenon, <1>1, <3>2, <3>4, <3>6, <3>7, WorkerStep DEF ServeInv, OnlyAllowedServed
    <2> QED
      BY <1>3, <2>3, <2>4
  <1>4. CASE Send(w)
    <2>1. /\ x \in [pc : {"send"}, m : Members, answer : Reply]
          /\ x.answer.kind = "config" => x.m \in allowed
      BY <1>1, <1>2, <1>4 DEF WorkerOK, Idle, Deciding, Send
    <2>2. worker' = [worker EXCEPT ![w] = Idle] /\ UNCHANGED <<mem, status>>
      BY <1>4 DEF Send
    <2>3. WorkerOK(worker[w])'
      BY <2>2 DEF WorkerOK, ServeInv, Idle
    <2>4. sent' = sent \/ sent' = [sent EXCEPT ![x.m] = x.answer]
      BY <1>2, <1>4 DEF Send
    <2>5. sent' \in [Members -> Reply] /\ OnlyAllowedServed'
      BY <1>1, <2>1, <2>4 DEF ServeInv, OnlyAllowedServed
    <2> QED
      BY Zenon, <1>1, <2>2, <2>3, <2>5, WorkerStep DEF ServeInv
  <1> QED
    BY <1>3, <1>4

(* Nothing has happened yet.                                               *)
LEMMA InitKeeps == ControllerInit => ServeInv
  <1> SUFFICES ASSUME ControllerInit PROVE ServeInv
    OBVIOUS
  <1>1. NetOK /\ ApiOK
    <2>1. ApiOK
      BY Zenon DEF ControllerInit, ApiOK, Idle
    <2>2. network = None \/ network = [rev |-> 0, private |-> TRUE]
      BY Zenon DEF ControllerInit
    <2>3. CASE network = None
      BY <2>1, <2>3 DEF NetOK
    <2>4. CASE network = [rev |-> 0, private |-> TRUE]
      <3>1. network \in [rev : Nat, private : BOOLEAN] /\ network.private
        BY <2>4
      <3> QED
        BY <2>1, <3>1 DEF NetOK
    <2> QED
      BY <2>2, <2>3, <2>4
  <1>2. queue \in Seq(Queued(Revision))
    <2>1. queue = <<>>
      BY Zenon DEF ControllerInit
    <2> QED  BY <2>1
  <1>3. \A w \in Workers : WorkerOK(worker[w])
    BY Zenon DEF ControllerInit, WorkerOK
  <1>4. status \in [Members -> Status] /\ sent \in [Members -> Reply]
    BY Zenon DEF ControllerInit, Status, Reply, Answer
  <1>5. mem \in [Members -> Record \cup {None}] /\ \A m \in Members : mem[m] = None
    BY Zenon DEF ControllerInit
  <1>6. OnlyAllowedServed
    BY Zenon DEF ControllerInit, OnlyAllowedServed, Answer
  <1> QED
    BY ZenonT(30), <1>1, <1>2, <1>3, <1>4, <1>5, <1>6 DEF ServeInv, ControllerInit

(* Every step keeps the invariant, by kind of step.                        *)
LEMMA NextKeeps ==
    ASSUME ServeInv, [ControllerNext]_controllerVars
    PROVE  ServeInv'
  <1>1. CASE UNCHANGED controllerVars
    <2>1. ApiOK'
      BY Zenon, <1>1 DEF controllerVars, ServeInv, ApiOK, Record, None
    <2> QED
      BY Zenon, <1>1, <2>1, Same DEF controllerVars, ServeInv, OnlyAllowedServed, Queued
  <1> QED
    BY <1>1, CallsKeep, SavesKeep, OthersKeep, TakeKeeps, ReadKeeps, RestKeeps
       DEF ControllerNext, ApiSteps, WorkerSteps

(* _request() and its copy of the record never serve a member that the API *)
(* has not let in, whatever the threads do in between.                     *)
THEOREM OnlyAllowedAreServed ==
    ControllerSpec => []OnlyAllowedServed
  <1>1. ServeInv => OnlyAllowedServed
    BY DEF ServeInv
  <1>2. ServeInv /\ [ControllerNext]_controllerVars => ServeInv'
    BY NextKeeps
  <1> QED
    BY <1>1, <1>2, InitKeeps, PTL DEF ControllerSpec

(* An answer to a push shows the change that the push followed, whichever  *)
(* worker takes it from the queue and whenever it reads the network.       *)
THEOREM PushesShowChanges ==
    ControllerSpec => []PushShowsChange
  <1>1. ServeInv => PushShowsChange
    BY DEF ServeInv, PushShowsChange, WorkerOK, Idle, Deciding
  <1>2. ServeInv /\ [ControllerNext]_controllerVars => ServeInv'
    BY NextKeeps
  <1> QED
    BY <1>1, <1>2, InitKeeps, PTL DEF ControllerSpec

-----------------------------------------------------------------------------
(* Membership!RevocationEffective and Membership!NewestKept for any nodes, *)
(* certificates and revocations, and any links along which every node can  *)
(* be reached from every other.  The invariant is about each link: the     *)
(* node at its end is not behind the one at its beginning, or a revocation *)
(* that makes up for it is under way to it.                                *)

(* Every node can be reached from every other: no set of nodes but the     *)
(* empty and the full one is closed under the links.                       *)
Connected ==
    \A S \in SUBSET Nodes :
        S # {} /\ (\A n \in S : Links[n] \subseteq S) => S = Nodes

Thr(n, type) == IF type = "com" THEN comThr[n] ELSE tagThr[n]

Types ==
    /\ com \in [Nodes -> Nat] /\ comThr \in [Nodes -> Nat]
    /\ tag \in [Nodes -> Nat] /\ tagThr \in [Nodes -> Nat]
    /\ issued \subseteq Revocations
    /\ net \subseteq Messages
    /\ \A m \in net : m.rev \in issued

(* Nothing under way is news to its sender.                                *)
SenderKnows(type) ==
    \A m \in net :
        m.from # "controller" /\ m.rev.type = type => Thr(m.from, type) >= m.rev.threshold

UnderWay(type, n, l) ==
    \E m \in net : m.to = l /\ m.rev.type = type /\ m.rev.threshold >= Thr(n, type)

Flood(type) ==
    /\ SenderKnows(type)
    /\ \A n \in Nodes : \A l \in Links[n] :
         Thr(l, type) >= Thr(n, type) \/ UnderWay(type, n, l)

OnlyComs == \A rev \in issued : rev.type = "com"

LinkInv == Types /\ Flood("tag") /\ (OnlyComs => Flood("com"))

(* Thresholds are numbers and links lead to nodes.                         *)
LEMMA Constants ==
    /\ \A rev \in Revocations : rev.threshold \in Nat /\ rev.type \in {"com", "tag"}
    /\ \A n \in Nodes : Links[n] \subseteq Nodes
    /\ "controller" \notin Nodes
    /\ Times \subseteq Nat
  BY MembershipAssumption DEF Times

(* No node has a threshold, nothing is under way.                          *)
LEMMA InitFlood == Init => LinkInv
  BY Constants DEF Init, LinkInv, Types, Flood, SenderKnows, Thr, OnlyComs

(* A step that leaves the thresholds alone and takes nothing off the net   *)
(* keeps the flood going.                                                  *)
LEMMA FloodKept ==
    ASSUME NEW type, Flood(type), net \subseteq net', UNCHANGED <<comThr, tagThr>>,
           \A m \in net' \ net : m.from = "controller"
    PROVE  Flood(type)'
  <1>1. \A n : Thr(n, type)' = Thr(n, type)
    BY DEF Thr
  <1>2. SenderKnows(type)'
    BY <1>1 DEF Flood, SenderKnows
  <1>3. \A n, l : UnderWay(type, n, l) => UnderWay(type, n, l)'
    BY <1>1 DEF UnderWay
  <1> QED
    BY <1>1, <1>2, <1>3 DEF Flood

(* A node that receives a revocation is then not behind it, and passes it  *)
(* on unless it already knew of it.                                        *)
LEMMA Received ==
    ASSUME Types, NEW type \in {"com", "tag"}, Flood(type), NEW m \in net, RecvRevocation(m),
           type = "com" => m.rev.type = "com"
    PROVE  Flood(type)'
  <1>1. /\ m.to \in Nodes /\ m.from \in Nodes \cup {"controller"} /\ m.rev \in Revocations
        /\ m.rev.threshold \in Nat
    BY Constants DEF Types, Messages
  <1>2. \A n \in Nodes : Thr(n, type) \in Nat
    BY DEF Types, Thr
  <1>3. \A n \in Nodes \ {m.to} : Thr(n, type)' = Thr(n, type)
    BY <1>1 DEF Types, Thr, RecvRevocation
  <1>4. /\ Thr(m.to, type)' = IF m.rev.type = type /\ IsNews(m.to, m.rev)
                                THEN m.rev.threshold ELSE Thr(m.to, type)
        /\ m.rev.type = type => Thr(m.to, type)' >= m.rev.threshold
        /\ Thr(m.to, type)' >= Thr(m.to, type) /\ Thr(m.to, type)' \in Nat
    BY <1>1, <1>2, Constants DEF Types, Thr, RecvRevocation, IsNews, NewComThr, NewTagThr
  <1>5. \A n \in Nodes : Thr(n, type)' >= Thr(n, type) /\ Thr(n, type)' \in Nat
    BY <1>2, <1>3, <1>4
  <1>6. /\ \A k \in net \ {m} : k \in net'
        /\ \A k \in net' : k \in net \/ (k.from = m.to /\ k.rev = m.rev /\ IsNews(m.to, m.rev))
    BY DEF RecvRevocation, Forwarded
  <1>7. SenderKnows(type)'
    <2> SUFFICES ASSUME NEW k \in net', k.from # "controller", k.rev.type = type
                 PROVE  Thr(k.from, type)' >= k.rev.threshold
      BY DEF SenderKnows
    <2>1. CASE k \in net
      <3>1. k.from \in Nodes /\ k.rev.threshold \in Nat /\ Thr(k.from, type) >= k.rev.threshold
        BY <2>1, Constants DEF Types, Messages, Flood, SenderKnows
      <3> QED
        BY <1>2, <1>5, <3>1
    <2>2. CASE k.from = m.to /\ k.rev = m.rev
      BY <1>4, <2>2
    <2> QED
      BY <1>6, <2>1, <2>2
  <1>8. ASSUME NEW n \in Nodes, NEW l \in Links[n]
        PROVE  Thr(l, type)' >= Thr(n, type)' \/ UnderWay(type, n, l)'
    <2>1. l \in Nodes
      BY Constants
    <2>2. CASE n = m.to /\ Thr(n, type)' # Thr(n, type)
      <3>1. m.rev.type = type /\ IsNews(m.to, m.rev) /\ Thr(n, type)' = m.rev.threshold
        BY <1>4, <2>2
      <3>2. CASE l = m.from
        <4>1. Thr(l, type) >= m.rev.threshold
          BY <2>1, <3>1, <3>2, Constants DEF Flood, SenderKnows
        <4> QED
          BY <1>1, <1>2, <1>5, <2>1, <3>1, <4>1
      <3>3. CASE l # m.from
        <4>1. [to |-> l, from |-> m.to, rev |-> m.rev] \in net'
          BY <2>2, <3>1, <3>3 DEF RecvRevocation, Forwarded
        <4> QED
          BY <1>1, <3>1, <4>1 DEF UnderWay
      <3> QED
        BY <3>2, <3>3
    <2>3. CASE Thr(n, type)' = Thr(n, type)
      <3>1. CASE Thr(l, type) >= Thr(n, type)
        BY <1>2, <1>5, <2>1, <2>3, <3>1
      <3>2. CASE UnderWay(type, n, l)
        <4>1. PICK k \in net : k.to = l /\ k.rev.type = type /\ k.rev.threshold >= Thr(n, type)
          BY <3>2 DEF UnderWay
        <4>2. CASE k = m
          BY <1>1, <1>2, <1>4, <1>5, <2>1, <2>3, <4>1, <4>2
        <4>3. CASE k # m
          BY <1>6, <2>3, <4>1, <4>3 DEF UnderWay
        <4> QED
          BY <4>2, <4>3
      <3> QED
        BY <3>1, <3>2 DEF Flood
    <2> QED
      BY <1>3, <2>2, <2>3
  <1> QED
    BY <1>7, <1>8 DEF Flood

(* Every step keeps the types.                                             *)
LEMMA TypesKept ==
    ASSUME Types, [Next]_vars
    PROVE  Types'
  <1>1. ASSUME NEW n \in Met, NEW ts \in Times, AddCom(n, ts) \/ AddTag(n, ts) \/ NewConfig(n, ts)
        PROVE  Types'
    BY <1>1, Constants, MembershipAssumption DEF Types, AddCom, AddTag, NewConfig
  <1>2. ASSUME NEW rev \in Revocations, NEW online \in SUBSET Nodes, Issue(rev, online)
        PROVE  Types'
    BY <1>2 DEF Types, Issue, nodeVars, Messages
  <1>3. ASSUME NEW m \in net, RecvRevocation(m) PROVE Types'
    <2>1. m.to \in Nodes /\ m.rev \in issued /\ m.rev \in Revocations
      BY DEF Types, Messages
    <2>2. Forwarded(m) \subseteq Messages /\ \A k \in Forwarded(m) : k.rev \in issued
      BY <2>1, Constants DEF Forwarded, Messages
    <2>3. net' \subseteq net \cup Forwarded(m)
      BY <1>3 DEF RecvRevocation
    <2>4. comThr' \in [Nodes -> Nat] /\ tagThr' \in [Nodes -> Nat]
      BY <1>3, <2>1, Constants DEF Types, RecvRevocation, NewComThr, NewTagThr
    <2> QED
      BY <1>3, <2>2, <2>3, <2>4 DEF Types, RecvRevocation, Messages
  <1>4. CASE UNCHANGED vars
    BY <1>4 DEF Types, vars, nodeVars, Messages
  <1> QED
    BY <1>1, <1>2, <1>3, <1>4 DEF Next

(* Every step keeps the floods going.                                      *)
LEMMA NextFlood ==
    ASSUME LinkInv, [Next]_vars
    PROVE  LinkInv'
  <1>1. Types'
    BY TypesKept DEF LinkInv
  <1>2. OnlyComs' => OnlyComs
    BY DEF OnlyComs, Next, AddCom, AddTag, NewConfig, Issue, RecvRevocation, vars, nodeVars
  <1>3. ASSUME NEW n \in Met, NEW ts \in Times,
               AddCom(n, ts) \/ AddTag(n, ts) \/ NewConfig(n, ts)
        PROVE  LinkInv'
    <2>1. UNCHANGED <<comThr, tagThr, net>>
      BY <1>3 DEF AddCom, AddTag, NewConfig
    <2> QED
      BY <1>1, <1>2, <2>1, FloodKept DEF LinkInv
  <1>4. ASSUME NEW rev \in Revocations, NEW online \in SUBSET Nodes, Issue(rev, online)
        PROVE  LinkInv'
    <2>1. /\ UNCHANGED <<comThr, tagThr>> /\ net \subseteq net'
          /\ \A m \in net' \ net : m.from = "controller"
      BY <1>4 DEF Issue, nodeVars
    <2> QED
      BY <1>1, <1>2, <2>1, FloodKept DEF LinkInv
  <1>5. ASSUME NEW m \in net, RecvRevocation(m) PROVE LinkInv'
    <2>1. Flood("tag")'
      BY <1>5, Received DEF LinkInv
    <2>2. OnlyComs => m.rev.type = "com"
      BY DEF OnlyComs, LinkInv, Types
    <2>3. OnlyComs => Flood("com")'
      BY <1>5, <2>2, Received DEF LinkInv
    <2> QED
      BY <1>1, <1>2, <2>1, <2>3 DEF LinkInv
  <1>6. CASE UNCHANGED vars
    BY <1>1, <1>2, <1>6, FloodKept DEF LinkInv, vars, nodeVars
  <1> QED
    BY <1>3, <1>4, <1>5, <1>6 DEF Next

(* Once a flood is over, what one node knows all know.                     *)
LEMMA FloodOver ==
    ASSUME Connected, Types, NEW type, Flood(type), net = {}, NEW t \in Nat,
           NEW r \in Nodes, t <= Thr(r, type)
    PROVE  \A n \in Nodes : t <= Thr(n, type)
  <1> DEFINE S == {n \in Nodes : t <= Thr(n, type)}
  <1>1. \A n \in Nodes : Thr(n, type) \in Nat
    BY DEF Types, Thr
  <1>2. ASSUME NEW n \in S PROVE Links[n] \subseteq S
    <2>1. \A l \in Links[n] : l \in Nodes /\ Thr(l, type) >= Thr(n, type)
      BY <1>2, Constants DEF Flood, UnderWay
    <2> QED
      BY <1>1, <1>2, <2>1
  <1>3. S = Nodes
    BY Zenon, <1>2 DEF Connected
  <1> QED
    BY <1>3

(* Network::addCredential(Revocation) reaches everybody: when no           *)
(* revocation is under way, no node uses a tag (nor, where only            *)
(* certificates of membership were revoked, one of those) that a           *)
(* revocation known to any node covers.                                    *)
THEOREM RevocationsTakeEffect ==
    ASSUME Connected
    PROVE  Spec => []RevocationEffective
  <1>1. ASSUME LinkInv, NEW rev \in issued, net = {}, rev.type = "tag", Reached(rev), NEW n \in Nodes, TagUsable(n)
        PROVE  tag[n] > rev.threshold
    <2>1. rev.threshold \in Nat
      BY <1>1, Constants DEF LinkInv, Types
    <2>2. rev.threshold <= Thr(n, "tag")
      BY <1>1, <2>1, FloodOver DEF LinkInv, Reached, Thr
    <2> QED
      BY <1>1, <2>1, <2>2 DEF LinkInv, Types, Thr, TagUsable
  <1>2. ASSUME LinkInv, OnlyComs, NEW rev \in issued, net = {}, rev.type = "com", Reached(rev), NEW n \in Nodes, Allowed(n)
        PROVE  com[n] > rev.threshold
    <2>1. rev.threshold \in Nat
      BY <1>2, Constants DEF LinkInv, Types
    <2>2. rev.threshold <= Thr(n, "com")
      BY <1>2, <2>1, FloodOver DEF LinkInv, Reached, Thr
    <2> QED
      BY <1>2, <2>1, <2>2 DEF LinkInv, Types, Thr, Allowed
  <1>3. LinkInv => RevocationEffective
    BY <1>1, <1>2 DEF RevocationEffective, ComRevocationEffective, OnlyComs
  <1>4. LinkInv /\ [Next]_vars => LinkInv'
    BY NextFlood
  <1> QED
    BY <1>3, <1>4, InitFlood, PTL DEF Spec

(* addCredential() replaces no credential by an older one.                 *)
THEOREM NewestIsKept == Spec => NewestKept
  <1> DEFINE Kept == \A n \in Nodes : com'[n] >= com[n] /\ tag'[n] >= tag[n]
  <1>1. ASSUME Types, [Next]_vars PROVE [Kept]_vars
    <2> SUFFICES ASSUME Types, Next PROVE Kept
      BY <1>1
    <2>1. \A n \in Nodes : com[n] \in Nat /\ tag[n] \in Nat
      BY DEF Types
    <2>2. ASSUME NEW n \in Met, NEW ts \in Times, AddCom(n, ts) PROVE Kept
      BY <2>1, <2>2, Constants, MembershipAssumption DEF Types, AddCom
    <2>3. ASSUME NEW n \in Met, NEW ts \in Times, AddTag(n, ts) PROVE Kept
      BY <2>1, <2>3, Constants, MembershipAssumption DEF Types, AddTag
    <2>4. CASE UNCHANGED <<com, tag>>
      BY <2>1, <2>4
    <2> QED
      BY ZenonT(30), <2>2, <2>3, <2>4 DEF Next, NewConfig, Issue, RecvRevocation, nodeVars
  <1>2. Init => Types
    BY DEF Init, Types
  <1>3. Types /\ [Next]_vars => Types'
    BY TypesKept
  <1> QED
    BY <1>1, <1>2, <1>3, PTL DEF Spec, NewestKept

(* The certificates of one network have the same tuples in the same        *)
(* places: each is made by CertificateOfMembership(timestamp, maxDelta,    *)
(* nwid, issuedTo).                                                        *)
Aligned ==
    \A s, t \in Times :
        /\ Len(Qualifiers[s]) = Len(Qualifiers[t])
        /\ \A i \in 1..Len(Qualifiers[s]) : Qualifiers[s][i].id = Qualifiers[t][i].id

(* Where the places of the tuples agree, the value agreesWith() compares   *)
(* with is the one its comment promises.                                   *)
LEMMA AlignedAgreement ==
    ASSUME NEW me, NEW other, Len(me) = Len(other),
           \A i \in 1..Len(me) : me[i].id = other[i].id, AgreesWith(me, other)
    PROVE  Agreement(me, other)
  BY DEF AgreesWith, Agreement

(* isAllowedOnNetwork() lets in only who holds a certificate that agrees   *)
(* with the node's own tuple by tuple, as long as the certificates of the  *)
(* network are aligned.                                                    *)
THEOREM AllowedAlwaysAgrees ==
    ASSUME Aligned
    PROVE  Spec => []AllowedAgrees
  <1> DEFINE Certs == com \in [Nodes -> 0..MaxTime] /\ conf \in [Nodes -> Times]
  <1>1. Init => Types /\ Certs
    BY MembershipAssumption DEF Init, Types, Times
  <1>2. Types /\ Certs /\ [Next]_vars => Types' /\ Certs'
    <2> SUFFICES ASSUME Types, Certs, [Next]_vars PROVE Certs'
      BY TypesKept
    <2>1. ASSUME NEW n \in Met, NEW ts \in Times, AddCom(n, ts) \/ AddTag(n, ts) \/ NewConfig(n, ts)
          PROVE  Certs'
      <3>1. ts \in 0..MaxTime
        BY MembershipAssumption DEF Times
      <3>2. CASE AddCom(n, ts)
        BY Zenon, <3>1, <3>2 DEF AddCom
      <3>3. CASE AddTag(n, ts)
        BY Zenon, <3>3 DEF AddTag
      <3>4. CASE NewConfig(n, ts)
        BY Zenon, <3>1, <3>4 DEF NewConfig
      <3> QED
        BY Zenon, <2>1, <3>2, <3>3, <3>4
    <2>2. CASE UNCHANGED <<com, conf>>
      BY <2>2
    <2> QED
      BY Zenon, <2>1, <2>2 DEF Next, Issue, RecvRevocation, vars, nodeVars
  <1>3. Types /\ Certs => AllowedAgrees
    <2> SUFFICES ASSUME Types, Certs, NEW n \in Nodes, Allowed(n)
                 PROVE  Agreement(Qualifiers[conf[n]], Qualifiers[com[n]])
      BY DEF AllowedAgrees
    <2>1. com[n] \in Times /\ conf[n] \in Times
      BY MembershipAssumption DEF Types, Allowed, Times
    <2> QED
      BY <2>1, AlignedAgreement DEF Allowed, Aligned
  <1> HIDE DEF Certs
  <1> QED
    BY <1>1, <1>2, <1>3, PTL DEF Spec

-----------------------------------------------------------------------------
(* Rules!FilterMeaning and Rules!EndsAgree for any well-formed lists of    *)
(* rules and any capability.  The walk of _doZtFilter() is followed entry  *)
(* by entry: after n entries, its running state says whether the set under *)
(* way matches so far, whether a TEE or REDIRECT to this node was passed   *)
(* over, and which earlier set decided.  For the two ends of a frame's     *)
(* way, two walks over one list are followed side by side.                 *)

(* Counting up to n: a set that has 0, and with a number below n the next, *)
(* has all.                                                                *)
LEMMA Counting ==
    ASSUME NEW n \in Nat, NEW G, 0 \in G, \A i \in 0..(n - 1) : i \in G => i + 1 \in G
    PROVE  \A i \in 0..n : i \in G
  <1> DEFINE S == (0..n) \ G
  <1> SUFFICES ASSUME S # {} PROVE FALSE
    BY Zenon
  <1>1. S \in SUBSET Nat
    OBVIOUS
  <1>2. PICK x \in S : \A y \in S : ~(<<y, x>> \in OpToRel(<, Nat))
    <2> HIDE DEF S
    <2> QED  BY NatLessThanWellFounded, WFMin, Zenon, <1>1
  <1>3. x \in Nat /\ x # 0 /\ x <= n
    OBVIOUS
  <1>4. x - 1 \in 0..(n - 1) /\ x - 1 \in Nat /\ x - 1 < x /\ (x - 1) + 1 = x
    BY <1>3
  <1>5. x - 1 \notin S
    <2>1. <<x - 1, x>> \in OpToRel(<, Nat)
      BY <1>3, <1>4 DEF OpToRel
    <2> QED  BY Zenon, <1>2, <2>1
  <1> QED  BY <1>4, <1>5

(* The walk over the first m entries of a list.                            *)
Walks(g, list, e, m) ==
    g = [i \in 0..m |-> IF i = 0 THEN Start ELSE FilterStep(g[i - 1], list[i], e)]

(* The recursion that defines the walk has a solution.                     *)
LEMMA WalkExists ==
    ASSUME NEW list, NEW e, NEW n \in Nat
    PROVE  \E g : Walks(g, list, e, n)
  <1> DEFINE G == {m \in Nat : \E g : Walks(g, list, e, m)}
  <1>1. 0 \in G
    <2> DEFINE g == [i \in 0..0 |-> Start]
    <2>1. g = [i \in 0..0 |-> IF i = 0 THEN Start ELSE FilterStep(g[i - 1], list[i], e)]
      OBVIOUS
    <2>2. Walks(g, list, e, 0)
      BY Zenon, <2>1 DEF Walks
    <2> QED  BY <2>2
  <1>2. ASSUME NEW m \in 0..(n - 1), m \in G PROVE m + 1 \in G
    <2>1. PICK g : Walks(g, list, e, m)
      BY <1>2
    <2> DEFINE h == [i \in 0..(m + 1) |-> IF i <= m THEN g[i] ELSE FilterStep(g[m], list[m + 1], e)]
               Body(i) == IF i = 0 THEN Start ELSE FilterStep(h[i - 1], list[i], e)
    <2>2. ASSUME NEW i \in 0..(m + 1) PROVE h[i] = Body(i)
      <3>1. CASE i = 0
        BY <2>1, <3>1 DEF Walks
      <3>2. CASE i # 0 /\ i <= m
        BY <2>1, <3>2 DEF Walks
      <3>3. CASE i = m + 1
        BY <3>3
      <3> QED  BY <3>1, <3>2, <3>3
    <2>3. h = [i \in 0..(m + 1) |-> Body(i)]
      <3> HIDE DEF Body
      <3> QED BY <2>2
    <2>4. Walks(h, list, e, m + 1)
      <3> HIDE DEF h
      <3> QED BY <2>3 DEF Walks
    <2> QED  BY <2>4
  <1> HIDE DEF G
  <1>3. n \in G
    BY <1>1, <1>2, Counting
  <1> QED  BY <1>3 DEF G

(* So the walk obeys it.                                                   *)
LEMMA WalkIs ==
    ASSUME NEW list, NEW e, Len(list) \in Nat
    PROVE  Walks(Walk(list, e), list, e, Len(list))
  <1>1. Walk(list, e) = CHOOSE g : Walks(g, list, e, Len(list))
    BY Zenon DEF Walk, Walks
  <1> QED  BY Zenon, <1>1, WalkExists

(* The state of _doZtFilter() as a record.                                 *)
Shape(st) ==
    /\ st = [result |-> st.result, set |-> st.set, super |-> st.super, cc |-> st.cc, dst |-> st.dst]
    /\ st.set \in BOOLEAN /\ st.super \in BOOLEAN

Entry(r) == r.t \in Matches \cup Actions /\ r.or \in BOOLEAN /\ r.neg \in BOOLEAN

Forwarding(r, e) == r.t \in Forwards /\ r.to # e.src /\ r.to = e.me /\ e.inbound

Outside(r, e) == r.to \notin {e.src, e.me, e.dst}

Holds(r, e, super) == RuleMatches(r, e, super) # r.neg

(* What an ACTION whose set matches does to the state.                     *)
ActFacts(st, t, r, e) ==
    /\ Shape(t) /\ t.set = st.set /\ t.super = st.super
    /\ r.t = "drop" => t.result = "drop" /\ t.cc = st.cc
    /\ r.t = "break" => t.result = "noMatch" /\ t.cc = st.cc
    /\ r.t = "accept" => t.result = (IF st.super THEN "superAccept" ELSE "accept") /\ t.cc = st.cc
    /\ Forwarding(r, e) => t.result = "superAccept" /\ t.cc = st.cc
    /\ r.t = "tee" /\ Outside(r, e) => t.result = st.result /\ t.cc = {r.to}
    /\ r.t = "redirect" /\ Outside(r, e) => t.result = "redirect" /\ t.dst = r.to /\ t.cc = st.cc
    /\ r.t = "unknown" \/ (r.t \in Forwards /\ ~Forwarding(r, e) /\ ~Outside(r, e)) => t = st

(* These are what Act() does.                                              *)
LEMMA ActDoes ==
    ASSUME NEW st, NEW r, NEW e, Shape(st), r.t \in Actions
    PROVE  ActFacts(st, Act(st, r, e), r, e)
  <1> DEFINE t == Act(st, r, e)
  <1>2. CASE r.t \in {"drop", "break", "accept"}
    BY Zenon, <1>2 DEF Act, Result, Shape, ActFacts, Forwards, Forwarding
  <1>3. CASE r.t = "unknown"
    BY <1>3 DEF Act, Result, Shape, ActFacts, Forwards, Forwarding
  <1>4. CASE r.t = "tee"
    BY <1>4 DEF Act, Result, Shape, ActFacts, Forwards, Forwarding, Outside
  <1>5. CASE r.t = "redirect"
    BY Zenon, <1>5 DEF Act, Result, Shape, ActFacts, Forwards, Forwarding, Outside
  <1> QED  BY <1>2, <1>3, <1>4, <1>5 DEF Actions

(* What an entry of the list does to the state.                            *)
StepFacts(st, t, r, e) ==
    /\ Shape(t)
    /\ st.result # "" => t = st
    /\ st.result = "" /\ r.t \in Actions /\ st.set => t = Act(st, r, e)
    /\ st.result = "" /\ r.t \in Actions /\ ~st.set =>
          /\ t.result = "" /\ t.set = TRUE /\ t.cc = st.cc /\ t.dst = st.dst
          /\ t.super <=> st.super \/ (e.inbound /\ r.t \in Forwards /\ r.to = e.me)
    /\ st.result = "" /\ r.t \in Matches =>
          /\ t.result = "" /\ t.super = st.super /\ t.cc = st.cc /\ t.dst = st.dst
          /\ t.set <=> IF r.or THEN st.set \/ Holds(r, e, st.super)
                                ELSE st.set /\ Holds(r, e, st.super)

(* These are what one round of the loop of _doZtFilter() does.             *)
LEMMA StepDoes ==
    ASSUME NEW st, NEW r, NEW e, Shape(st), Entry(r)
    PROVE  StepFacts(st, FilterStep(st, r, e), r, e)
  <1> DEFINE t == FilterStep(st, r, e)
  <1>0. r.t \in Matches => r.t \notin Actions
    BY DEF Matches, Actions
  <1>1. CASE st.result # ""
    <2>1. t = st
      BY Zenon, <1>1 DEF FilterStep
    <2> QED  BY Zenon, <1>1, <2>1 DEF StepFacts
  <1>2. CASE st.result = "" /\ r.t \in Actions /\ st.set
    <2>1. t = Act(st, r, e)
      BY Zenon, <1>2 DEF FilterStep
    <2>2. ActFacts(st, t, r, e)
      BY Zenon, <1>2, <2>1, ActDoes
    <2>3. Shape(t)
      BY Zenon, <2>2 DEF ActFacts
    <2> QED  BY Zenon, <1>0, <1>2, <2>1, <2>3 DEF StepFacts
  <1>3. CASE st.result = "" /\ r.t \in Actions /\ ~st.set
    <2>1. t = Skip(st, r, e)
      BY Zenon, <1>3 DEF FilterStep
    <2> DEFINE s == st.super \/ (e.inbound /\ r.t \in Forwards /\ r.to = e.me)
    <2>2. Skip(st, r, e) = [st EXCEPT !.super = s, !.set = TRUE]
      BY Zenon DEF Skip
    <2>3. s \in BOOLEAN
      BY Zenon
    <2> HIDE DEF s
    <2>4. Shape(t) /\ t.result = st.result /\ t.set = TRUE /\ t.super = s /\ t.cc = st.cc /\ t.dst = st.dst
      BY Zenon, <2>1, <2>2, <2>3 DEF Shape
    <2> QED  BY Zenon, <1>0, <1>3, <2>4 DEF StepFacts, s
  <1>4. CASE st.result = "" /\ r.t \in Matches
    <2> DEFINE m == Holds(r, e, st.super)
               b == IF r.or THEN st.set \/ m ELSE st.set /\ m
    <2>1. t = IF ~st.set /\ ~r.or THEN st ELSE Match(st, r, e)
      BY Zenon, <1>0, <1>4 DEF FilterStep
    <2>2. Match(st, r, e) = [result |-> st.result, set |-> b, super |-> st.super, cc |-> st.cc, dst |-> st.dst]
      BY DEF Match, Shape, Holds
    <2>3. b \in BOOLEAN /\ (~st.set /\ ~r.or => (b <=> st.set))
      BY Zenon
    <2>4. ~st.set /\ ~r.or => b = st.set
      BY Zenon, <2>3 DEF Shape
    <2> HIDE DEF b, m
    <2>5. Shape(t) /\ t.result = st.result /\ t.set = b /\ t.super = st.super /\ t.cc = st.cc /\ t.dst = st.dst
      <3>1. CASE ~st.set /\ ~r.or
        BY Zenon, <2>1, <2>4, <3>1
      <3>2. CASE ~(~st.set /\ ~r.or)
        <4>1. t = [result |-> st.result, set |-> b, super |-> st.super, cc |-> st.cc, dst |-> st.dst]
          BY Zenon, <2>1, <2>2, <3>2
        <4> QED  BY <4>1, <2>3 DEF Shape
      <3> QED  BY <3>1, <3>2
    <2> QED  BY Zenon, <1>0, <1>4, <2>5 DEF StepFacts, b, m
  <1> QED  BY Zenon, <1>1, <1>2, <1>3, <1>4 DEF Entry

(* The walk step by step.                                                  *)
LEMMA WalkSteps ==
    ASSUME NEW list, NEW e, WellFormed(list)
    PROVE  /\ Len(list) \in Nat
           /\ Walk(list, e)[0] = Start
           /\ \A i \in 0..Len(list) : Shape(Walk(list, e)[i])
           /\ \A i \in 0..(Len(list) - 1) :
                 /\ i + 1 \in DOMAIN list
                 /\ StepFacts(Walk(list, e)[i], Walk(list, e)[i + 1], list[i + 1], e)
  <1> DEFINE W == Walk(list, e)
             n == Len(list)
  <1>1. n \in Nat /\ DOMAIN list = 1..n /\ \A i \in DOMAIN list : Entry(list[i])
    BY Zenon DEF WellFormed, Entry
  <1>2. Walks(W, list, e, n)
    BY Zenon, <1>1, WalkIs
  <1> HIDE DEF W, n
  <1>3. W[0] = Start
    BY <1>1, <1>2 DEF Walks
  <1>4. ASSUME NEW i \in 0..(n - 1)
        PROVE  i + 1 \in DOMAIN list /\ W[i + 1] = FilterStep(W[i], list[i + 1], e)
    BY <1>1, <1>2 DEF Walks
  <1> DEFINE G == {i \in Nat : Shape(W[i])}
  <1>5. 0 \in G
    <2>1. Shape(Start)
      BY DEF Shape, Start
    <2> QED  BY Zenon, <1>3, <2>1, 0 \in Nat
  <1>6. ASSUME NEW i \in 0..(n - 1), i \in G
        PROVE  i + 1 \in G /\ StepFacts(W[i], W[i + 1], list[i + 1], e)
    <2>1. StepFacts(W[i], W[i + 1], list[i + 1], e)
      BY Zenon, <1>1, <1>4, <1>6, StepDoes
    <2>2. i + 1 \in Nat
      OBVIOUS
    <2> QED  BY Zenon, <2>1, <2>2 DEF StepFacts
  <1>7. \A i \in 0..n : i \in G
    <2> HIDE DEF G
    <2> QED  BY Zenon, <1>1, <1>5, <1>6, Counting
  <1>8. ASSUME NEW i \in 0..(n - 1) PROVE i \in 0..n
    BY <1>1
  <1> QED  BY Zenon, <1>1, <1>3, <1>4, <1>6, <1>7, <1>8 DEF W, n

(* The recursion of superAccept, for the first m entries.                  *)
SuperAt(g, list, e, i) ==
    \E j \in Ends(list) :
        /\ j < i /\ e.inbound /\ list[j].t \in Forwards /\ list[j].to = e.me
        /\ ~SetMatches(list, j, e, g[j])

SupersUpTo(g, list, e, m) == g = [i \in 1..m |-> SuperAt(g, list, e, i)]

(* The recursion that defines superAccept entry by entry has a solution.   *)
LEMMA SupersExist ==
    ASSUME NEW list, NEW e, NEW n \in Nat, Ends(list) \in SUBSET (Nat \ {0})
    PROVE  \E g : SupersUpTo(g, list, e, n)
  <1> DEFINE G == {m \in Nat : \E g : SupersUpTo(g, list, e, m)}
  <1>1. 0 \in G
    <2> DEFINE g == [i \in 1..0 |-> FALSE]
    <2>1. g = [i \in 1..0 |-> SuperAt(g, list, e, i)]
      OBVIOUS
    <2>2. SupersUpTo(g, list, e, 0)
      BY Zenon, <2>1 DEF SupersUpTo
    <2> QED  BY Zenon, <2>2, 0 \in Nat
  <1>2. ASSUME NEW m \in 0..(n - 1), m \in G PROVE m + 1 \in G
    <2>1. PICK g : SupersUpTo(g, list, e, m)
      BY Zenon, <1>2
    <2> DEFINE h == [i \in 1..(m + 1) |-> SuperAt(g, list, e, i)]
    <2>2. ASSUME NEW i \in 1..m PROVE h[i] = g[i]
      <3>1. i \in 1..(m + 1)
        OBVIOUS
      <3> QED  BY Zenon, <2>1, <3>1 DEF SupersUpTo
    <2>3. ASSUME NEW i \in 1..(m + 1)
          PROVE  SuperAt(g, list, e, i) = SuperAt(h, list, e, i)
      <3> HIDE DEF h
      <3>1. ASSUME NEW j \in Ends(list), j < i PROVE h[j] = g[j]
        BY <2>2, <3>1
      <3> QED  BY Zenon, <3>1 DEF SuperAt
    <2>4. SupersUpTo(h, list, e, m + 1)
      BY Zenon, <2>3 DEF SupersUpTo
    <2> QED  BY <2>4
  <1> HIDE DEF G
  <1>3. n \in G
    BY <1>1, <1>2, Counting
  <1> QED  BY Zenon, <1>3 DEF G

(* superAccept before the first entry, and from one entry to the next.     *)
LEMMA SupersStep ==
    ASSUME NEW list, NEW e, WellFormed(list)
    PROVE  /\ Supers(list, e)[1] = FALSE
           /\ \A i \in 1..(Len(list) + 1) : Supers(list, e)[i] \in BOOLEAN
           /\ \A i \in 1..Len(list) :
                 Supers(list, e)[i + 1] <=>
                    \/ Supers(list, e)[i]
                    \/ /\ i \in Ends(list)
                       /\ e.inbound /\ list[i].t \in Forwards /\ list[i].to = e.me
                       /\ ~SetMatches(list, i, e, Supers(list, e)[i])
  <1> DEFINE S == Supers(list, e)
             n == Len(list)
  <1>1. n \in Nat /\ Ends(list) \in SUBSET (1..n)
    BY DEF WellFormed, Ends
  <1>2. SupersUpTo(S, list, e, n + 1)
    <2>1. S = CHOOSE g : SupersUpTo(g, list, e, n + 1)
      BY Zenon DEF Supers, SupersUpTo, SuperAt
    <2>2. Ends(list) \in SUBSET (Nat \ {0}) /\ n + 1 \in Nat
      BY <1>1
    <2> QED  BY Zenon, <2>1, <2>2, SupersExist
  <1> HIDE DEF S, n
  <1>3. ASSUME NEW i \in 1..(n + 1)
        PROVE  S[i] \in BOOLEAN /\ (S[i] <=> SuperAt(S, list, e, i))
    <2>1. S[i] = SuperAt(S, list, e, i)
      BY Zenon, <1>2 DEF SupersUpTo
    <2> QED  BY Zenon, <2>1 DEF SuperAt
  <1>4. S[1] = FALSE
    <2>1. 1 \in 1..(n + 1) /\ \A j \in Ends(list) : ~(j < 1)
      BY <1>1
    <2> QED  BY Zenon, <1>3, <2>1 DEF SuperAt
  <1>5. ASSUME NEW i \in 1..n
        PROVE  S[i + 1] <=>
                  \/ S[i]
                  \/ /\ i \in Ends(list)
                     /\ e.inbound /\ list[i].t \in Forwards /\ list[i].to = e.me
                     /\ ~SetMatches(list, i, e, S[i])
    <2>1. i \in 1..(n + 1) /\ i + 1 \in 1..(n + 1) /\ i < i + 1
      BY <1>1
    <2>2. \A j \in Ends(list) : j < i + 1 <=> j < i \/ j = i
      BY <1>1
    <2> QED  BY Zenon, <1>3, <2>1, <2>2 DEF SuperAt
  <1> QED  BY Zenon, <1>3, <1>4, <1>5 DEF S, n

(* The matches of a set one by one, as the walk takes them.                *)
LEMMA SetStep ==
    ASSUME NEW list, NEW e, NEW super, WellFormed(list)
    PROVE  /\ SetMatches(list, 1, e, super)
           /\ \A i \in Ends(list) : SetMatches(list, i + 1, e, super)
           /\ \A i \in DOMAIN list \ Ends(list) :
                 SetMatches(list, i + 1, e, super) <=>
                    IF list[i].or THEN SetMatches(list, i, e, super) \/ Holds(list[i], e, super)
                                  ELSE SetMatches(list, i, e, super) /\ Holds(list[i], e, super)
  <1> DEFINE H(j) == RuleMatches(list[j], e, super) # list[j].neg
             From(i) == {0} \cup {j \in SetOf(list, i) : list[j].or /\ H(j)}
             Rest(i, k) == \A j \in SetOf(list, i) : j > k /\ ~list[j].or => H(j)
  <1>1. \A i : SetMatches(list, i, e, super) <=> \E k \in From(i) : Rest(i, k)
    BY Zenon DEF SetMatches
  <1>2. \A j : H(j) <=> Holds(list[j], e, super)
    BY Zenon DEF Holds
  <1>3. Len(list) \in Nat /\ DOMAIN list = 1..Len(list) /\ Ends(list) \in SUBSET (1..Len(list))
    BY DEF WellFormed, Ends
  <1>4. ASSUME NEW i, SetOf(list, i) = {} PROVE SetMatches(list, i, e, super)
    <2>1. 0 \in From(i) /\ Rest(i, 0)
      BY Zenon, <1>4
    <2> QED  BY Zenon, <1>1, <2>1
  <1>5. SetOf(list, 1) = {}
    BY DEF SetOf
  <1>6. ASSUME NEW i \in Ends(list) PROVE SetOf(list, i + 1) = {}
    BY <1>3 DEF SetOf
  <1>7. ASSUME NEW i \in DOMAIN list \ Ends(list)
        PROVE  SetMatches(list, i + 1, e, super) <=>
                  IF list[i].or THEN SetMatches(list, i, e, super) \/ Holds(list[i], e, super)
                                ELSE SetMatches(list, i, e, super) /\ Holds(list[i], e, super)
    <2>1. SetOf(list, i + 1) = SetOf(list, i) \cup {i}
      BY <1>3 DEF SetOf
    <2>2. i > 0 /\ ~(i > i) /\ \A j \in SetOf(list, i) : i > j /\ ~(j > i)
      BY <1>3 DEF SetOf
    <2>3. \A k \in From(i) : i > k
      BY Zenon, <2>2
    <2>4. \A k : Rest(i + 1, k) <=> Rest(i, k) /\ (i > k /\ ~list[i].or => H(i))
      BY Zenon, <2>1
    <2>5. \A k : k \in From(i + 1) <=> k \in From(i) \/ (k = i /\ list[i].or /\ H(i))
      BY Zenon, <2>1
    <2>6. Rest(i, i)
      BY Zenon, <2>2
    <2> HIDE DEF From, Rest, H
    <2>7. CASE list[i].or
      BY Zenon, <1>1, <1>2, <2>4, <2>5, <2>6, <2>7
    <2>8. CASE ~list[i].or
      BY Zenon, <1>1, <1>2, <2>3, <2>4, <2>5, <2>8
    <2> QED  BY Zenon, <2>7, <2>8
  <1> QED  BY Zenon, <1>4, <1>5, <1>6, <1>7

(* What an ACTION says depends on the state only through superAccept.      *)
OutcomeOf(r, e, super) == Act([Start EXCEPT !.super = super], r, e).result

(* The result of an ACTION in the course of the walk is its outcome.       *)
LEMMA ActResult ==
    ASSUME NEW st, NEW r, NEW e, Shape(st), st.result = "", r.t \in Actions
    PROVE  Act(st, r, e).result = OutcomeOf(r, e, st.super)
  <1> DEFINE o == [Start EXCEPT !.super = st.super]
  <1>1. Shape(o) /\ o.result = "" /\ o.super = st.super
    <2>1. ASSUME NEW b \in BOOLEAN, NEW u, u = [Start EXCEPT !.super = b]
          PROVE  Shape(u) /\ u.result = "" /\ u.super = b
      <3>1. Start = [result |-> "", set |-> TRUE, super |-> FALSE, cc |-> {}, dst |-> ""]
        BY Zenon DEF Start
      <3> QED  BY Zenon, <2>1, <3>1 DEF Shape
    <2> QED  BY Zenon, <2>1 DEF Shape
  <1> HIDE DEF o
  <1>2. ActFacts(st, Act(st, r, e), r, e) /\ ActFacts(o, Act(o, r, e), r, e)
    BY Zenon, <1>1, ActDoes
  <1>3. Act(st, r, e).result = Act(o, r, e).result
    BY Zenon, <1>1, <1>2 DEF ActFacts, Actions, Forwards
  <1> QED  BY Zenon, <1>3 DEF OutcomeOf, o

(* Two truth values that are equivalent are equal.                         *)
LEMMA SameTruth == ASSUME NEW a \in BOOLEAN, NEW b \in BOOLEAN, a <=> b PROVE a = b
  OBVIOUS

(* The set at i matches and its ACTION decides.                            *)
Decides(list, e, i) ==
    /\ SetMatches(list, i, e, Supers(list, e)[i])
    /\ OutcomeOf(list[i], e, Supers(list, e)[i]) # ""

(* After n entries the walk has not decided, and its state is that of the  *)
(* set at hand; or it has, with the first set that does.                   *)
Walked(list, e, st, n) ==
    IF st.result = ""
    THEN /\ st.super = Supers(list, e)[n + 1]
         /\ st.set <=> SetMatches(list, n + 1, e, Supers(list, e)[n + 1])
         /\ \A i \in Ends(list) : i <= n => ~Decides(list, e, i)
    ELSE \E i \in Ends(list) :
           /\ i <= n /\ Decides(list, e, i)
           /\ OutcomeOf(list[i], e, Supers(list, e)[i]) = st.result
           /\ \A j \in Ends(list) : j < i => ~Decides(list, e, j)

(* One more entry is walked: the running state still means what it should. *)
LEMMA WalkedStep ==
    ASSUME NEW list, NEW e, WellFormed(list), NEW n \in 0..(Len(list) - 1), NEW st, NEW t,
           Shape(st), StepFacts(st, t, list[n + 1], e), Walked(list, e, st, n)
    PROVE  Walked(list, e, t, n + 1)
  <1> DEFINE S == Supers(list, e)
             k == n + 1
             SM(i) == SetMatches(list, i, e, S[i])
  <1>1. /\ Len(list) \in Nat /\ k \in DOMAIN list /\ k \in 1..Len(list) /\ k \in 1..(Len(list) + 1)
        /\ DOMAIN list = 1..Len(list) /\ Ends(list) \in SUBSET (1..Len(list))
    BY DEF WellFormed, Ends
  <1>2. list[k].t \in Matches \cup Actions
    BY Zenon, <1>1 DEF WellFormed
  <1>3. k \in Ends(list) <=> list[k].t \in Actions
    BY Zenon, <1>1 DEF Ends
  <1>4. \A i \in Ends(list) : /\ i <= n => i <= k
                              /\ i <= k => i <= n \/ i = k
                              /\ i < k => i <= n
    BY <1>1
  <1>5. k <= k
    BY <1>1
  <1>6. S[k] \in BOOLEAN /\ S[k + 1] \in BOOLEAN
    <2>1. k + 1 \in 1..(Len(list) + 1)
      BY <1>1
    <2> HIDE DEF k
    <2> QED  BY Zenon, <1>1, <2>1, SupersStep
  <1> HIDE DEF k
  <1>7. S[k + 1] <=> \/ S[k]
                     \/ /\ k \in Ends(list)
                        /\ e.inbound /\ list[k].t \in Forwards /\ list[k].to = e.me
                        /\ ~SM(k)
    BY Zenon, <1>1, SupersStep
  <1>8. /\ k \in Ends(list) => SM(k + 1)
        /\ k \notin Ends(list) =>
             (SetMatches(list, k + 1, e, S[k]) <=>
                IF list[k].or THEN SM(k) \/ Holds(list[k], e, S[k]) ELSE SM(k) /\ Holds(list[k], e, S[k]))
    BY Zenon, <1>1, SetStep
  <1>9. CASE st.result # ""
    <2>1. t = st
      BY Zenon, <1>9 DEF StepFacts
    <2> QED  BY Zenon, <1>4, <1>9, <2>1 DEF Walked, k
  <1>10. CASE st.result = ""
    <2>1. /\ st.super = S[k] /\ (st.set <=> SM(k))
          /\ \A i \in Ends(list) : i <= n => ~Decides(list, e, i)
      BY Zenon, <1>10 DEF Walked, k
    <2>2. CASE list[k].t \in Matches
      <3>0. k \notin Ends(list)
        BY <1>3, <2>2 DEF Matches, Actions
      <3>1. S[k + 1] = S[k]
        <4>1. S[k + 1] <=> S[k]
          BY Zenon, <1>7, <3>0
        <4> QED  BY Zenon, <1>6, <4>1, SameTruth
      <3>2. /\ t.result = "" /\ t.super = st.super
            /\ t.set <=> IF list[k].or THEN st.set \/ Holds(list[k], e, st.super)
                                       ELSE st.set /\ Holds(list[k], e, st.super)
        BY Zenon, <1>10, <2>2 DEF StepFacts, k
      <3>3. t.set <=> SM(k + 1)
        BY Zenon, <1>8, <2>1, <3>0, <3>1, <3>2
      <3>4. \A i \in Ends(list) : i <= k => ~Decides(list, e, i)
        BY Zenon, <1>4, <2>1, <3>0
      <3> QED  BY Zenon, <2>1, <3>1, <3>2, <3>3, <3>4 DEF Walked, k
    <2>3. CASE k \in Ends(list) /\ ~st.set
      <3>1. /\ t.result = "" /\ t.set = TRUE
            /\ t.super <=> st.super \/ (e.inbound /\ list[k].t \in Forwards /\ list[k].to = e.me)
        BY Zenon, <1>3, <1>10, <2>3 DEF StepFacts, k
      <3>2. ~SM(k) /\ ~Decides(list, e, k)
        BY Zenon, <2>1, <2>3 DEF Decides
      <3>3. t.super = S[k + 1]
        <4>1. t.super \in BOOLEAN
          BY Zenon DEF StepFacts, Shape
        <4> QED  BY Zenon, <1>6, <1>7, <2>1, <2>3, <3>1, <3>2, <4>1
      <3>4. \A i \in Ends(list) : i <= k => ~Decides(list, e, i)
        BY Zenon, <1>4, <2>1, <3>2
      <3> QED  BY Zenon, <1>8, <2>3, <3>1, <3>3, <3>4 DEF Walked, k
    <2>4. CASE k \in Ends(list) /\ st.set
      <3>1. t = Act(st, list[k], e) /\ list[k].t \in Actions
        BY Zenon, <1>3, <1>10, <2>4 DEF StepFacts, k
      <3>2. t.result = OutcomeOf(list[k], e, S[k])
        BY Zenon, <1>10, <2>1, <3>1, ActResult
      <3>3. t.set = st.set /\ t.super = st.super
        <4>1. ActFacts(st, t, list[k], e)
          BY Zenon, <3>1, ActDoes
        <4> QED  BY Zenon, <4>1 DEF ActFacts
      <3>4. SM(k)
        BY Zenon, <2>1, <2>4
      <3>5. CASE t.result = ""
        <4>1. S[k + 1] = S[k]
          <5>1. S[k + 1] <=> S[k]
            BY Zenon, <1>7, <3>4
          <5> QED  BY Zenon, <1>6, <5>1, SameTruth
        <4>2. ~Decides(list, e, k)
          BY Zenon, <3>2, <3>5 DEF Decides
        <4>3. \A i \in Ends(list) : i <= k => ~Decides(list, e, i)
          BY Zenon, <1>4, <2>1, <4>2
        <4> QED  BY Zenon, <1>8, <2>1, <2>4, <3>3, <3>5, <4>1, <4>3 DEF Walked, k
      <3>6. CASE t.result # ""
        <4>1. Decides(list, e, k)
          BY Zenon, <3>2, <3>4, <3>6 DEF Decides
        <4> QED  BY Zenon, <1>4, <1>5, <2>1, <2>4, <3>2, <3>6, <4>1 DEF Walked, k
      <3> QED  BY Zenon, <3>5, <3>6
    <2> QED  BY Zenon, <1>2, <1>3, <2>2, <2>3, <2>4
  <1> QED  BY Zenon, <1>9, <1>10

(* _doZtFilter() on any list, at any end.                                  *)
LEMMA FilterMeans ==
    ASSUME NEW list, NEW e, WellFormed(list)
    PROVE  DoZtFilter(list, e).result = Meaning(list, e)
  <1> DEFINE W == Walk(list, e)
             n == Len(list)
             G == {i \in Nat : Walked(list, e, W[i], i)}
             S == Supers(list, e)
             final == {i \in Ends(list) : Decides(list, e, i)}
             first == CHOOSE i \in final : \A j \in final : i <= j
  <1>1. /\ n \in Nat /\ W[0] = Start /\ \A i \in 0..n : Shape(W[i])
        /\ \A i \in 0..(n - 1) : StepFacts(W[i], W[i + 1], list[i + 1], e)
    BY Zenon, WalkSteps
  <1>2. Ends(list) \in SUBSET (1..n)
    BY DEF WellFormed, Ends
  <1> HIDE DEF W
  <1>3. 0 \in G
    <2>1. Start.result = "" /\ Start.super = FALSE /\ Start.set = TRUE /\ 0 + 1 = 1
      BY DEF Start
    <2>2. \A i \in Ends(list) : ~(i <= 0)
      BY <1>1, <1>2
    <2>3. Supers(list, e)[0 + 1] = FALSE /\ SetMatches(list, 0 + 1, e, Supers(list, e)[0 + 1])
      <3>1. Supers(list, e)[1] = FALSE /\ SetMatches(list, 1, e, Supers(list, e)[1])
        <4>1. Supers(list, e)[1] = FALSE
          BY Zenon, SupersStep
        <4>2. \A b : SetMatches(list, 1, e, b)
          BY Zenon, SetStep
        <4> QED  BY Zenon, <4>1, <4>2
      <3> QED  BY Zenon, <2>1, <3>1
    <2>4. W[0].result = "" /\ W[0].super = FALSE /\ W[0].set
      BY Zenon, <1>1, <2>1
    <2>5. Walked(list, e, W[0], 0)
      BY Zenon, <2>2, <2>3, <2>4 DEF Walked
    <2> QED  BY Zenon, <2>5, 0 \in Nat
  <1>4. ASSUME NEW i \in 0..(n - 1), i \in G PROVE i + 1 \in G
    <2>1. i \in 0..n /\ i + 1 \in Nat
      BY <1>1
    <2>2. Walked(list, e, W[i + 1], i + 1)
      BY Zenon, <1>1, <1>4, <2>1, WalkedStep
    <2> QED  BY Zenon, <2>1, <2>2
  <1>5. Walked(list, e, W[n], n)
    <2> HIDE DEF G
    <2>1. n \in 0..n
      BY <1>1
    <2>2. n \in G
      BY Zenon, <1>1, <1>3, <1>4, <2>1, Counting
    <2> QED  BY Zenon, <2>2 DEF G
  <1>6. Meaning(list, e) = IF final = {} THEN "noMatch" ELSE OutcomeOf(list[first], e, S[first])
    BY Zenon DEF Meaning, OutcomeOf, Decides
  <1>7. \A i \in Ends(list) : i <= n
    BY <1>1, <1>2
  <1>8. CASE W[n].result = ""
    <2>1. final = {}
      BY Zenon, <1>5, <1>7, <1>8 DEF Walked
    <2>2. DoZtFilter(list, e) = [W[n] EXCEPT !.result = "noMatch"]
      BY Zenon, <1>8 DEF DoZtFilter, W, Result
    <2>3. DoZtFilter(list, e).result = "noMatch"
      BY <1>1, <2>2 DEF Shape
    <2> QED  BY Zenon, <1>6, <2>1, <2>3
  <1>9. CASE W[n].result # ""
    <2>1. PICK i \in Ends(list) :
             /\ Decides(list, e, i)
             /\ OutcomeOf(list[i], e, S[i]) = W[n].result
             /\ \A j \in Ends(list) : j < i => ~Decides(list, e, j)
      BY Zenon, <1>5, <1>9 DEF Walked
    <2>2. i \in final /\ \A j \in final : ~(j < i)
      BY Zenon, <2>1
    <2>3. final \in SUBSET Nat
      BY <1>2
    <2> HIDE DEF final
    <2>4. i \in final /\ \A j \in final : i <= j
      BY <2>2, <2>3
    <2>5. first \in final /\ \A j \in final : first <= j
      BY Zenon, <2>4
    <2> HIDE DEF first
    <2>6. first = i
      BY <2>3, <2>4, <2>5
    <2>7. DoZtFilter(list, e) = W[n]
      BY Zenon, <1>9 DEF DoZtFilter, W
    <2> QED  BY Zenon, <1>6, <2>1, <2>4, <2>6, <2>7
  <1> QED  BY Zenon, <1>8, <1>9

(* The result keeps its shape, and says "noMatch" for a walk that has not  *)
(* decided.                                                                *)
LEMMA FilterFrom ==
    ASSUME NEW list, NEW e, WellFormed(list)
    PROVE  LET st == Walk(list, e)[Len(list)]
               f  == DoZtFilter(list, e)
           IN /\ Shape(st) /\ Shape(f) /\ f.cc = st.cc /\ f.dst = st.dst
              /\ f.result = IF st.result = "" THEN "noMatch" ELSE st.result
  <1> DEFINE st == Walk(list, e)[Len(list)]
             f  == DoZtFilter(list, e)
  <1>1. Shape(st)
    <2>1. Len(list) \in 0..Len(list)
      BY WalkSteps
    <2> QED  BY Zenon, <2>1, WalkSteps
  <1>2. f = IF st.result = "" THEN Result(st, "noMatch") ELSE st
    BY Zenon DEF DoZtFilter
  <1> HIDE DEF f, st
  <1>3. CASE st.result = ""
    <2>1. f = [st EXCEPT !.result = "noMatch"]
      BY Zenon, <1>2, <1>3 DEF Result
    <2>2. Shape(f) /\ f.cc = st.cc /\ f.dst = st.dst /\ f.result = "noMatch"
      BY Zenon, <1>1, <2>1 DEF Shape
    <2> QED  BY Zenon, <1>1, <1>3, <2>2 DEF f, st
  <1>4. CASE st.result # ""
    BY Zenon, <1>1, <1>2, <1>4 DEF f, st
  <1> QED  BY Zenon, <1>3, <1>4

-----------------------------------------------------------------------------
Truth(b) == b \in BOOLEAN

(* A MATCH is true or false.                                               *)
LEMMA MatchTruth ==
    ASSUME NEW r, r.t \in Matches, NEW e, Truth(e.inbound), NEW s, Truth(s)
    PROVE  Truth(RuleMatches(r, e, s))
  <1>1. CASE r.t = "field"
    BY Zenon, <1>1 DEF RuleMatches, Truth
  <1>2. CASE r.t = "dest"
    BY Zenon, <1>2 DEF RuleMatches, Truth
  <1>3. CASE r.t = "inbound"
    BY Zenon, <1>3 DEF RuleMatches, Truth
  <1>4. CASE r.t = "tags"
    BY Zenon, <1>4 DEF RuleMatches, Truth
  <1>5. CASE r.t = "receiver"
    BY Zenon, <1>5 DEF RuleMatches, Truth
  <1>6. CASE r.t = "source"
    BY Zenon, <1>6 DEF RuleMatches, Truth
  <1>7. CASE r.t = "sender"
    BY Zenon, <1>7 DEF RuleMatches, Truth
  <1> QED  BY Zenon, <1>1, <1>2, <1>3, <1>4, <1>5, <1>6, <1>7 DEF Matches

(* Two ends at which what one matches the other matches too.               *)
Weaker(list, a, b) ==
    /\ ~a.inbound /\ Truth(a.inbound) /\ Truth(b.inbound)
    /\ \A z : z \in {a.src, a.me, a.dst} <=> z \in {b.src, b.me, b.dst}
    /\ \A i \in DOMAIN list : list[i].t \in Matches => \A s \in BOOLEAN :
          /\ RuleMatches(list[i], a, FALSE) => RuleMatches(list[i], b, s)
          /\ list[i].t \notin {"tags", "receiver"} =>
               (RuleMatches(list[i], a, FALSE) <=> RuleMatches(list[i], b, s))

(* The next ACTION from i on is an ACCEPT.                                 *)
ToAccept(list, i) ==
    \E k \in Ends(list) :
        k >= i /\ list[k].t = "accept" /\ \A j \in Ends(list) : j >= i => j >= k

(* The two walks after n entries: b has accepted, or they are together but *)
(* for a set that ends in ACCEPT.                                          *)
Together(list, n, A, B) ==
    /\ A.super = FALSE
    /\ \/ B.result \in {"accept", "superAccept"}
       \/ /\ A.result = B.result
          /\ A.result = "" => (A.set => B.set) /\ (A.set # B.set => ToAccept(list, n + 1))

(* One more entry is walked at both ends: they stay together.              *)
LEMMA TogetherStep ==
    ASSUME NEW list, WellFormed(list), Permissive(list), NEW a, NEW b, Weaker(list, a, b),
           NEW n \in 0..(Len(list) - 1), NEW A, NEW B, NEW C, NEW D, Shape(A), Shape(B),
           StepFacts(A, C, list[n + 1], a), StepFacts(B, D, list[n + 1], b),
           Together(list, n, A, B)
    PROVE  Together(list, n + 1, C, D)
  <1> DEFINE r == list[n + 1]
  <1>1. /\ n + 1 \in DOMAIN list /\ n \in Nat /\ n + 1 \in Nat
        /\ Ends(list) \in SUBSET Nat
    BY DEF WellFormed, Ends
  <1>2. r.t \in Matches \cup Actions /\ r.neg \in BOOLEAN /\ r.or \in BOOLEAN
    BY Zenon, <1>1 DEF WellFormed
  <1>3. r.t \in Actions <=> n + 1 \in Ends(list)
    BY ZenonT(30), <1>1 DEF Ends
  <1>4. r.t \in Matches => r.t \notin Actions
    BY DEF Matches, Actions
  <1> HIDE DEF r
  <1>5. C.super = FALSE
    <2>1. CASE A.result # ""
      BY Zenon, <2>1 DEF StepFacts, Together
    <2>2. CASE A.result = "" /\ r.t \in Matches
      BY Zenon, <2>2 DEF StepFacts, Together, r
    <2>3. CASE A.result = "" /\ r.t \in Actions /\ A.set
      <3>1. C = Act(A, r, a)
        BY Zenon, <2>3 DEF StepFacts, r
      <3>2. ActFacts(A, C, r, a)
        BY Zenon, <2>3, <3>1, ActDoes
      <3> QED  BY Zenon, <3>2 DEF ActFacts, Together
    <2>4. CASE A.result = "" /\ r.t \in Actions /\ ~A.set
      <3>1. C.super \in BOOLEAN /\ ~C.super
        BY Zenon, <2>4 DEF StepFacts, Together, Weaker, Shape, r
      <3> QED  BY Zenon, <3>1
    <2> QED  BY Zenon, <1>2, <2>1, <2>2, <2>3, <2>4
  <1>6. CASE B.result \in {"accept", "superAccept"}
    <2>1. D = B
      <3>1. B.result # ""
        BY Zenon, <1>6
      <3> QED  BY Zenon, <3>1 DEF StepFacts
    <2> QED  BY Zenon, <1>5, <1>6, <2>1 DEF Together
  <1>7. CASE B.result \notin {"accept", "superAccept"} /\ A.result # ""
    <2>1. C = A /\ D = B /\ A.result = B.result
      BY Zenon, <1>7 DEF StepFacts, Together
    <2> QED  BY Zenon, <1>5, <1>7, <2>1 DEF Together
  <1>8. CASE B.result \notin {"accept", "superAccept"} /\ A.result = ""
    <2>1. B.result = "" /\ (A.set => B.set) /\ (A.set # B.set => ToAccept(list, n + 1))
      BY Zenon, <1>8 DEF Together
    <2>2. CASE r.t \in Matches
      <3>1. C.result = "" /\ D.result = ""
        BY Zenon, <1>8, <2>1, <2>2 DEF StepFacts, r
      <3> DEFINE Ha == Holds(r, a, FALSE)
                 Hb == Holds(r, b, B.super)
      <3>2. /\ C.set <=> IF r.or THEN A.set \/ Ha ELSE A.set /\ Ha
            /\ D.set <=> IF r.or THEN B.set \/ Hb ELSE B.set /\ Hb
        BY Zenon, <1>8, <2>1, <2>2 DEF StepFacts, Together, r
      <3>3. B.super \in BOOLEAN /\ A.set \in BOOLEAN /\ B.set \in BOOLEAN
        BY Zenon DEF Shape
      <3>4. C.set \in BOOLEAN /\ D.set \in BOOLEAN
        BY Zenon DEF StepFacts, Shape
      <3>5. /\ RuleMatches(r, a, FALSE) => RuleMatches(r, b, B.super)
            /\ r.t \notin {"tags", "receiver"} =>
                  (RuleMatches(r, a, FALSE) <=> RuleMatches(r, b, B.super))
        BY Zenon, <1>1, <2>2, <3>3 DEF Weaker, r
      <3>6. ToAccept(list, n + 1) => ToAccept(list, (n + 1) + 1)
        <4>1. n + 1 \notin Ends(list)
          BY Zenon, <1>3, <1>4, <2>2
        <4>2. \A j \in Ends(list) : j >= n + 1 <=> j >= (n + 1) + 1
          BY <1>1, <4>1
        <4> QED  BY Zenon, <4>2 DEF ToAccept
      <3>t. RuleMatches(r, a, FALSE) \in BOOLEAN /\ RuleMatches(r, b, B.super) \in BOOLEAN
        <4>1. Truth(a.inbound) /\ Truth(b.inbound)
          BY Zenon DEF Weaker
        <4>2. Truth(B.super) /\ Truth(FALSE)
          BY Zenon, <3>3 DEF Truth
        <4>3. Truth(RuleMatches(r, a, FALSE)) /\ Truth(RuleMatches(r, b, B.super))
          BY Zenon, <2>2, <4>1, <4>2, MatchTruth
        <4> QED  BY Zenon, <4>3 DEF Truth
      <3>7. CASE r.t \notin {"tags", "receiver"}
        <4>1. Ha <=> Hb
          BY Zenon, <3>5, <3>7, <3>t, SameTruth DEF Holds
        <4> HIDE DEF Ha, Hb
        <4>2. (C.set => D.set) /\ (~(C.set <=> D.set) => ~(A.set <=> B.set))
          BY Zenon, <2>1, <3>2, <4>1
        <4>3. C.set # D.set => A.set # B.set
          BY Zenon, <3>3, <3>4, <4>2, SameTruth
        <4> QED  BY Zenon, <1>5, <2>1, <3>1, <3>6, <4>2, <4>3 DEF Together
      <3>8. CASE r.t \in {"tags", "receiver"}
        <4>1. PICK k \in Ends(list) : n + 1 \in SetOf(list, k) /\ list[k].t = "accept"
          BY ZenonT(30), <1>1, <3>8 DEF Permissive, r
        <4>2. k >= (n + 1) + 1 /\ \A j \in Ends(list) : j >= (n + 1) + 1 => j >= k
          BY <1>1, <4>1 DEF SetOf
        <4>3. ToAccept(list, (n + 1) + 1)
          BY Zenon, <4>1, <4>2 DEF ToAccept
        <4>4. r.neg = FALSE
          BY Zenon, <1>1, <1>2, <3>8 DEF Permissive, r
        <4>5. Ha => Hb
          BY Zenon, <3>5, <4>4, <3>t DEF Holds
        <4> HIDE DEF Ha, Hb
        <4>6. C.set => D.set
          BY Zenon, <2>1, <3>2, <4>5
        <4> QED  BY Zenon, <1>5, <3>1, <4>3, <4>6 DEF Together
      <3> QED  BY Zenon, <3>7, <3>8
    <2>3. CASE r.t \in Actions /\ A.set
      <3>1. B.set /\ C = Act(A, r, a) /\ D = Act(B, r, b)
        BY Zenon, <1>8, <2>1, <2>3 DEF StepFacts, r
      <3>2. ActFacts(A, C, r, a) /\ ActFacts(B, D, r, b)
        BY Zenon, <2>3, <3>1, ActDoes
      <3>3. ~Forwarding(r, a) /\ (Outside(r, a) <=> Outside(r, b))
        BY Zenon DEF Weaker, Forwarding, Outside
      <3>4. C.set = A.set /\ D.set = B.set /\ A.set \in BOOLEAN /\ B.set \in BOOLEAN
        BY Zenon, <3>2 DEF ActFacts, Shape
      <3>5. D.result \in {"accept", "superAccept"} \/ C.result = D.result
        BY Zenon, <1>8, <2>1, <2>3, <3>2, <3>3 DEF ActFacts, Actions, Forwards
      <3>6. C.set = D.set
        BY Zenon, <2>3, <3>1, <3>4, SameTruth
      <3> QED  BY Zenon, <1>5, <3>5, <3>6 DEF Together
    <2>4. CASE r.t \in Actions /\ ~A.set /\ B.set
      <3>1. r.t = "accept"
        <4>1. ToAccept(list, n + 1)
          BY Zenon, <2>1, <2>4
        <4>2. PICK k \in Ends(list) :
                 k >= n + 1 /\ list[k].t = "accept" /\ \A j \in Ends(list) : j >= n + 1 => j >= k
          BY ZenonT(30), <4>1 DEF ToAccept
        <4>3. k = n + 1
          BY <1>1, <1>3, <2>4, <4>2
        <4> QED  BY Zenon, <4>2, <4>3 DEF r
      <3>2. D = Act(B, r, b)
        BY Zenon, <2>1, <2>4 DEF StepFacts, r
      <3>3. ActFacts(B, D, r, b)
        BY Zenon, <2>4, <3>2, ActDoes
      <3>4. D.result \in {"accept", "superAccept"}
        BY Zenon, <3>1, <3>3 DEF ActFacts
      <3> QED  BY Zenon, <1>5, <3>4 DEF Together
    <2>5. CASE r.t \in Actions /\ ~A.set /\ ~B.set
      <3>1. C.result = "" /\ D.result = "" /\ C.set = TRUE /\ D.set = TRUE
        BY Zenon, <1>8, <2>1, <2>5 DEF StepFacts, r
      <3> QED  BY Zenon, <1>5, <3>1 DEF Together
    <2> QED  BY Zenon, <1>2, <2>2, <2>3, <2>4, <2>5
  <1> QED  BY ZenonT(30), <1>6, <1>7, <1>8

(* So a list says the same at both ends, or b accepts.                     *)
Accepts == {"accept", "superAccept"}

(* A list whose tags only help to accept says the same at the end that     *)
(* knows less, or accepts there.                                           *)
LEMMA TogetherEnds ==
    ASSUME NEW list, WellFormed(list), Permissive(list), NEW a, NEW b, Weaker(list, a, b)
    PROVE  \/ DoZtFilter(list, b).result \in Accepts
           \/ DoZtFilter(list, a).result = DoZtFilter(list, b).result
  <1> DEFINE V == Walk(list, a)
             W == Walk(list, b)
             n == Len(list)
             G == {i \in Nat : Together(list, i, V[i], W[i])}
  <1>1. /\ n \in Nat
        /\ V[0] = Start /\ \A i \in 0..n : Shape(V[i])
        /\ \A i \in 0..(n - 1) : StepFacts(V[i], V[i + 1], list[i + 1], a)
    BY Zenon, WalkSteps
  <1>2. /\ W[0] = Start /\ \A i \in 0..n : Shape(W[i])
        /\ \A i \in 0..(n - 1) : StepFacts(W[i], W[i + 1], list[i + 1], b)
    BY Zenon, WalkSteps
  <1> HIDE DEF V, W
  <1>3. 0 \in G
    <2>1. Start.super = FALSE
      BY DEF Start
    <2>2. Together(list, 0, V[0], W[0])
      BY Zenon, <1>1, <1>2, <2>1 DEF Together
    <2> QED  BY Zenon, <2>2, 0 \in Nat
  <1>4. ASSUME NEW i \in 0..(n - 1), i \in G PROVE i + 1 \in G
    <2>1. i \in 0..n /\ i + 1 \in Nat
      BY <1>1
    <2>2. Together(list, i + 1, V[i + 1], W[i + 1])
      BY Zenon, <1>1, <1>2, <1>4, <2>1, TogetherStep
    <2> QED  BY Zenon, <2>1, <2>2
  <1>5. Together(list, n, V[n], W[n])
    <2> HIDE DEF G
    <2>1. n \in 0..n
      BY <1>1
    <2>2. n \in G
      BY Zenon, <1>1, <1>3, <1>4, <2>1, Counting
    <2> QED  BY Zenon, <2>2 DEF G
  <1>6. /\ DoZtFilter(list, a).result = IF V[n].result = "" THEN "noMatch" ELSE V[n].result
        /\ DoZtFilter(list, b).result = IF W[n].result = "" THEN "noMatch" ELSE W[n].result
    BY Zenon, FilterFrom DEF V, W
  <1>7. W[n].result \in Accepts \/ V[n].result = W[n].result
    BY Zenon, <1>5 DEF Together, Accepts
  <1> QED  BY Zenon, <1>6, <1>7 DEF Accepts

(* What the base rules and the capability say together.                    *)
VerdictFacts(base, more, v) ==
    /\ base.result # "noMatch" => v = base
    /\ base.result = "noMatch" /\ more.result \in Accepting =>
          v.result = more.result /\ v.cc = more.cc \cup base.cc /\ v.dst = more.dst
    /\ base.result = "noMatch" /\ more.result \notin Accepting =>
          v.result = "drop" /\ v.cc = more.cc

(* These are what the base rules and the capability give together.         *)
LEMMA VerdictOf ==
    ASSUME NEW list, NEW cap, NEW e, WellFormed(list), WellFormed(cap)
    PROVE  VerdictFacts(DoZtFilter(list, e), DoZtFilter(cap, e), Verdict(list, cap, e))
  <1> DEFINE base == DoZtFilter(list, e)
             more == DoZtFilter(cap, e)
             v    == Verdict(list, cap, e)
  <1>1. v = IF base.result # "noMatch" THEN base
            ELSE IF more.result \in Accepting THEN [more EXCEPT !.cc = @ \cup base.cc]
            ELSE [more EXCEPT !.result = "drop"]
    BY Zenon DEF Verdict, Result
  <1>2. Shape(more)
    BY Zenon, FilterFrom
  <1> HIDE DEF base, more, v
  <1>3. ASSUME NEW x, NEW u, u = [more EXCEPT !.cc = x]
        PROVE  u.result = more.result /\ u.cc = x /\ u.dst = more.dst
    BY Zenon, <1>2, <1>3 DEF Shape
  <1>4. ASSUME NEW u, u = [more EXCEPT !.result = "drop"]
        PROVE  u.result = "drop" /\ u.cc = more.cc
    BY Zenon, <1>2, <1>4 DEF Shape
  <1>5. CASE base.result # "noMatch"
    BY Zenon, <1>1, <1>5 DEF base, more, v, VerdictFacts
  <1>6. CASE base.result = "noMatch" /\ more.result \in Accepting
    <2>1. v = [more EXCEPT !.cc = more.cc \cup base.cc]
      BY Zenon, <1>1, <1>6
    <2>2. v.result = more.result /\ v.cc = more.cc \cup base.cc /\ v.dst = more.dst
      BY Zenon, <1>3, <2>1
    <2> QED  BY Zenon, <1>6, <2>2 DEF base, more, v, VerdictFacts
  <1>7. CASE base.result = "noMatch" /\ more.result \notin Accepting
    <2>1. v = [more EXCEPT !.result = "drop"]
      BY Zenon, <1>1, <1>7
    <2>2. v.result = "drop" /\ v.cc = more.cc
      BY Zenon, <1>4, <2>1
    <2> QED  BY Zenon, <1>7, <2>2 DEF base, more, v, VerdictFacts
  <1> QED  BY Zenon, <1>5, <1>6, <1>7

(* What holds of each list holds of the rules and the capability together. *)
LEMMA VerdictFollows ==
    ASSUME NEW list, NEW cap, WellFormed(list), WellFormed(cap), Permissive(list), Permissive(cap),
           NEW a, NEW b, Weaker(list, a, b), Weaker(cap, a, b)
    PROVE  \/ Verdict(list, cap, b).result \in Accepts
           \/ Verdict(list, cap, a).result = Verdict(list, cap, b).result
  <1>1. \/ DoZtFilter(list, b).result \in Accepts
        \/ DoZtFilter(list, a).result = DoZtFilter(list, b).result
    BY Zenon, TogetherEnds
  <1>2. \/ DoZtFilter(cap, b).result \in Accepts
        \/ DoZtFilter(cap, a).result = DoZtFilter(cap, b).result
    BY Zenon, TogetherEnds
  <1>3. \A e : VerdictFacts(DoZtFilter(list, e), DoZtFilter(cap, e), Verdict(list, cap, e))
    BY Zenon, VerdictOf
  <1> DEFINE v(e) == Verdict(list, cap, e).result
             base(e) == DoZtFilter(list, e).result
             more(e) == DoZtFilter(cap, e).result
  <1>4. /\ v(a) = IF base(a) # "noMatch" THEN base(a)
                  ELSE IF more(a) \in Accepting THEN more(a) ELSE "drop"
        /\ v(b) = IF base(b) # "noMatch" THEN base(b)
                  ELSE IF more(b) \in Accepting THEN more(b) ELSE "drop"
    BY Zenon, <1>3 DEF VerdictFacts
  <1> HIDE DEF v
  <1>5. v(b) \in Accepts \/ v(a) = v(b)
    BY <1>1, <1>2, <1>4 DEF Accepts, Accepting
  <1> QED  BY Zenon, <1>5 DEF v

TagOK == tagOfD \in {"same", "other"}

(* D sees what S saw that knew its tag; S that does not know it yet lets   *)
(* pass what it would let pass.                                            *)
LEMMA EndsWeaker ==
    ASSUME NEW list, TagOK
    PROVE  /\ Avoids(list, {"inbound"}) => Weaker(list, Outbound(TRUE), Inbound("D", "S"))
           /\ Weaker(list, Outbound(TRUE), Outbound(FALSE))
  <1> DEFINE a == Outbound(TRUE)
             b == Inbound("D", "S")
             c == Outbound(FALSE)
  <1>1. /\ a.me = "S" /\ a.inbound = FALSE /\ a.src = "S" /\ a.dst = "D"
        /\ a.own = "same" /\ a.other = tagOfD
    BY DEF Outbound, TagOf, TagOK
  <1>2. /\ b.me = "D" /\ b.inbound = TRUE /\ b.src = "S" /\ b.dst = "D"
        /\ b.own = tagOfD /\ b.other = "same"
    BY DEF Inbound, TagOf, TagOK
  <1>3. /\ c.me = "S" /\ c.inbound = FALSE /\ c.src = "S" /\ c.dst = "D"
        /\ c.own = "same" /\ c.other = "none"
    BY DEF Outbound, TagOf, TagOK
  <1> HIDE DEF a, b, c
  <1>4. Truth(a.inbound) /\ Truth(b.inbound) /\ Truth(c.inbound) /\ ~a.inbound
    BY Zenon, <1>1, <1>2, <1>3 DEF Truth
  <1>5. ASSUME NEW r, r.t \in Matches, NEW s \in BOOLEAN
        PROVE  /\ RuleMatches(r, a, FALSE) => RuleMatches(r, c, s)
               /\ r.t \notin {"tags", "receiver"} => (RuleMatches(r, a, FALSE) <=> RuleMatches(r, c, s))
               /\ r.t # "inbound" =>
                    /\ RuleMatches(r, a, FALSE) => RuleMatches(r, b, s)
                    /\ r.t \notin {"tags", "receiver"} =>
                         (RuleMatches(r, a, FALSE) <=> RuleMatches(r, b, s))
    <2>1. CASE r.t = "field"
      BY <1>1, <1>2, <1>3, <2>1 DEF RuleMatches
    <2>2. CASE r.t = "dest"
      BY <1>1, <1>2, <1>3, <2>2 DEF RuleMatches
    <2>3. CASE r.t = "inbound"
      BY <1>1, <1>2, <1>3, <2>3 DEF RuleMatches
    <2>4. CASE r.t = "tags"
      BY <1>1, <1>2, <1>3, <2>4 DEF RuleMatches, TagOK
    <2>5. CASE r.t = "receiver"
      BY <1>1, <1>2, <1>3, <2>5 DEF RuleMatches, TagOK
    <2>6. CASE r.t = "source"
      BY <1>1, <1>2, <1>3, <2>6 DEF RuleMatches
    <2>7. CASE r.t = "sender"
      BY <1>1, <1>2, <1>3, <2>7 DEF RuleMatches
    <2> QED  BY Zenon, <1>5, <2>1, <2>2, <2>3, <2>4, <2>5, <2>6, <2>7 DEF Matches
  <1>6. /\ \A z : z \in {a.src, a.me, a.dst} <=> z \in {b.src, b.me, b.dst}
        /\ \A z : z \in {a.src, a.me, a.dst} <=> z \in {c.src, c.me, c.dst}
    BY Zenon, <1>1, <1>2, <1>3
  <1>7. Weaker(list, a, c)
    BY Zenon, <1>4, <1>5, <1>6 DEF Weaker
  <1>8. ASSUME Avoids(list, {"inbound"}) PROVE Weaker(list, a, b)
    <2>1. \A i \in DOMAIN list : list[i].t # "inbound"
      BY Zenon, <1>8 DEF Avoids
    <2> QED  BY Zenon, <1>4, <1>5, <1>6, <2>1 DEF Weaker
  <1> QED  BY Zenon, <1>7, <1>8 DEF a, b, c

-----------------------------------------------------------------------------
(* The way to the target x of a TEE or REDIRECT, from an end a: at x the   *)
(* walk has been decided by that entry or by an earlier REDIRECT, or it    *)
(* has not reached it.                                                     *)
Taking == {"superAccept", "redirect"}

Ahead(x, A, B) ==
    \/ B.result \in Taking
    \/ /\ x \notin A.cc /\ ~(A.result = "redirect" /\ A.dst = x)
       /\ A.result = "" => B.result = "" /\ B.set = A.set

Target(a, b, x) == b.inbound /\ b.me = x /\ b.src = a.me /\ b.dst = x

(* A MATCH that comes out the same at both ends.                           *)
Alike(r, a, b) ==
    r.t \in Matches => \A s, z \in BOOLEAN : Holds(r, a, s) <=> Holds(r, b, z)

AllAlike(list, a, b) == \A i \in DOMAIN list : Alike(list[i], a, b)

(* One more entry is walked at the node a frame was forwarded to: it stays *)
(* as far ahead of the node that forwarded it.                             *)
LEMMA AheadStep ==
    ASSUME NEW r, Entry(r),
           NEW a, NEW b, NEW x, Target(a, b, x), Alike(r, a, b),
           NEW A, NEW B, NEW C, NEW D, Shape(A), Shape(B),
           StepFacts(A, C, r, a), StepFacts(B, D, r, b), Ahead(x, A, B)
    PROVE  Ahead(x, C, D)
  <1>1. CASE B.result \in Taking
    <2>1. B.result # ""
      BY Zenon, <1>1 DEF Taking
    <2>2. D = B
      BY Zenon, <2>1 DEF StepFacts
    <2> QED  BY Zenon, <1>1, <2>2 DEF Ahead
  <1>2. CASE B.result \notin Taking /\ A.result # ""
    <2>1. C = A
      BY Zenon, <1>2 DEF StepFacts
    <2> QED  BY Zenon, <1>2, <2>1 DEF Ahead
  <1>3. CASE B.result \notin Taking /\ A.result = ""
    <2>1. B.result = "" /\ B.set = A.set /\ x \notin A.cc
      BY Zenon, <1>3 DEF Ahead
    <2>2. CASE r.t \in Matches
      <3>1. Holds(r, a, A.super) <=> Holds(r, b, B.super)
        BY Zenon, <2>2 DEF Alike, Shape
      <3>2. /\ C.result = "" /\ C.cc = A.cc
            /\ C.set <=> IF r.or THEN A.set \/ Holds(r, a, A.super) ELSE A.set /\ Holds(r, a, A.super)
        BY Zenon, <1>3, <2>2 DEF StepFacts
      <3>3. /\ D.result = ""
            /\ D.set <=> IF r.or THEN B.set \/ Holds(r, b, B.super) ELSE B.set /\ Holds(r, b, B.super)
        BY Zenon, <2>1, <2>2 DEF StepFacts
      <3>4. C.set \in BOOLEAN /\ D.set \in BOOLEAN /\ (C.set <=> D.set)
        BY Zenon, <2>1, <3>1, <3>2, <3>3 DEF StepFacts, Shape
      <3>5. C.set = D.set
        BY Zenon, <3>4, SameTruth
      <3>6. C.result # "redirect"
        BY Zenon, <3>2
      <3> QED  BY Zenon, <2>1, <3>2, <3>3, <3>5, <3>6 DEF Ahead
    <2>3. CASE r.t \in Actions /\ ~A.set
      <3>1. C.result = "" /\ D.result = "" /\ C.set = TRUE /\ D.set = TRUE /\ C.cc = A.cc
        BY Zenon, <1>3, <2>1, <2>3 DEF StepFacts
      <3>2. C.result # "redirect"
        BY Zenon, <3>1
      <3> QED  BY Zenon, <2>1, <3>1, <3>2 DEF Ahead
    <2>4. CASE r.t \in Actions /\ A.set
      <3>1. C = Act(A, r, a) /\ D = Act(B, r, b)
        BY Zenon, <1>3, <2>1, <2>4 DEF StepFacts
      <3>2. ActFacts(A, C, r, a) /\ ActFacts(B, D, r, b)
        BY Zenon, <2>4, <3>1, ActDoes
      <3>3. D.set = C.set
        BY Zenon, <2>1, <3>2 DEF ActFacts
      <3>4. CASE r.t \in {"drop", "break", "accept"}
        <4>1. C.result \notin {"", "redirect"} /\ C.cc = A.cc
          BY Zenon, <3>2, <3>4 DEF ActFacts
        <4> QED  BY Zenon, <2>1, <4>1 DEF Ahead
      <3>5. CASE r.t = "unknown"
        <4>1. C = A /\ D = B
          BY Zenon, <3>2, <3>5 DEF ActFacts
        <4> QED  BY Zenon, <4>1
      <3>6. CASE r.t \in Forwards /\ r.to = x /\ x # a.me
        <4>1. Forwarding(r, b)
          BY Zenon, <3>6 DEF Forwarding, Target
        <4>2. D.result = "superAccept"
          BY Zenon, <3>2, <4>1 DEF ActFacts
        <4> QED  BY Zenon, <4>2 DEF Ahead, Taking
      <3>7. CASE r.t \in Forwards /\ (r.to # x \/ x = a.me) /\ Forwarding(r, a)
        <4>1. C.result = "superAccept" /\ C.cc = A.cc
          BY Zenon, <3>2, <3>7 DEF ActFacts
        <4>2. C.result \notin {"", "redirect"}
          BY <4>1
        <4> QED  BY Zenon, <2>1, <4>1, <4>2 DEF Ahead
      <3>8. CASE r.t \in Forwards /\ (r.to # x \/ x = a.me) /\ ~Forwarding(r, a)
        <4>1. ~Forwarding(r, b)
          BY Zenon, <3>8 DEF Forwarding, Target
        <4>2. Outside(r, a) => r.to # x
          BY Zenon, <3>8 DEF Outside
        <4>3. CASE r.t = "tee"
          <5>1. C.result = "" /\ D.result = ""
            BY Zenon, <1>3, <2>1, <3>2, <3>8, <4>1, <4>3 DEF ActFacts
          <5>2. x \notin C.cc
            BY Zenon, <2>1, <3>2, <3>8, <4>2, <4>3 DEF ActFacts
          <5>3. C.result # "redirect"
            BY Zenon, <5>1
          <5> QED  BY Zenon, <3>3, <5>1, <5>2, <5>3 DEF Ahead
        <4>4. CASE r.t = "redirect" /\ Outside(r, a)
          <5>1. C.result = "redirect" /\ C.dst # x /\ C.cc = A.cc
            BY ZenonT(30), <3>2, <4>2, <4>4 DEF ActFacts
          <5>2. C.result # ""
            BY <5>1
          <5> QED  BY Zenon, <2>1, <5>1, <5>2 DEF Ahead
        <4>5. CASE r.t = "redirect" /\ ~Outside(r, a)
          <5>1. C = A
            BY Zenon, <3>2, <3>8, <4>5 DEF ActFacts
          <5>2. CASE Outside(r, b)
            <6>1. D.result = "redirect"
              BY Zenon, <3>2, <4>5, <5>2 DEF ActFacts
            <6> QED  BY Zenon, <6>1 DEF Ahead, Taking
          <5>3. CASE ~Outside(r, b)
            <6>1. D = B
              BY Zenon, <3>2, <3>8, <4>1, <5>3 DEF ActFacts
            <6> QED  BY Zenon, <5>1, <6>1
          <5> QED  BY Zenon, <5>2, <5>3
        <4> QED  BY Zenon, <3>8, <4>3, <4>4, <4>5 DEF Forwards
      <3> QED  BY Zenon, <2>4, <3>4, <3>5, <3>6, <3>7, <3>8 DEF Actions, Forwards
    <2> QED  BY Zenon, <2>2, <2>3, <2>4 DEF Entry
  <1> QED  BY Zenon, <1>1, <1>2, <1>3

(* So the target of a copy takes it or hands it on.                        *)
LEMMA CopyTaken ==
    ASSUME NEW list, WellFormed(list), NEW a, NEW b, AllAlike(list, a, b),
           NEW x, Target(a, b, x),
           \/ x \in DoZtFilter(list, a).cc
           \/ DoZtFilter(list, a).result = "redirect" /\ DoZtFilter(list, a).dst = x
    PROVE  DoZtFilter(list, b).result \in Taking
  <1> DEFINE V == Walk(list, a)
             W == Walk(list, b)
             n == Len(list)
             G == {i \in Nat : Ahead(x, V[i], W[i])}
  <1>1. /\ n \in Nat
        /\ V[0] = Start /\ \A i \in 0..n : Shape(V[i])
        /\ \A i \in 0..(n - 1) :
              i + 1 \in DOMAIN list /\ StepFacts(V[i], V[i + 1], list[i + 1], a)
    BY Zenon, WalkSteps
  <1>2. /\ W[0] = Start /\ \A i \in 0..n : Shape(W[i])
        /\ \A i \in 0..(n - 1) : StepFacts(W[i], W[i + 1], list[i + 1], b)
    BY Zenon, WalkSteps
  <1> HIDE DEF V, W
  <1>3. 0 \in G
    <2>1. Start.result # "redirect" /\ Start.cc = {}
      BY DEF Start
    <2>2. Ahead(x, V[0], W[0])
      BY Zenon, <1>1, <1>2, <2>1 DEF Ahead
    <2> QED  BY Zenon, <2>2, 0 \in Nat
  <1>4. ASSUME NEW i \in 0..(n - 1), i \in G PROVE i + 1 \in G
    <2>1. i \in 0..n /\ i + 1 \in Nat
      BY <1>1
    <2>2. Entry(list[i + 1]) /\ Alike(list[i + 1], a, b)
      BY Zenon, <1>1 DEF WellFormed, Entry, AllAlike
    <2>3. Ahead(x, V[i + 1], W[i + 1])
      <3>1. /\ Shape(V[i]) /\ Shape(W[i]) /\ Ahead(x, V[i], W[i])
            /\ StepFacts(V[i], V[i + 1], list[i + 1], a) /\ StepFacts(W[i], W[i + 1], list[i + 1], b)
        BY Zenon, <1>1, <1>2, <1>4, <2>1
      <3> QED  BY Zenon, <2>2, <3>1, AheadStep
    <2> QED  BY ZenonT(30), <2>1, <2>3
  <1>5. Ahead(x, V[n], W[n])
    <2> HIDE DEF G
    <2>1. n \in 0..n
      BY <1>1
    <2>2. n \in G
      BY Zenon, <1>1, <1>3, <1>4, <2>1, Counting
    <2> QED  BY Zenon, <2>2 DEF G
  <1>6. /\ DoZtFilter(list, a).result = IF V[n].result = "" THEN "noMatch" ELSE V[n].result
        /\ DoZtFilter(list, a).cc = V[n].cc /\ DoZtFilter(list, a).dst = V[n].dst
        /\ DoZtFilter(list, b).result = IF W[n].result = "" THEN "noMatch" ELSE W[n].result
    BY Zenon, FilterFrom DEF V, W
  <1>7. W[n].result \in Taking
    <2>1. x \in V[n].cc \/ (V[n].result = "redirect" /\ V[n].dst = x)
      BY Zenon, <1>6
    <2> QED  BY Zenon, <1>5, <2>1 DEF Ahead
  <1> QED  BY Zenon, <1>6, <1>7 DEF Taking

(* A list without TEE and REDIRECT makes no copies.                        *)
LEMMA NoCopies ==
    ASSUME NEW list, NEW e, WellFormed(list), Avoids(list, Forwards)
    PROVE  DoZtFilter(list, e).cc = {} /\ DoZtFilter(list, e).result # "redirect"
  <1> DEFINE W == Walk(list, e)
             n == Len(list)
             G == {i \in Nat : W[i].cc = {} /\ W[i].result # "redirect"}
  <1>1. /\ n \in Nat /\ W[0] = Start /\ \A i \in 0..n : Shape(W[i])
        /\ \A i \in 0..(n - 1) :
              i + 1 \in DOMAIN list /\ StepFacts(W[i], W[i + 1], list[i + 1], e)
    BY Zenon, WalkSteps
  <1> HIDE DEF W
  <1>2. 0 \in G
    <2>1. Start.result # "redirect" /\ Start.cc = {}
      BY DEF Start
    <2> QED  BY Zenon, <1>1, <2>1, 0 \in Nat
  <1>3. ASSUME NEW i \in 0..(n - 1), i \in G PROVE i + 1 \in G
    <2> DEFINE st == W[i]
               t  == W[i + 1]
               r  == list[i + 1]
    <2>1. i + 1 \in Nat /\ i \in 0..n
      BY <1>1
    <2>2. /\ Shape(st) /\ StepFacts(st, t, r, e) /\ r.t \in Matches \cup Actions /\ r.t \notin Forwards
          /\ st.cc = {} /\ st.result # "redirect"
      BY Zenon, <1>1, <1>3, <2>1 DEF WellFormed, Avoids
    <2> HIDE DEF st, t, r
    <2>3. "" # "redirect"
      OBVIOUS
    <2>4. CASE st.result # ""
      BY Zenon, <2>1, <2>2, <2>4 DEF StepFacts, t
    <2>5. CASE st.result = "" /\ (r.t \in Matches \/ ~st.set)
      BY Zenon, <2>1, <2>2, <2>3, <2>5 DEF StepFacts, t
    <2>6. CASE st.result = "" /\ r.t \in Actions /\ st.set
      <3>1. t = Act(st, r, e)
        BY Zenon, <2>2, <2>6 DEF StepFacts
      <3>2. ActFacts(st, t, r, e)
        BY Zenon, <2>2, <2>6, <3>1, ActDoes
      <3>3. t.cc = {} /\ t.result # "redirect"
        BY Zenon, <2>2, <2>6, <3>2 DEF ActFacts, Actions, Forwards
      <3> QED  BY Zenon, <2>1, <3>3 DEF t
    <2> QED  BY Zenon, <2>2, <2>4, <2>5, <2>6
  <1>4. W[n].cc = {} /\ W[n].result # "redirect"
    <2> HIDE DEF G
    <2>1. n \in 0..n
      BY <1>1
    <2>2. n \in G
      BY Zenon, <1>1, <1>2, <1>3, <2>1, Counting
    <2> QED  BY Zenon, <2>2 DEF G
  <1>5. /\ DoZtFilter(list, e).cc = W[n].cc
        /\ DoZtFilter(list, e).result = IF W[n].result = "" THEN "noMatch" ELSE W[n].result
    BY Zenon, FilterFrom DEF W
  <1> QED  BY Zenon, <1>4, <1>5

(* A copy that the end a makes is taken, or handed on, by its target: the  *)
(* capability, which the target may not know, has nothing to do with it.   *)
LEMMA CopyOK ==
    ASSUME NEW list, NEW cap, WellFormed(list), WellFormed(cap), NEW a, NEW b,
           AllAlike(list, a, b), Avoids(cap, Forwards), NEW x, Target(a, b, x),
           \/ x \in Verdict(list, cap, a).cc
           \/ Verdict(list, cap, a).result = "redirect" /\ Verdict(list, cap, a).dst = x
    PROVE  DoZtFilter(list, b).result \in Taking
  <1> DEFINE base == DoZtFilter(list, a)
             more == DoZtFilter(cap, a)
             v    == Verdict(list, cap, a)
  <1>1. VerdictFacts(base, more, v)
    BY Zenon, VerdictOf
  <1>2. more.cc = {} /\ more.result # "redirect"
    BY Zenon, NoCopies
  <1>3. x \in v.cc \/ (v.result = "redirect" /\ v.dst = x)
    BY Zenon
  <1> HIDE DEF base, more, v
  <1>4. x \in base.cc \/ (base.result = "redirect" /\ base.dst = x)
    <2>1. CASE base.result # "noMatch"
      BY Zenon, <1>1, <1>3, <2>1 DEF VerdictFacts
    <2>2. CASE base.result = "noMatch" /\ more.result \in Accepting
      BY Zenon, <1>1, <1>2, <1>3, <2>2 DEF VerdictFacts
    <2>3. CASE base.result = "noMatch" /\ more.result \notin Accepting
      <3>1. v.result = "drop" /\ v.cc = {}
        BY ZenonT(30), <1>1, <1>2, <2>3 DEF VerdictFacts
      <3>2. "drop" # "redirect"
        OBVIOUS
      <3> QED  BY Zenon, <1>3, <3>1, <3>2
    <2> QED  BY Zenon, <2>1, <2>2, <2>3
  <1> QED  BY Zenon, <1>4, CopyTaken DEF base

-----------------------------------------------------------------------------
(* The frames on their way: the one from S to D was accepted by S; a copy  *)
(* will be taken, where rules and capability are as EndsAgree has them.    *)
Simple(from) == Avoids(rules, Changing(from)) /\ Avoids(Capability, Forwards)

FlyingOK(f) ==
    IF f.flag = "frame"
    THEN /\ f.from = "S" /\ f.to = "D"
         /\ Verdict(rules, Capability, Outbound(tagKnown)).result \in Accepts
    ELSE Simple(f.from) => DoZtFilter(rules, Inbound(f.to, f.from)).result \in Taking

TakenOK(x) ==
    \/ x.outcome \in {"delivered", "redirected", "own"}
    \/ x.flag = "frame" /\ ~(Undirected /\ tagKnown)
    \/ x.flag # "frame" /\ ~Simple(x.from)

RulesInv ==
    /\ WellFormed(rules) /\ TagOK /\ tagKnown \in BOOLEAN
    /\ \A f \in flying : FlyingOK(f)
    /\ \A x \in taken : TakenOK(x)
    /\ stage = "blocked" =>
          Verdict(rules, Capability, Outbound(tagKnown)).result \notin Accepting

(* The invariant holds before the frame is sent.                           *)
LEMMA RulesInitially == ASSUME ListsOK PROVE RulesInit => RulesInv
  <1> SUFFICES ASSUME RulesInit PROVE RulesInv
    OBVIOUS
  <1>1. WellFormed(rules)
    BY Zenon DEF RulesInit, ListsOK
  <1>2. stage # "blocked"
    BY DEF RulesInit
  <1> QED  BY Zenon, <1>1, <1>2 DEF RulesInit, RulesInv, TagOK

(* What is said of frames and of what was made of them depends on the      *)
(* rules and tags alone.                                                   *)
LEMMA SameEnds ==
    ASSUME UNCHANGED <<rules, tagOfD, tagKnown>>
    PROVE  /\ \A f : FlyingOK(f) => FlyingOK(f)'
           /\ \A x : TakenOK(x) => TakenOK(x)'
           /\ Outbound(tagKnown)' = Outbound(tagKnown)
  <1>1. \A me, from : Inbound(me, from)' = Inbound(me, from)
    BY Zenon DEF Inbound, TagOf
  <1>2. Outbound(tagKnown)' = Outbound(tagKnown)
    BY Zenon DEF Outbound, TagOf
  <1>3. rules' = rules /\ tagKnown' = tagKnown
    OBVIOUS
  <1>4. (\A from : Simple(from)' <=> Simple(from)) /\ (Undirected' <=> Undirected)
    BY Zenon, <1>3 DEF Simple, Undirected
  <1>5. ASSUME NEW f, FlyingOK(f) PROVE FlyingOK(f)'
    <2>1. CASE f.flag = "frame"
      BY Zenon, <1>2, <1>3, <1>5, <2>1 DEF FlyingOK
    <2>2. CASE f.flag # "frame"
      BY Zenon, <1>1, <1>3, <1>4, <1>5, <2>2 DEF FlyingOK
    <2> QED  BY Zenon, <2>1, <2>2
  <1>6. ASSUME NEW x, TakenOK(x) PROVE TakenOK(x)'
    <2>1. Undirected' /\ tagKnown' <=> Undirected /\ tagKnown
      BY <1>3, <1>4
    <2> QED  BY Zenon, <1>4, <1>6, <2>1 DEF TakenOK
  <1> QED  BY Zenon, <1>2, <1>5, <1>6

(* An end that makes copies: S as the sender, any other as it likes.       *)
Copying(a) == a.me = "S" => a = Outbound(tagKnown)

(* What does not change on the way of a copy comes out the same at the     *)
(* target: fields, and for S's own copies the source and the sender's tag. *)
LEMMA CopyAlike ==
    ASSUME NEW list, NEW a, NEW x, Copying(a), Avoids(list, Changing(a.me))
    PROVE  AllAlike(list, a, Inbound(x, a.me))
  <1> DEFINE b == Inbound(x, a.me)
  <1>1. ASSUME NEW r, r.t \in Matches, r.t \notin Changing(a.me), NEW s, NEW e, e = a \/ e = b
        PROVE  RuleMatches(r, e, s) = TRUE
    <2>1. CASE r.t = "field"
      BY Zenon, <2>1 DEF RuleMatches
    <2>2. CASE r.t \in {"source", "sender"}
      <3>1. a.me = "S"
        BY Zenon, <1>1, <2>2 DEF Changing
      <3>2. a.src = "S" /\ a.inbound = FALSE /\ a.own = "same"
        BY <3>1 DEF Copying, Outbound, TagOf
      <3>3. b.src = "S" /\ b.inbound = TRUE /\ b.other = "same"
        BY <3>1 DEF Inbound, TagOf
      <3> HIDE DEF b
      <3>4. CASE r.t = "source"
        BY Zenon, <1>1, <3>2, <3>3, <3>4 DEF RuleMatches
      <3>5. CASE r.t = "sender"
        <4>1. RuleMatches(r, e, s) = (s \/ (IF e.inbound THEN e.other ELSE e.own) = "same")
          BY Zenon, <3>5 DEF RuleMatches
        <4>2. (IF e.inbound THEN e.other ELSE e.own) = "same"
          BY Zenon, <1>1, <3>2, <3>3
        <4> QED  BY Zenon, <4>1, <4>2
      <3> QED  BY Zenon, <2>2, <3>4, <3>5
    <2>3. r.t \in {"field", "source", "sender"}
      BY Zenon, <1>1 DEF Matches, Changing
    <2> QED  BY Zenon, <2>1, <2>2, <2>3
  <1> HIDE DEF b
  <1>2. \A i \in DOMAIN list : Alike(list[i], a, b)
    BY Zenon, <1>1 DEF Alike, Holds, Avoids
  <1> QED  BY Zenon, <1>2 DEF AllAlike, b

(* The copies that a node makes of a frame will be taken.                  *)
LEMMA SentOnOK ==
    ASSUME NEW cap, WellFormed(rules), WellFormed(cap), cap = Capability \/ cap = <<>>,
           NEW a, Copying(a), NEW v, v = Verdict(rules, cap, a), NEW tee,
           NEW f \in SentOn(a.me, v, tee)
    PROVE  FlyingOK(f)
  <1>1. /\ f.from = a.me /\ f.flag # "frame"
        /\ f.to \in v.cc \/ (v.result = "redirect" /\ v.dst = f.to)
    <2>1. \/ \E x \in v.cc : f = [from |-> a.me, to |-> x, flag |-> "tee"]
          \/ v.result = "redirect" /\ f = [from |-> a.me, to |-> v.dst, flag |-> "redirect"]
      BY Zenon DEF SentOn, Copies
    <2>2. ASSUME NEW x \in v.cc, f = [from |-> a.me, to |-> x, flag |-> "tee"]
          PROVE  f.from = a.me /\ f.flag # "frame" /\ f.to \in v.cc
      BY <2>2
    <2>3. ASSUME v.result = "redirect", f = [from |-> a.me, to |-> v.dst, flag |-> "redirect"]
          PROVE  f.from = a.me /\ f.flag # "frame" /\ v.dst = f.to
      BY <2>3
    <2> QED  BY Zenon, <2>1, <2>2, <2>3
  <1>2. ASSUME Simple(f.from) PROVE DoZtFilter(rules, Inbound(f.to, f.from)).result \in Taking
    <2>1. Avoids(cap, Forwards)
      <3>1. Avoids(<<>>, Forwards)
        BY DEF Avoids
      <3> QED  BY Zenon, <1>2, <3>1 DEF Simple
    <2>2. Target(a, Inbound(f.to, f.from), f.to)
      BY Zenon, <1>1 DEF Target, Inbound
    <2>3. AllAlike(rules, a, Inbound(f.to, f.from))
      BY Zenon, <1>1, <1>2, CopyAlike DEF Simple
    <2> QED  BY Zenon, <1>1, <2>1, <2>2, <2>3, CopyOK
  <1> QED  BY Zenon, <1>1, <1>2 DEF FlyingOK

(* filterOutgoingPacket() keeps the invariant.                             *)
LEMMA OutgoingKeeps ==
    ASSUME ListsOK, RulesInv, NEW noTee \in BOOLEAN, FilterOutgoingPacket(noTee)
    PROVE  RulesInv'
  <1> DEFINE a == Outbound(tagKnown)
             v == Verdict(rules, Capability, a)
  <1>1. UNCHANGED <<rules, tagOfD, tagKnown>> /\ taken' = taken
    BY Zenon DEF FilterOutgoingPacket
  <1>2. WellFormed(rules) /\ WellFormed(Capability)
    BY Zenon DEF RulesInv, ListsOK
  <1>3. \A f \in flying' : FlyingOK(f)
    <2>1. \/ flying' = flying
          \/ /\ v.result \in Accepting
             /\ flying' = SentOn("S", v, ~noTee)
                   \cup (IF v.result = "redirect" THEN {} ELSE Copies("S", {"D"}, "frame"))
      BY Zenon DEF FilterOutgoingPacket
    <2>2. a.me = "S" /\ Copying(a)
      BY DEF Outbound, Copying
    <2>3. ASSUME NEW f \in SentOn("S", v, ~noTee) PROVE FlyingOK(f)
      <3> HIDE DEF a
      <3>1. f \in SentOn(a.me, v, ~noTee)
        BY Zenon, <2>2, <2>3
      <3> QED  BY Zenon, <1>2, <2>2, <3>1, SentOnOK
    <2>4. ASSUME v.result \in Accepting, v.result # "redirect", NEW f \in Copies("S", {"D"}, "frame")
          PROVE  FlyingOK(f)
      <3>1. f = [from |-> "S", to |-> "D", flag |-> "frame"]
        BY Zenon DEF Copies
      <3>2. f.from = "S" /\ f.to = "D" /\ f.flag = "frame"
        BY <3>1
      <3>3. v.result \in Accepts
        BY Zenon, <2>4 DEF Accepting, Accepts
      <3> QED  BY Zenon, <3>2, <3>3 DEF FlyingOK
    <2> HIDE DEF v
    <2> QED  BY Zenon, <2>1, <2>3, <2>4 DEF RulesInv
  <1>4. stage' = "blocked" => v.result \notin Accepting
    <2>1. "sent" # "blocked"
      OBVIOUS
    <2> QED  BY Zenon, <2>1 DEF FilterOutgoingPacket
  <1>5. /\ \A f \in flying' : FlyingOK(f)'
        /\ \A x \in taken' : TakenOK(x)'
        /\ a' = a
    BY Zenon, <1>1, <1>3, SameEnds DEF RulesInv
  <1>6. /\ WellFormed(rules') /\ TagOK' /\ tagKnown' \in BOOLEAN
        /\ rules' = rules
    BY Zenon, <1>1 DEF RulesInv, TagOK
  <1>7. stage' = "blocked" => Verdict(rules', Capability, a').result \notin Accepting
    BY Zenon, <1>4, <1>5, <1>6
  <1> QED  BY Zenon, <1>5, <1>6, <1>7 DEF RulesInv

(* filterIncomingPacket() keeps the invariant.                             *)
LEMMA IncomingKeeps ==
    ASSUME ListsOK, RulesInv, NEW g \in flying, FilterIncomingPacket(g)
    PROVE  RulesInv'
  <1> DEFINE cap == CapabilityOf(g.from)
             a == Inbound(g.to, g.from)
             v == Verdict(rules, cap, a)
             outcome ==
                IF g.to = "S" THEN "own" ELSE
                CASE v.result = "superAccept" -> "delivered"
                  [] v.result = "accept" ->
                        IF g.to = "D" /\ g.from = "S" THEN "delivered" ELSE "bridging not allowed"
                  [] v.result = "redirect" -> "redirected"
                  [] OTHER -> "dropped"
             took == [at |-> g.to, from |-> g.from, flag |-> g.flag, outcome |-> outcome]
  <1>1. /\ UNCHANGED <<rules, tagOfD, tagKnown>> /\ stage' = stage
        /\ flying' = (flying \ {g})
               \cup (IF g.to # "S" /\ v.result \in Accepting THEN SentOn(g.to, v, TRUE) ELSE {})
        /\ taken' = taken \cup {took}
    BY Zenon DEF FilterIncomingPacket
  <1>2. WellFormed(rules) /\ WellFormed(cap) /\ (cap = Capability \/ cap = <<>>)
    <2>1. WellFormed(<<>>)
      BY DEF WellFormed
    <2> QED  BY Zenon, <2>1 DEF RulesInv, ListsOK, CapabilityOf
  <1>3. a.me = g.to
    BY DEF Inbound
  <1>4. VerdictFacts(DoZtFilter(rules, a), DoZtFilter(cap, a), v)
    BY Zenon, <1>2, VerdictOf
  <1>5. FlyingOK(g)
    BY Zenon DEF RulesInv
  <1>6. \/ outcome \in {"delivered", "redirected", "own"}
        \/ g.flag = "frame" /\ ~(Undirected /\ tagKnown)
        \/ g.flag # "frame" /\ ~Simple(g.from)
    <2>1. CASE g.flag # "frame" /\ Simple(g.from)
      <3>1. DoZtFilter(rules, a).result \in Taking
        BY Zenon, <1>5, <2>1 DEF FlyingOK
      <3>2. DoZtFilter(rules, a).result # "noMatch"
        BY <3>1 DEF Taking
      <3>3. v.result \in Taking
        BY Zenon, <1>4, <3>1, <3>2 DEF VerdictFacts
      <3> HIDE DEF v
      <3> QED  BY <3>3 DEF Taking
    <2>2. CASE g.flag = "frame" /\ Undirected /\ tagKnown
      <3>1. /\ g.from = "S" /\ g.to = "D"
            /\ Verdict(rules, Capability, Outbound(tagKnown)).result \in Accepts
        BY Zenon, <1>5, <2>2 DEF FlyingOK
      <3>2. tagKnown = TRUE
        BY Zenon, <2>2 DEF RulesInv
      <3>3. cap = Capability /\ a = Inbound("D", "S")
        BY Zenon, <3>1 DEF CapabilityOf
      <3>4. Weaker(rules, Outbound(TRUE), a) /\ Weaker(Capability, Outbound(TRUE), a)
        BY Zenon, <2>2, <3>3, EndsWeaker DEF Undirected, RulesInv
      <3>5. \/ v.result \in Accepts
            \/ Verdict(rules, Capability, Outbound(TRUE)).result = v.result
        <4> HIDE DEF a
        <4> QED  BY Zenon, <1>2, <2>2, <3>3, <3>4, VerdictFollows DEF Undirected
      <3>6. v.result \in Accepts
        BY Zenon, <3>1, <3>2, <3>5
      <3> HIDE DEF v
      <3> QED  BY <3>1, <3>6 DEF Accepts
    <2> QED  BY Zenon, <2>1, <2>2
  <1> HIDE DEF outcome
  <1>7. took.from = g.from /\ took.flag = g.flag /\ took.outcome = outcome
    OBVIOUS
  <1>8. TakenOK(took)
    <2> HIDE DEF took
    <2> QED  BY Zenon, <1>6, <1>7 DEF TakenOK
  <1>9. \A f \in flying' : FlyingOK(f)
    <2>1. ASSUME g.to # "S", NEW f \in SentOn(g.to, v, TRUE) PROVE FlyingOK(f)
      <3> HIDE DEF a, cap
      <3>1. f \in SentOn(a.me, v, TRUE)
        BY Zenon, <1>3, <2>1
      <3>2. Copying(a)
        BY Zenon, <1>3, <2>1 DEF Copying
      <3> QED  BY Zenon, <1>2, <3>1, <3>2, SentOnOK
    <2> HIDE DEF v
    <2> QED  BY Zenon, <1>1, <2>1 DEF RulesInv
  <1>10. \A x \in taken' : TakenOK(x)
    <2> HIDE DEF took
    <2> QED  BY Zenon, <1>1, <1>8 DEF RulesInv
  <1>11. /\ \A f \in flying' : FlyingOK(f)'
         /\ \A x \in taken' : TakenOK(x)'
         /\ Outbound(tagKnown)' = Outbound(tagKnown)
    BY Zenon, <1>1, <1>9, <1>10, SameEnds
  <1>12. /\ WellFormed(rules') /\ TagOK' /\ tagKnown' \in BOOLEAN
         /\ rules' = rules /\ stage' = stage
    BY Zenon, <1>1 DEF RulesInv, TagOK
  <1>13. stage' = "blocked" => Verdict(rules', Capability, Outbound(tagKnown)').result \notin Accepting
    BY Zenon, <1>11, <1>12 DEF RulesInv
  <1> QED  BY Zenon, <1>11, <1>12, <1>13 DEF RulesInv

(* So does every step.                                                     *)
LEMMA RulesKeep == ASSUME ListsOK PROVE RulesInv /\ [RulesNext]_rvars => RulesInv'
  <1> SUFFICES ASSUME RulesInv, [RulesNext]_rvars PROVE RulesInv'
    OBVIOUS
  <1>1. ASSUME NEW noTee \in BOOLEAN, FilterOutgoingPacket(noTee) PROVE RulesInv'
    BY Zenon, <1>1, OutgoingKeeps
  <1>2. ASSUME NEW g \in flying, FilterIncomingPacket(g) PROVE RulesInv'
    BY Zenon, <1>2, IncomingKeeps
  <1>3. CASE UNCHANGED rvars
    <2>1. /\ UNCHANGED <<rules, tagOfD, tagKnown>> /\ flying' = flying /\ taken' = taken
          /\ stage' = stage /\ rules' = rules
      BY Zenon, <1>3 DEF rvars
    <2>2. /\ \A f \in flying' : FlyingOK(f)'
          /\ \A x \in taken' : TakenOK(x)'
          /\ Outbound(tagKnown)' = Outbound(tagKnown)
      BY Zenon, <2>1, SameEnds DEF RulesInv
    <2>3. WellFormed(rules') /\ TagOK' /\ tagKnown' \in BOOLEAN
      BY Zenon, <2>1 DEF RulesInv, TagOK
    <2>4. stage' = "blocked" => Verdict(rules', Capability, Outbound(tagKnown)').result \notin Accepting
      BY Zenon, <2>1, <2>2 DEF RulesInv
    <2> QED  BY Zenon, <2>2, <2>3, <2>4 DEF RulesInv
  <1> QED  BY Zenon, <1>1, <1>2, <1>3 DEF RulesNext, RulesDone

(* The invariant implies that the ends agree.                              *)
LEMMA RulesAgree == ASSUME ListsOK, RulesInv PROVE EndsAgree
  <1>1. ASSUME stage = "blocked", Permissive(rules), Permissive(Capability)
        PROVE  Verdict(rules, Capability, Outbound(TRUE)).result \notin Accepting
    <2>1. Verdict(rules, Capability, Outbound(tagKnown)).result \notin Accepting
      BY Zenon, <1>1 DEF RulesInv
    <2>2. CASE tagKnown = TRUE
      BY Zenon, <2>1, <2>2
    <2>3. CASE tagKnown = FALSE
      <3>1. /\ Weaker(rules, Outbound(TRUE), Outbound(FALSE))
            /\ Weaker(Capability, Outbound(TRUE), Outbound(FALSE))
        BY Zenon, EndsWeaker DEF RulesInv
      <3>2. WellFormed(rules) /\ WellFormed(Capability)
        BY Zenon DEF RulesInv, ListsOK
      <3>3. \/ Verdict(rules, Capability, Outbound(FALSE)).result \in Accepts
            \/ Verdict(rules, Capability, Outbound(TRUE)).result
                  = Verdict(rules, Capability, Outbound(FALSE)).result
        BY Zenon, <1>1, <3>1, <3>2, VerdictFollows
      <3>4. Verdict(rules, Capability, Outbound(FALSE)).result \notin Accepting
        BY Zenon, <2>1, <2>3
      <3> QED  BY Zenon, <3>3, <3>4 DEF Accepts, Accepting
    <2> QED  BY Zenon, <2>2, <2>3 DEF RulesInv
  <1> QED  BY Zenon, <1>1 DEF EndsAgree, RulesInv, TakenOK, Simple

(* _doZtFilter() gives what the sets of matches of a list say, whatever    *)
(* the list, its length and the order of its entries: thisSetMatches with  *)
(* its shortcut past ANDs, and superAccept, mean what they should.         *)
THEOREM FilterAlwaysMeans == ASSUME ListsOK PROVE RulesSpec => []FilterMeaning
  <1>1. RulesInv => FilterMeaning
    BY Zenon, FilterMeans DEF RulesInv, FilterMeaning
  <1> QED  BY <1>1, RulesInitially, RulesKeep, PTL DEF RulesSpec

(* filterIncomingPacket() takes what filterOutgoingPacket() let out, for   *)
(* any rules, any capability of S, and any targets of TEE and REDIRECT.    *)
THEOREM EndsAlwaysAgree == ASSUME ListsOK PROVE RulesSpec => []EndsAgree
  BY RulesInitially, RulesKeep, RulesAgree, PTL DEF RulesSpec
=============================================================================
