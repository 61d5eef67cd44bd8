------------------------------ MODULE Network ------------------------------
(***************************************************************************)
(* A node's side of network configuration (node/Network.cpp): the node     *)
(* asks its controller for the configuration of a network it has joined,   *)
(* puts the parts of the answers and of the controller's own pushes        *)
(* together in a few slots, and applies what is complete.  Parts may be    *)
(* lost, duplicated and reordered.  All parts have the same length, so one *)
(* count stands for haveChunks and haveBytes.                              *)
(***************************************************************************)
EXTENDS Naturals, FiniteSets, FiniteSetsExt

CONSTANTS
    NSlots,       \* ZT_NETWORK_MAX_INCOMING_UPDATES
    MaxParts,     \* ZT_NETWORK_MAX_UPDATE_CHUNKS
    Size,         \* Size[r]: the number of parts of revision r
    Legacy,       \* revisions sent unsigned, in a single part
    Refusals,     \* the errors a controller answers: "denied", "notfound"
    MaxFlight,    \* bound: updates in flight
    MaxChanges,   \* bound: changes at the controller
    MaxFaults     \* bound: losses, duplicates, restarts and departures

Slots == 1..NSlots
Revs == 0..MaxChanges

ASSUME NetworkAssumption ==
    /\ NSlots \in Nat \ {0} /\ MaxParts \in Nat
    /\ MaxFlight \in Nat /\ MaxChanges \in Nat /\ MaxFaults \in Nat
    /\ Size \in [Revs -> Nat \ {0}]
    /\ \A r \in Revs \cap Legacy : Size[r] = 1

Ids == 1..(NSlots + MaxFlight + 2)
NoId == 0
Verdicts == {"ok"} \cup Refusals
NoConfig == [id |-> NoId, rev |-> 0, whole |-> TRUE]
Empty == [id |-> NoId, ts |-> 0, count |-> 0, have |-> {}, own |-> {}]

VARIABLES
    slots,     \* _incomingConfigChunks; of the data, "own" are the parts
               \* that the slot's update wrote, the others are older bytes
    config,    \* _config: its update, its revision, whether all of it is there
    failure,   \* _netconfFailure
    due,       \* _lastConfigUpdate is ZT_NETWORK_AUTOCONF_DELAY ago
    disk,      \* the stored configuration
    joined,    \* the network is in Node::_networks
    rev,       \* the controller: the revision it would send,
    verdict,   \* and its answer to a request
    net,       \* parts in flight
    errors,    \* ERRORs in flight
    changes, faults,
    applied    \* history: updates applied whose slots are still theirs

node == <<slots, config, failure, due, disk, joined, applied>>
ctrl == <<rev, verdict, changes>>
vars == <<node, ctrl, net, errors, faults>>

Init ==
    /\ slots = [s \in Slots |-> Empty]
    /\ config = NoConfig /\ disk = NoConfig
    /\ failure = "ok" /\ due = TRUE /\ joined = TRUE
    /\ rev = 0 /\ verdict = "ok" /\ changes = 0
    /\ net = {} /\ errors = {} /\ faults = 0 /\ applied = {}

(***************************************************************************)
(* The controller.  An update has a random id: one nobody remembers.       *)
(***************************************************************************)
InFlight == {m.id : m \in net}

Remembered == InFlight \cup {slots[s].id : s \in Slots} \cup {config.id, disk.id}

(* Node::ncSendConfig(): all the parts of revision r, as an answer or not. *)
Update(r, answer) ==
    LET id == Min(Ids \ Remembered) IN
    {[id |-> id, rev |-> r, part |-> p, answer |-> answer] : p \in 1..Size[r]}

(* A change is pushed to the members who may know it; errors are not.      *)
Change(v) ==
    /\ changes < MaxChanges /\ Cardinality(InFlight) < MaxFlight
    /\ changes' = changes + 1 /\ rev' = rev + 1 /\ verdict' = v
    /\ net' = IF v = "ok" THEN net \cup Update(rev + 1, FALSE) ELSE net
    /\ UNCHANGED <<node, errors, faults>>

(* processBackgroundTasks() asks for a configuration that is missing or    *)
(* old; the controller answers.  Requests are ZT_PING_CHECK_INVERVAL apart: *)
(* by then the earlier answer has arrived or is lost.                      *)
Request ==
    /\ joined /\ (due \/ config = NoConfig)
    /\ Cardinality(InFlight) < MaxFlight /\ \A m \in net : ~m.answer
    /\ IF verdict = "ok"
         THEN net' = net \cup Update(rev, TRUE) /\ UNCHANGED errors
         ELSE errors' = errors \cup {verdict} /\ UNCHANGED net
    /\ UNCHANGED <<node, ctrl, faults>>

Age ==
    /\ ~due /\ due' = TRUE
    /\ UNCHANGED <<slots, config, failure, disk, joined, applied, ctrl, net, errors, faults>>

(***************************************************************************)
(* Network::handleConfigChunk().                                           *)
(***************************************************************************)

(* The first of the slots whose ts is lowest.                              *)
LowestSlot ==
    Min({s \in Slots : \A t \in Slots : slots[s].ts <= slots[t].ts})

SlotFor(m) ==
    LET same == {s \in Slots : slots[s].id = m.id}
    IN IF same # {} /\ m.rev \notin Legacy THEN Min(same) ELSE LowestSlot

Duplicate(m) == m.rev \notin Legacy /\ \E s \in Slots : slots[s].id = m.id /\ m.part \in slots[s].have

BugReused(c, m) ==
    IF c.id = m.id THEN c ELSE [c EXCEPT !.id = m.id, !.have = {}, !.own = {}]

(* A slot that changes hands forgets what it had; the old bytes stay.      *)
Reused(c, m) ==
    IF c.id = m.id THEN c
    ELSE [c EXCEPT !.id = m.id, !.count = 0, !.have = {}, !.own = {}]

BugStoredAgain(c, m) ==
    IF c.count + 1 = Size[m.rev]
      THEN [c EXCEPT !.count = 0, !.have = {}, !.own = @ \cup {m.part}]
      ELSE [c EXCEPT !.count = @ + 1, !.have = @ \cup {m.part}, !.own = @ \cup {m.part}]

Stored(c, m) ==
    IF c.count >= MaxParts THEN c
    ELSE [c EXCEPT !.count = @ + 1, !.have = @ \cup {m.part}, !.own = @ \cup {m.part}]

Complete(c, m) == c.count < MaxParts /\ c.count + 1 = Size[m.rev]

(* Only the order of the ts matters: they are counted from the lowest.     *)
Normal(f) ==
    LET low == Min({f[s].ts : s \in Slots})
    IN [s \in Slots |-> [f[s] EXCEPT !.ts = @ - low]]

Assembled(c, m) ==
    [id |-> m.id, rev |-> m.rev, whole |-> 1..Size[m.rev] \subseteq c.own]

BugSetConfiguration(c) ==
    IF c = config
      THEN UNCHANGED <<config, failure, due, disk>>
      ELSE config' = c /\ disk' = c /\ due' = FALSE /\ UNCHANGED failure

(* Network::setConfiguration(): a duplicate changes nothing.               *)
SetConfiguration(c) ==
    IF c = config
      THEN UNCHANGED <<config, failure, due, disk>>
      ELSE config' = c /\ disk' = c /\ failure' = "ok" /\ due' = FALSE

HandleConfigChunk(m) ==
    IF ~joined \/ Duplicate(m)
      THEN UNCHANGED node
      ELSE LET s == SlotFor(m)
               c == Reused([slots[s] EXCEPT !.ts = @ + 1], m)
               d == Stored(c, m)
           IN /\ slots' = Normal([slots EXCEPT ![s] = d])
              /\ IF Complete(c, m)
                   THEN SetConfiguration(Assembled(d, m))
                   ELSE UNCHANGED <<config, failure, due, disk>>
              /\ applied' = (applied \ {slots[s].id})
                            \cup (IF Complete(c, m) \/ c.id \in applied THEN {m.id} ELSE {})
              /\ UNCHANGED joined

(* A part, and perhaps a further copy of it later.                         *)
RecvChunk(m) ==
    /\ HandleConfigChunk(m)
    /\ \/ net' = net \ {m} /\ UNCHANGED faults
       \/ net' = net /\ faults < MaxFaults /\ faults' = faults + 1
    /\ UNCHANGED <<ctrl, errors>>

(* setAccessDenied() and setNotFound(): the configuration stays.           *)
RecvError(e) ==
    /\ errors' = errors \ {e}
    /\ failure' = IF joined THEN e ELSE failure
    /\ UNCHANGED <<slots, config, due, disk, joined, applied, ctrl, net, faults>>

Lose ==
    /\ faults < MaxFaults /\ faults' = faults + 1
    /\ \/ \E m \in net : net' = net \ {m} /\ UNCHANGED errors
       \/ \E e \in errors : errors' = errors \ {e} /\ UNCHANGED net
    /\ UNCHANGED <<node, ctrl>>

(***************************************************************************)
(* Restart of the node, Node::leave() and Node::join().                    *)
(***************************************************************************)

(* The constructor of Network: c is what stateObjectGet() finds, if        *)
(* nothing the file is made anew.                                          *)
Construct(c) ==
    /\ slots' = [s \in Slots |-> Empty]
    /\ config' = c /\ disk' = c /\ failure' = "ok" /\ due' = TRUE /\ applied' = {}

(* An embedder that keeps to the contract finds what was stored; the one   *)
(* in service/OneService.cpp looks for a configuration in a file of        *)
(* another name, and finds nothing.                                        *)
StateObjectGet == {disk, NoConfig}

Restart ==
    /\ joined /\ faults < MaxFaults /\ faults' = faults + 1
    /\ \E c \in StateObjectGet : Construct(c)
    /\ UNCHANGED <<joined, ctrl, net, errors>>

Leave ==
    /\ joined /\ faults < MaxFaults /\ faults' = faults + 1
    /\ joined' = FALSE /\ Construct(NoConfig)
    /\ UNCHANGED <<ctrl, net, errors>>

Join ==
    /\ ~joined /\ joined' = TRUE
    /\ \E c \in StateObjectGet : Construct(c)
    /\ UNCHANGED <<ctrl, net, errors, faults>>

Deliver == (\E m \in net : RecvChunk(m)) \/ (\E e \in errors : RecvError(e))

Next ==
    \/ \E v \in Verdicts : Change(v)
    \/ Request \/ Age \/ Deliver \/ Lose
    \/ Restart \/ Leave \/ Join

Spec == Init /\ [][Next]_vars

(* The service keeps its timers and reads its socket: what is due is asked *)
(* for, and what is in flight and not lost arrives.                        *)
FairSpec == Spec /\ WF_vars(Request) /\ WF_vars(Age)
                 /\ WF_vars(Deliver) /\ WF_vars(Join)
-----------------------------------------------------------------------------
(* What setConfiguration() applies comes from one update, all of it,       *)
(* whatever the slot held before and in whatever order parts came twice or *)
(* never.                                                                  *)
AssembledWhole == config.whole

(* Copies of a signed update that arrive late do not bring it back after a *)
(* newer one, as long as its slot has not been given away.                 *)
ReplayStep ==
    config'.id \in applied /\ config'.rev \notin Legacy /\ applied' # {}
        => config' = config

NoReplay == [][ReplayStep]_vars

(* Once the controller makes no more changes, the node ends with its last  *)
(* answer: the newest configuration, or the refusal.                       *)
Agrees ==
    /\ failure = verdict
    /\ verdict = "ok" => config.id # NoId /\ config.rev = rev

Converges == <>[]Agrees
=============================================================================
