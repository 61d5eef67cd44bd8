------------------------------- MODULE Rules -------------------------------
(***************************************************************************)
(* The rules engine of a network, node/Network.cpp: _doZtFilter() walks a  *)
(* list of MATCH and ACTION entries, and the two ends of a frame's way use *)
(* it in filterOutgoingPacket() and filterIncomingPacket().  The sender S, *)
(* the destination D and a third member T have the same configuration.     *)
(* What a MATCH looks at is reduced to how its outcome may differ between  *)
(* the ends: not at all, with the source or destination of the packet,     *)
(* with the direction, or with the tags that an end knows of the other.    *)
(* MATCH_RANDOM, a new draw at every end, is left out.                     *)
(***************************************************************************)
EXTENDS Naturals, Sequences

CONSTANTS
    RuleLists,   \* the lists of rules of the network
    Capability   \* the rules of a capability that S holds

VARIABLES
    rules,       \* _config.rules
    tagOfD,      \* D's tag: "same" (the value the rules ask for) or "other"
    tagKnown,    \* does S have D's tag already
    flying,      \* frames on their way: [from, to, flag]
    taken,       \* what the receivers made of them: [at, from, flag, outcome]
    stage        \* "start", "sent" or "blocked"

rvars == <<rules, tagOfD, tagKnown, flying, taken, stage>>

Matches == {"field", "source", "dest", "inbound", "tags", "sender", "receiver"}
Actions == {"drop", "accept", "break", "tee", "redirect", "unknown"}
Forwards == {"tee", "redirect"}

(* A list as the controller may write it.                                  *)
WellFormed(list) ==
    /\ Len(list) \in Nat /\ DOMAIN list = 1..Len(list)
    /\ \A i \in DOMAIN list :
         list[i].t \in Matches \cup Actions /\ list[i].or \in BOOLEAN /\ list[i].neg \in BOOLEAN

ListsOK == \A list \in RuleLists \cup {Capability} : WellFormed(list)

(***************************************************************************)
(* A MATCH entry r at an end e: the node e.me, the direction, the source   *)
(* and destination, its own tag and the one it knows of the other end.     *)
(* "tags" is TAGS_EQUAL, "sender" and "receiver" are TAG_SENDER and        *)
(* TAG_RECEIVER; "field" stands for what all ends read in the frame alike. *)
(* "source" also stands for the characteristics SENDER_IP_AUTHENTICATED    *)
(* and SENDER_MAC_AUTHENTICATED, as S, the only one to own the addresses   *)
(* in the frame, has certificates of it and pushes them with the frame.    *)
(***************************************************************************)
RuleMatches(r, e, super) ==
    CASE r.t = "field" -> TRUE
      [] r.t = "source" -> e.src = "S"
      [] r.t = "dest" -> e.dst = "D"
      [] r.t = "inbound" -> e.inbound
      [] r.t = "tags" ->
            /\ e.own # "none"
            /\ IF e.other = "none" THEN ~e.inbound \/ super
               ELSE e.own = "same" /\ e.other = "same"
      [] r.t = "sender" -> super \/ (IF e.inbound THEN e.other ELSE e.own) = "same"
      [] r.t = "receiver" ->
            \/ super
            \/ IF e.inbound THEN e.own = "same" ELSE e.other \in {"same", "none"}

(***************************************************************************)
(* _doZtFilter(): st.set is thisSetMatches, st.super is superAccept.       *)
(***************************************************************************)
Start == [result |-> "", set |-> TRUE, super |-> FALSE, cc |-> {}, dst |-> ""]

Result(st, result) == [st EXCEPT !.result = result]

BugAct(st, r, e) ==
    CASE r.t = "drop" -> Result(st, "drop")
      [] r.t = "break" -> Result(st, "noMatch")
      [] r.t = "accept" -> Result(st, IF st.super THEN "superAccept" ELSE "accept")
      [] r.t = "tee" /\ r.to \notin {e.src, e.me, e.dst} -> [st EXCEPT !.cc = {r.to}]
      [] r.t = "redirect" /\ r.to \notin {e.src, e.me, e.dst} ->
            [st EXCEPT !.result = "redirect", !.dst = r.to]
      [] OTHER -> st

Act(st, r, e) ==
    CASE r.t = "drop" -> Result(st, "drop")
      [] r.t = "break" -> Result(st, "noMatch")
      [] r.t = "accept" -> Result(st, IF st.super THEN "superAccept" ELSE "accept")
      [] r.t \in Forwards /\ r.to # e.src /\ r.to = e.me /\ e.inbound -> Result(st, "superAccept")
      [] r.t = "tee" /\ r.to \notin {e.src, e.me, e.dst} -> [st EXCEPT !.cc = {r.to}]
      [] r.t = "redirect" /\ r.to \notin {e.src, e.me, e.dst} ->
            [st EXCEPT !.result = "redirect", !.dst = r.to]
      [] OTHER -> st

BugSkip(st, r, e) ==
    [st EXCEPT !.super = @ \/ (e.inbound /\ r.t \in Forwards /\ r.to = e.me)]

(* An ACTION whose set does not match: the next set starts afresh.         *)
Skip(st, r, e) ==
    [st EXCEPT !.super = @ \/ (e.inbound /\ r.t \in Forwards /\ r.to = e.me),
               !.set = TRUE]

Match(st, r, e) ==
    LET m == RuleMatches(r, e, st.super) # r.neg
    IN [st EXCEPT !.set = IF r.or THEN @ \/ m ELSE @ /\ m]

FilterStep(st, r, e) ==
    CASE st.result # "" -> st
      [] st.result = "" /\ r.t \in Actions -> IF st.set THEN Act(st, r, e) ELSE Skip(st, r, e)
      [] OTHER -> IF ~st.set /\ ~r.or THEN st ELSE Match(st, r, e)

Walk(list, e) ==
    LET walk[i \in 0..Len(list)] ==
            IF i = 0 THEN Start ELSE FilterStep(walk[i - 1], list[i], e)
    IN walk

DoZtFilter(list, e) ==
    LET st == Walk(list, e)[Len(list)]
    IN IF st.result = "" THEN Result(st, "noMatch") ELSE st

(* Base rules first; without a match the capability's, where a DROP only   *)
(* ends the capability.                                                    *)
Accepting == {"accept", "superAccept", "redirect"}

Verdict(list, cap, e) ==
    LET base == DoZtFilter(list, e)
        more == DoZtFilter(cap, e)
    IN IF base.result # "noMatch" THEN base
       ELSE IF more.result \in Accepting THEN [more EXCEPT !.cc = @ \cup base.cc]
       ELSE Result(more, "drop")

(***************************************************************************)
(* The way of a frame from S to D                                          *)
(***************************************************************************)
RulesInit ==
    /\ rules \in RuleLists
    /\ tagOfD \in {"same", "other"} /\ tagKnown \in BOOLEAN
    /\ flying = {} /\ taken = {} /\ stage = "start"

(* S has the right tag, T has none.                                        *)
TagOf(n) == CASE n = "S" -> "same" [] n = "D" -> tagOfD [] OTHER -> "none"

Outbound(known) ==
    [me |-> "S", inbound |-> FALSE, src |-> "S", dst |-> "D", own |-> TagOf("S"),
     other |-> IF known THEN TagOf("D") ELSE "none"]

(* Credentials are pushed ahead of every frame, so a receiver knows the    *)
(* tag of the node it gets the frame from.                                 *)
Inbound(me, from) ==
    [me |-> me, inbound |-> TRUE, src |-> from, dst |-> me, own |-> TagOf(me),
     other |-> TagOf(from)]

CapabilityOf(n) == IF n = "S" THEN Capability ELSE <<>>

Copies(from, tos, flag) == {[from |-> from, to |-> to, flag |-> flag] : to \in tos}

SentOn(me, v, tee) ==
    Copies(me, IF tee THEN v.cc ELSE {}, "tee")
        \cup (IF v.result = "redirect" THEN Copies(me, {v.dst}, "redirect") ELSE {})

(* filterOutgoingPacket(), called by onLocalEthernet(), which sends what   *)
(* it lets pass.                                                           *)
FilterOutgoingPacket(noTee) ==
    LET v == Verdict(rules, Capability, Outbound(tagKnown)) IN
    /\ stage = "start"
    /\ IF v.result \in Accepting
         THEN /\ stage' = "sent"
              /\ flying' = SentOn("S", v, ~noTee)
                    \cup (IF v.result = "redirect" THEN {} ELSE Copies("S", {"D"}, "frame"))
         ELSE stage' = "blocked" /\ UNCHANGED flying
    /\ UNCHANGED <<rules, tagOfD, tagKnown, taken>>

(* _doEXT_FRAME() and filterIncomingPacket(): S does not take back its own *)
(* frame; an ACCEPT that is not a super-accept still has to be addressed   *)
(* to the receiver and come from its sender, as nobody here is a bridge.   *)
FilterIncomingPacket(f) ==
    LET v == Verdict(rules, CapabilityOf(f.from), Inbound(f.to, f.from))
        outcome ==
            IF f.to = "S" THEN "own" ELSE
            CASE v.result = "superAccept" -> "delivered"
              [] v.result = "accept" ->
                    IF f.to = "D" /\ f.from = "S" THEN "delivered" ELSE "bridging not allowed"
              [] v.result = "redirect" -> "redirected"
              [] OTHER -> "dropped"
    IN /\ flying' = (flying \ {f})
             \cup (IF f.to # "S" /\ v.result \in Accepting THEN SentOn(f.to, v, TRUE) ELSE {})
       /\ taken' = taken \cup {[at |-> f.to, from |-> f.from, flag |-> f.flag, outcome |-> outcome]}
       /\ UNCHANGED <<rules, tagOfD, tagKnown, stage>>

RulesDone == stage # "start" /\ flying = {} /\ UNCHANGED rvars

RulesNext ==
    \/ \E noTee \in BOOLEAN : FilterOutgoingPacket(noTee)
    \/ \E f \in flying : FilterIncomingPacket(f)
    \/ RulesDone

RulesSpec == RulesInit /\ [][RulesNext]_rvars

-----------------------------------------------------------------------------
(***************************************************************************)
(* What the list means: sets of MATCH entries, each with its ACTION.       *)
(***************************************************************************)
Ends(list) == {i \in DOMAIN list : list[i].t \in Actions}

SetOf(list, i) ==
    {j \in 1..(i - 1) : \A k \in Ends(list) : k < i => j > k}

(* AND and OR bind from left to right: the set matches if after some true  *)
(* OR, or from the beginning, no AND is false.                             *)
SetMatches(list, i, e, super) ==
    LET Holds(j) == RuleMatches(list[j], e, super) # list[j].neg
        from == {0} \cup {j \in SetOf(list, i) : list[j].or /\ Holds(j)}
    IN \E k \in from : \A j \in SetOf(list, i) : j > k /\ ~list[j].or => Holds(j)

(* What superAccept is at entry i: an earlier TEE or REDIRECT to this node *)
(* had a set that did not match.                                           *)
Supers(list, e) ==
    LET super[i \in 1..(Len(list) + 1)] ==
            \E j \in Ends(list) :
                /\ j < i /\ e.inbound /\ list[j].t \in Forwards /\ list[j].to = e.me
                /\ ~SetMatches(list, j, e, super[j])
    IN super

Meaning(list, e) ==
    LET super == Supers(list, e)
        Outcome(i) == Act([Start EXCEPT !.super = super[i]], list[i], e).result
        final == {i \in Ends(list) : SetMatches(list, i, e, super[i]) /\ Outcome(i) # ""}
    IN IF final = {} THEN "noMatch"
       ELSE Outcome(CHOOSE i \in final : \A j \in final : i <= j)

(* The walk over the list, with its running state and its shortcut past    *)
(* ANDs, gives what the first set that matches and decides says: for every *)
(* end, thisSetMatches and superAccept of _doZtFilter() mean what they     *)
(* should.                                                                 *)
FilterMeaning ==
    \A e \in {Outbound(tagKnown), Inbound("D", "S"), Inbound("T", "S"), Inbound("T", "D")} :
        DoZtFilter(rules, e).result = Meaning(rules, e)

(* Tags that only help to accept: no NOT, and no other ACTION behind them. *)
Permissive(list) ==
    \A i \in DOMAIN list :
        list[i].t \in {"tags", "receiver"} =>
            /\ ~list[i].neg
            /\ \E k \in Ends(list) : i \in SetOf(list, k) /\ list[k].t = "accept"

Avoids(list, ts) == \A i \in DOMAIN list : list[i].t \notin ts

Undirected ==
    /\ Avoids(rules, {"inbound"}) /\ Permissive(rules)
    /\ Avoids(Capability, {"inbound"}) /\ Permissive(Capability)

(* The matches that may come out otherwise at the target of a copy than at *)
(* the node it comes from.  The source of a copy is the node that sends    *)
(* it, and so is the sender whose tag counts: they are still S and its tag *)
(* only if S made the copy itself.                                         *)
Changing(from) ==
    {"inbound", "dest", "tags", "receiver"}
        \cup (IF from = "S" THEN {} ELSE {"source", "sender"})

(* The ends agree: lists that do not look at the direction let D take (or  *)
(* hand on) the frame that they let S send to D, once S knows D's tag.     *)
(* A list without matches that change on the way of a copy lets the target *)
(* of a TEE or REDIRECT take (or hand on) the copy, although it is not the *)
(* destination of the frame; the capability, which only S holds, has no    *)
(* TEE and no REDIRECT then.  And as the "outbound side is not strict", S  *)
(* lets out a frame before it knows D's tag if it would let it out with    *)
(* it, where tags only help to accept.                                     *)
EndsAgree ==
    /\ \A x \in taken :
        \/ x.outcome \in {"delivered", "redirected", "own"}
        \/ x.flag = "frame" /\ ~(Undirected /\ tagKnown)
        \/ /\ x.flag # "frame"
           /\ \/ ~Avoids(rules, Changing(x.from))
              \/ ~Avoids(Capability, Forwards)
    /\ stage = "blocked" /\ Permissive(rules) /\ Permissive(Capability) =>
        Verdict(rules, Capability, Outbound(TRUE)).result \notin Accepting
=============================================================================
