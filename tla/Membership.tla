----------------------------- MODULE Membership -----------------------------
(***************************************************************************)
(* node/Membership and the credentials side of node/Network: what the      *)
(* nodes of a network hold about one member (the target), which            *)
(* certificates of it they accept, and how a revocation floods from node   *)
(* to node.  The target's credentials reach a node at any time and in any  *)
(* order: the target pushes them again and again.                          *)
(***************************************************************************)
EXTENDS ComAgreement, FiniteSets

CONSTANTS
    Nodes,        \* the other nodes of the network
    Met,          \* those the target exchanges traffic with
    Links,        \* per node, the members it has a Membership for
    MaxTime,      \* time stamps of credentials are 1..MaxTime
    MaxDelta,     \* NetworkConfig::credentialTimeMaxDelta
    Qualifiers,   \* the certificate of membership issued at each time
    Revocations   \* the revocations the controller may issue: [type, threshold]

Times == 1..MaxTime

ASSUME MembershipAssumption ==
    /\ Met \subseteq Nodes /\ "controller" \notin Nodes
    /\ Links \in [Nodes -> SUBSET Nodes]
    /\ MaxTime \in Nat \ {0} /\ MaxDelta \in Nat
    /\ Revocations \subseteq [type : {"com", "tag"}, threshold : Times]

VARIABLES
    com,       \* per node, the time stamp of _com, 0 if there is none
    comThr,    \* per node, _comRevocationThreshold
    tag,       \* per node, the time stamp of the target's tag, 0 if none
    tagThr,    \* per node, the tag's entry in _revocations, 0 if none
    conf,      \* per node, NetworkConfig::timestamp, also of its own COM
    issued,    \* revocations issued so far
    net        \* revocations under way: [to, from, rev]

nodeVars == <<com, comThr, tag, tagThr, conf>>
vars == <<nodeVars, issued, net>>

Messages == [to : Nodes, from : Nodes \cup {"controller"}, rev : Revocations]

TypeOK ==
    /\ com \in [Nodes -> 0..MaxTime] /\ comThr \in [Nodes -> 0..MaxTime]
    /\ tag \in [Nodes -> 0..MaxTime] /\ tagThr \in [Nodes -> 0..MaxTime]
    /\ conf \in [Nodes -> Times]
    /\ issued \subseteq Revocations
    /\ net \subseteq Messages

Init ==
    /\ com = [n \in Nodes |-> 0] /\ comThr = [n \in Nodes |-> 0]
    /\ tag = [n \in Nodes |-> 0] /\ tagThr = [n \in Nodes |-> 0]
    /\ conf \in [Nodes -> {1}]
    /\ issued = {}
    /\ net = {}

---------------------------------------------------------------------------
(* Membership::_isCredentialTimestampValid: may the tag still be used?     *)
TagUsable(n) ==
    /\ tag[n] # 0
    /\ Within(tag[n], conf[n], MaxDelta)
    /\ tag[n] > tagThr[n]

(* Membership::isAllowedOnNetwork, on a private network.                   *)
Allowed(n) ==
    /\ com[n] > comThr[n]
    /\ AgreesWith(Qualifiers[conf[n]], Qualifiers[com[n]])

(* addCredential(CertificateOfMembership): not revoked and not older than  *)
(* the one held.                                                           *)
BugAddCom(n, ts) ==
    /\ ts > comThr[n]
    /\ com' = [com EXCEPT ![n] = ts]
    /\ UNCHANGED <<comThr, tag, tagThr, conf, issued, net>>

AddCom(n, ts) ==
    /\ ts > comThr[n] /\ ts >= com[n]
    /\ com' = [com EXCEPT ![n] = ts]
    /\ UNCHANGED <<comThr, tag, tagThr, conf, issued, net>>

(* addCredential(Tag), and of capabilities and certificates of ownership   *)
(* through the same template.                                              *)
AddTag(n, ts) ==
    /\ tag[n] <= ts /\ tagThr[n] < ts
    /\ tag' = [tag EXCEPT ![n] = ts]
    /\ UNCHANGED <<com, comThr, tagThr, conf, issued, net>>

(* Network::setConfiguration: another configuration arrives, which may be  *)
(* an older one.                                                           *)
NewConfig(n, ts) ==
    /\ ts # conf[n]
    /\ conf' = [conf EXCEPT ![n] = ts]
    /\ UNCHANGED <<com, comThr, tag, tagThr, issued, net>>

---------------------------------------------------------------------------
(* The controller sprays a revocation to the members that are online.      *)
(* This controller revokes certificates of membership; the other types are *)
(* what the nodes accept from any.  No copy is lost on the way.            *)
Issue(rev, online) ==
    /\ rev \notin issued
    /\ issued' = issued \cup {rev}
    /\ net' = net \cup [to : online, from : {"controller"}, rev : {rev}]
    /\ UNCHANGED nodeVars

(* Membership::addCredential(Revocation): is it news?  A revocation of a   *)
(* tag, capability or certificate of ownership also sets the threshold for *)
(* the certificate of membership.                                          *)
BugIsNews(n, rev) ==
    rev.threshold >= IF rev.type = "com" THEN comThr[n] ELSE tagThr[n]

IsNews(n, rev) ==
    rev.threshold > IF rev.type = "com" THEN comThr[n] ELSE tagThr[n]

NewComThr(n, rev) == rev.threshold

NewTagThr(n, rev) == IF rev.type = "com" THEN tagThr[n] ELSE rev.threshold

(* Network::addCredential(Revocation): news is passed on to every member   *)
(* but the one it came from and the controller that signed it.             *)
BugForwarded(m) ==
    [to : IF m.from = "controller" THEN Links[m.to] ELSE {}, from : {m.to}, rev : {m.rev}]

Forwarded(m) ==
    [to : Links[m.to] \ {m.from}, from : {m.to}, rev : {m.rev}]

RecvRevocation(m) ==
    /\ m \in net
    /\ \/ /\ IsNews(m.to, m.rev)
          /\ comThr' = [comThr EXCEPT ![m.to] = NewComThr(m.to, m.rev)]
          /\ tagThr' = [tagThr EXCEPT ![m.to] = NewTagThr(m.to, m.rev)]
          /\ net' = (net \ {m}) \cup Forwarded(m)
       \/ /\ ~IsNews(m.to, m.rev)
          /\ net' = net \ {m}
          /\ UNCHANGED <<comThr, tagThr>>
    /\ UNCHANGED <<com, tag, conf, issued>>

Next ==
    \/ \E n \in Met, ts \in Times : AddCom(n, ts) \/ AddTag(n, ts) \/ NewConfig(n, ts)
    \/ \E rev \in Revocations, online \in SUBSET Nodes : Issue(rev, online)
    \/ \E m \in net : RecvRevocation(m)

Spec == Init /\ [][Next]_vars

(* Messages are delivered.                                                 *)
LiveSpec == Spec /\ \A m \in Messages : WF_vars(RecvRevocation(m))

---------------------------------------------------------------------------
(* Once the flood has died down, no node uses a tag the revocation covers, *)
(* if it reached any node at all; and, as long as only certificates of     *)
(* membership were revoked, no node lets the target in on one of those.    *)
Reached(rev) == \E n \in Nodes :
    rev.threshold <= IF rev.type = "com" THEN comThr[n] ELSE tagThr[n]

ComRevocationEffective ==
    \A rev \in issued : net = {} /\ rev.type = "com" /\ Reached(rev) =>
        \A n \in Nodes : Allowed(n) => com[n] > rev.threshold

RevocationEffective ==
    /\ \A rev \in issued : net = {} /\ rev.type = "tag" /\ Reached(rev) =>
         \A n \in Nodes : TagUsable(n) => tag[n] > rev.threshold
    /\ (\A rev \in issued : rev.type = "com") => ComRevocationEffective

(* Whoever is let in holds a certificate that agrees with the node's own,  *)
(* tuple by tuple.                                                         *)
AllowedAgrees ==
    \A n \in Nodes : Allowed(n) => Agreement(Qualifiers[conf[n]], Qualifiers[com[n]])

(* A credential is replaced by no older one, whatever order copies of them *)
(* arrive in and whatever configuration the node has.                      *)
NewestKept ==
    [][\A n \in Nodes : com'[n] >= com[n] /\ tag'[n] >= tag[n]]_vars

(* The flood ends, although links form cycles.                             *)
FloodEnds == <>[](net = {})
=============================================================================
