------------------------------ MODULE MCParts ------------------------------
(* Components of a node and of the controller that are checked one by one: *)
(* "part" says which of them a behaviour is about; the others stay as they *)
(* were at first.                                                          *)
EXTENDS Fragmenter, Topology, Binder, Allocation, Replies, Multicast, Rules

VARIABLE part

(* The constants of the code, and the sizes around each of the boundaries  *)
(* at which one more fragment is needed, up to the size of a buffer.       *)
MCSizes ==
    {1, MaxFragments * Mtu}
    \cup {s \in 1..(MaxFragments * Mtu) : \E n \in 1..MaxFragments : s - Place(n) \in -2..2}

(* Two versions of a planet, the second of which has this node as a root,  *)
(* and two of a moon.                                                      *)
World(type, id, ts, key, roots) ==
    [type |-> type, id |-> id, ts |-> ts, key |-> key, signer |-> key, roots |-> roots]

MCPlanet == World("planet", 1, 1, "k", {"r", "s"})

MCWorlds ==
    {World("planet", 1, 2, "k", {"s", "me"}),
     World("moon", 7, 1, "m", {"s", "t"}), World("moon", 7, 2, "m", {"t"})}

(* Two members for whom the search starts at the same of two usable        *)
(* addresses (255 is not).                                                 *)
MCLow == [m \in {"m", "n"} |-> IF m = "m" THEN 5 ELSE 8]
MCPools == <<[start |-> 254, end |-> 257]>>
MCRoutes == {[first |-> 250, last |-> 259, via |-> FALSE]}

(* No rules; two sets of one match each; a set of two with an action       *)
(* behind it.                                                              *)
Rule(t, or, neg, to) == [t |-> t, or |-> or, neg |-> neg, to |-> to]

MCMatches(ors) == {Rule(t, or, neg, "") : t \in Matches, or \in ors, neg \in BOOLEAN}

MCEnds ==
    {Rule(t, FALSE, FALSE, "") : t \in {"drop", "accept", "break", "unknown"}}
    \cup {Rule(t, FALSE, FALSE, to) : t \in {"tee", "redirect"}, to \in {"D", "T"}}

MCRuleLists ==
    {<<>>} \cup {<<m, a, n, b>> : m, n \in MCMatches({FALSE}), a, b \in MCEnds}
    \cup {<<m, n, a, b>> : m \in MCMatches({FALSE}), n \in MCMatches(BOOLEAN), a, b \in MCEnds}

MCCapability ==
    <<Rule("field", FALSE, TRUE, ""), Rule("drop", FALSE, FALSE, ""),
      Rule("accept", FALSE, FALSE, "")>>

ASSUME ListsWellFormed == ListsOK

PartsInit ==
    /\ part \in {"fragmenter", "topology", "binder", "allocation", "workers", "replies",
                 "multicast", "rules"}
    /\ Init /\ (part # "fragmenter" => size = 1)
    /\ TopologyInit /\ (part # "topology" => embedder = "contract")
    /\ BinderInit /\ AllocationInit /\ RepliesInit /\ MulticastInit
    /\ IF part = "rules" THEN RulesInit
       ELSE /\ rules = <<>> /\ tagOfD = "same" /\ tagKnown = TRUE
            /\ flying = {} /\ taken = {} /\ stage = "start"

(* The allocation with the API and one worker, and with two workers.       *)
PartsNext ==
    /\ UNCHANGED part
    /\ \/ /\ part = "fragmenter" /\ Next
          /\ UNCHANGED <<topologyVars, binderVars, allocationVars, repliesVars, multicastVars, rvars>>
       \/ /\ part = "topology" /\ TopologyNext
          /\ UNCHANGED <<vars, binderVars, allocationVars, repliesVars, multicastVars, rvars>>
       \/ /\ part = "binder" /\ BinderNext
          /\ UNCHANGED <<vars, topologyVars, allocationVars, repliesVars, multicastVars, rvars>>
       \/ /\ part = "allocation" /\ AllocationNext /\ thread'["x"] = Idle
          /\ UNCHANGED <<vars, topologyVars, binderVars, repliesVars, multicastVars, rvars>>
       \/ /\ part = "workers" /\ AllocationNext /\ posts' = 0
          /\ UNCHANGED <<vars, topologyVars, binderVars, repliesVars, multicastVars, rvars>>
       \/ /\ part = "replies" /\ RepliesNext
          /\ UNCHANGED <<vars, topologyVars, binderVars, allocationVars, multicastVars, rvars>>
       \/ /\ part = "multicast" /\ MulticastNext
          /\ UNCHANGED <<vars, topologyVars, binderVars, allocationVars, repliesVars, rvars>>
       \/ /\ part = "rules" /\ RulesNext
          /\ UNCHANGED <<vars, topologyVars, binderVars, allocationVars, repliesVars, multicastVars>>

PartsSpec ==
    PartsInit /\ [][PartsNext]_<<part, vars, topologyVars, binderVars, allocationVars, repliesVars,
                                multicastVars, rvars>>
=============================================================================
