---------------------------- MODULE MCPeerPaths ----------------------------
(* A peer with two IPv4 addresses of different rank and scope and one IPv6 *)
(* address; and one path between two nodes with the code's periods, at     *)
(* about five seconds a tick.  "part" says which of the two a behaviour is *)
(* about.                                                                  *)
EXTENDS PeerPaths, Keepalive

MCFamilies == {"v4", "v6"}
MCPaths == {"lan4", "wan4", "wan6"}
MCFamily == [p \in MCPaths |-> IF p = "wan6" THEN "v6" ELSE "v4"]
MCRank == [p \in MCPaths |-> CASE p = "lan4" -> 2 [] p = "wan4" -> 0 [] OTHER -> 1]
MCScope == [p \in MCPaths |-> IF p = "lan4" THEN "private" ELSE "global"]

VARIABLE part

MCInit == part \in {"paths", "keepalive"} /\ Init /\ KeepaliveInit

MCNext ==
    \/ part = "paths" /\ Next /\ UNCHANGED <<part, keepaliveVars>>
    \/ part = "keepalive" /\ KeepaliveNext /\ UNCHANGED <<part, vars>>

MCSpec == MCInit /\ [][MCNext]_<<part, vars, keepaliveVars>>
=============================================================================
