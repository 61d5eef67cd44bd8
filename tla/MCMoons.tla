------------------------------ MODULE MCMoons ------------------------------
(* Topology.tla with the files of service/OneService.cpp and one moon: one *)
(* thread for what is stored, two for the locks.                           *)
EXTENDS Topology

MCWorld(type, id, ts, key, roots) ==
    [type |-> type, id |-> id, ts |-> ts, key |-> key, signer |-> key, roots |-> roots]

MCPlanet == MCWorld("planet", 1, 1, "k", {"r"})
MCWorlds == {MCWorld("moon", 7, 1, "m", {"s", "t"})}
=============================================================================
