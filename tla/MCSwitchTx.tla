----------------------------- MODULE MCSwitchTx -----------------------------
(* Switch.tla with outgoing packets only: two threads send a packet each   *)
(* to a node that is not known at first, while its lookup is answered,     *)
(* retried and given up.                                                   *)
EXTENDS Switch, TLC

MCNone == <<>>
MCDest == [i \in SendIds |-> "x"]
=============================================================================
