--------------------------- MODULE MCController ---------------------------
(* What the controller of a network hands out and how its members deal     *)
(* with it: the instance of Membership.tla, and Controller.tla for one     *)
(* member and two workers.  A behaviour is about one of them: the other's  *)
(* variables are such that it has nothing to do.                           *)
EXTENDS MCMembership, Controller

Off == [pc |-> "off"]

MCInit ==
    \/ Init /\ ControllerInit
    \/ /\ Init
       /\ network = None /\ mem = [m \in Members |-> None] /\ queue = <<>>
       /\ worker = [w \in Workers |-> Idle] /\ api = Off
       /\ status = [m \in Members |-> [recent |-> FALSE, online |-> FALSE, meta |-> ""]]
       /\ sent = [m \in Members |-> Answer("none", 0)]
       /\ posts = 0 /\ allowed = {}

MCNext ==
    \/ api # Off /\ ControllerNext /\ UNCHANGED vars
    \/ api = Off /\ Next /\ UNCHANGED controllerVars

(* The fairness of both; where one of them is switched off, none of its    *)
(* fair actions is enabled.                                                *)
MCSpec ==
    /\ MCInit /\ [][MCNext]_<<vars, controllerVars>>
    /\ \A m \in Messages : WF_vars(RecvRevocation(m))
    /\ Fairness
=============================================================================
