---------------------------- MODULE MCMembership ----------------------------
(* Membership.tla for three nodes in a ring, a member certified at two     *)
(* times and revocations of both kinds.                                    *)
EXTENDS Membership, TLC

MCLinks == "a" :> {"b"} @@ "b" :> {"c"} @@ "c" :> {"a"}

(* The certificate CertificateOfMembership(timestamp, maxDelta, nwid,      *)
(* issuedTo) makes; 100 stands for the largest 64-bit number.              *)
MCQualifiers ==
    [t \in Times |-> <<[id |-> 0, value |-> t, maxDelta |-> MaxDelta],
                       [id |-> 1, value |-> 7, maxDelta |-> 0],
                       [id |-> 2, value |-> 9, maxDelta |-> 100]>>]

MCRevocations ==
    {[type |-> "tag", threshold |-> 1], [type |-> "com", threshold |-> 2]}
=============================================================================
