----------------------------- MODULE MCSwitchRx -----------------------------
(* Switch.tla with incoming packets only: two fragmented packets and an    *)
(* unfragmented one from nodes not known at first compete for two slots.   *)
EXTENDS Switch, TLC

MCFragments == "p" :> 3 @@ "q" :> 2 @@ "w" :> 1
MCSource    == "p" :> "x" @@ "q" :> "x" @@ "w" :> "x"
MCIssuer    == "p" :> "none" @@ "q" :> "none" @@ "w" :> "none"
MCDest      == <<>>
MCSent      == {d \in Datagrams : d.copy = 2 => d.pid = "p" /\ d.fno = 1}
=============================================================================
