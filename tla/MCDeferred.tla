----------------------------- MODULE MCDeferred -----------------------------
(* Switch.tla with one packet of credentials from a known node, signed by  *)
(* an issuer whose identity is looked up first.                            *)
EXTENDS Switch, TLC

MCFragments == "p" :> 1
MCSource    == "p" :> "u"
MCIssuer    == "p" :> "c"
MCDest      == <<>>
=============================================================================
