---------------------------- MODULE MCDownloads ----------------------------
(* Two things that a node fetches piece by piece over an unreliable        *)
(* network: a configuration from its controller, and an update from the    *)
(* update service.  "part" says which of them a behaviour is about; the    *)
(* other stays as it is.                                                   *)
EXTENDS Network, Updater

VARIABLE part

(* Revisions of one part, of two parts, and of one unsigned part.          *)
MCSize == [r \in 0..MaxChanges |-> IF r = 1 THEN 2 ELSE 1]

Release(build, signed, len, dense) ==
    [ver |-> <<1, 2, 5, build>>, fits |-> TRUE, hashed |-> TRUE, signed |-> signed,
     len |-> len, dense |-> dense]

(* Two releases, of which one has a last chunk that cannot be compressed,  *)
(* and one with a bad signature.  A chunk is two units of 4990 bytes.      *)
MCReleases ==
    {Release(0, TRUE, 3, {2}), Release(1, TRUE, 2, {}), Release(2, FALSE, 1, {0})}

MCInstalled == <<1, 2, 4, 9>>

allVars == <<part, vars, updaterVars>>

(* A step of one of the two.                                               *)
OfConfig(A) == part = "config" /\ A /\ UNCHANGED <<part, updaterVars>>
OfUpdate(A) == part = "update" /\ A /\ UNCHANGED <<part, vars>>

DownloadsInit ==
    /\ Init /\ UpdaterInit
    /\ \/ part = "config" /\ ~autoApply
       \/ part = "update"

DownloadsNext == OfConfig(Next) \/ OfUpdate(UpdaterNext)

(* The fairness of both (FairSpec and FairUpdater).                        *)
FairDownloads ==
    /\ DownloadsInit /\ [][DownloadsNext]_allVars
    /\ WF_allVars(OfConfig(Request)) /\ WF_allVars(OfConfig(Age))
    /\ WF_allVars(OfConfig(Deliver)) /\ WF_allVars(OfConfig(Join))
    /\ WF_allVars(OfUpdate(Check)) /\ WF_allVars(OfUpdate(CheckAges))
    /\ \A verb \in Verbs : WF_allVars(OfUpdate(MailArrives(verb)))
-----------------------------------------------------------------------------
(* Once the controller makes no more changes, a node ends with its last    *)
(* answer: Network::setConfiguration() or the refusal (Agrees).            *)
ConfigArrives == <>[](part = "config" => Agrees)

(* A node ends with the newest update there is for it: check() asks again  *)
(* for what is lost (UpToDate).                                            *)
UpdateArrives == <>[](part = "update" => UpToDate)
=============================================================================
