------------------------------ MODULE Updater ------------------------------
(***************************************************************************)
(* In-band software updates (service/SoftwareUpdater.cpp, and the main     *)
(* loop of service/OneService.cpp that drives it): one node asks the       *)
(* update service for the newest release, fetches its binary chunk by      *)
(* chunk, verifies it and executes it.  Messages may be lost, duplicated   *)
(* and reordered; the node may restart.  A binary is a row of units.       *)
(***************************************************************************)
EXTENDS Integers, Sequences, FiniteSets

CONSTANTS
    Releases,     \* files with a .json in update-dist.d:
                  \* [ver, fits, hashed, signed, len, dense]
    Installed,    \* ZEROTIER_ONE_VERSION_* of the node at first
    Chunk,        \* ZT_SOFTWARE_UPDATE_CHUNK_SIZE, in units
    Unit,         \* bytes in a unit
    Envelope,     \* bytes of a DATA packet that are not of the binary
    MaxSize,      \* ZT_SOFTWARE_UPDATE_MAX_SIZE, in units
    Mtu, Header, MaxFragments,  \* as in Fragmenter
    MaxMail,      \* bound: messages in flight
    MaxScans,     \* bound: times the service reads update-dist.d
    MaxMishaps    \* bound: losses, duplicates, restarts, failing writes

(* What _latestMeta is when it describes no release.                       *)
None == [ver |-> <<0, 0, 0, 0>>, fits |-> FALSE, hashed |-> FALSE, signed |-> FALSE,
         len |-> 0, dense |-> {}]

NoFile == <<>>

VARIABLES
    dist,            \* the service: _dist
    scans,
    version,         \* the node: the version that runs,
    autoApply,       \* _updateAutoApply
    checkDue,        \* _lastCheckTime is a ZT_SOFTWARE_UPDATE_CHECK_PERIOD ago
    latestMeta,      \* _latestMeta
    latestValid,     \* _latestValid
    download,        \* _download
    hashPrefix,      \* _downloadHashPrefix
    downloadLength,  \* _downloadLength
    binFile,         \* the content of latest-update.exe
    mail,            \* messages in flight
    mishaps

service == <<dist, scans>>
process == <<checkDue, latestMeta, latestValid, download, hashPrefix, downloadLength, binFile>>
updaterVars == <<service, version, autoApply, process, mail, mishaps>>

(* A new process: the constructor, which removes the file.                 *)
Constructed ==
    /\ checkDue' = TRUE
    /\ latestMeta' = None /\ latestValid' = FALSE
    /\ download' = <<>> /\ hashPrefix' = None /\ downloadLength' = 0
    /\ binFile' = NoFile

UpdaterInit ==
    /\ dist = {} /\ scans = 0
    /\ version = Installed /\ autoApply \in BOOLEAN
    /\ checkDue = TRUE
    /\ latestMeta = None /\ latestValid = FALSE
    /\ download = <<>> /\ hashPrefix = None /\ downloadLength = 0
    /\ binFile = NoFile
    /\ mail = {} /\ mishaps = 0

(***************************************************************************)
(* Versions, binaries and messages.                                        *)
(***************************************************************************)

(* _compareVersion() > 0: major, minor, revision, build.                   *)
Newer(a, b) ==
    \E i \in 1..4 : a[i] > b[i] /\ \A j \in 1..(i - 1) : a[j] = b[j]

(* The units of a binary, and of its chunk from index idx on.              *)
Binary(r) == [i \in 1..r.len |-> <<r, i>>]

ChunkUnits(r, idx) == IF r.len - idx < Chunk THEN r.len - idx ELSE Chunk

ChunkAt(r, idx) == [i \in 1..ChunkUnits(r, idx) |-> <<r, idx + i>>]

GetLatest(v) == [verb |-> "GET_LATEST", ver |-> v]
Latest(r) == [verb |-> "LATEST", rel |-> r]
GetData(r, idx) == [verb |-> "GET_DATA", rel |-> r, idx |-> idx]
Data(r, idx) == [verb |-> "DATA", rel |-> r, idx |-> idx]

(* The number of pieces of a packet of n bytes (Fragmenter, TotalExact).   *)
Pieces(n) == IF n <= Mtu THEN 1 ELSE 1 + (n - Mtu + Mtu - Header - 1) \div (Mtu - Header)

(* A message reaches the other end's handler unless its packet is in more  *)
(* pieces than a receiver takes.  Packet::compress() makes short of a      *)
(* chunk what it can: of a dense one, nothing.                             *)
Receivable(m) ==
    m.verb = "DATA" /\ m.idx \in m.rel.dense
        => Pieces(Envelope + Unit * ChunkUnits(m.rel, m.idx)) <= MaxFragments

(***************************************************************************)
(* The service.                                                            *)
(***************************************************************************)

(* setUpdateDistribution(): what is in update-dist.d now, if the hash in   *)
(* its .json is right.                                                     *)
SetUpdateDistribution(files) ==
    /\ scans < MaxScans /\ scans' = scans + 1
    /\ dist' = {r \in files : r.hashed}
    /\ UNCHANGED <<version, autoApply, process, mail, mishaps>>

(* The newest of what suits the node (platform, architecture, vendor,      *)
(* channel, signer) and is newer than what it has.                         *)
BestFor(v) ==
    LET suits == {r \in dist : r.fits /\ Newer(r.ver, v)}
    IN {r \in suits : \A s \in suits : ~Newer(s.ver, r.ver)}

Mishap == mishaps < MaxMishaps /\ mishaps' = mishaps + 1

(* A message arrives, perhaps not for the last time, and is answered.      *)
Delivered(m, answers) ==
    \/ mail' = (mail \ {m}) \cup answers /\ UNCHANGED mishaps
    \/ mail' = mail \cup answers /\ Mishap

(* VERB_GET_LATEST and VERB_GET_DATA: at most one message in return.       *)
Answers(m) ==
    IF m.verb = "GET_LATEST"
      THEN {Latest(r) : r \in BestFor(m.ver)}
      ELSE {Data(r, m.idx) : r \in {d \in dist : d = m.rel /\ m.idx < d.len}}

ServiceGets(m) ==
    /\ m.verb \in {"GET_LATEST", "GET_DATA"}
    /\ \/ \E a \in Answers(m) : Delivered(m, {a})
       \/ Answers(m) = {} /\ Delivered(m, {})
    /\ UNCHANGED <<service, version, autoApply, process>>

(***************************************************************************)
(* The node.                                                               *)
(***************************************************************************)

(* VERB_GET_DATA for what comes next, if something is missing.             *)
NextChunk(r, have, length) == IF have < length THEN {GetData(r, have)} ELSE {}

BugNodeGetsLatest(m) ==
    LET r == m.rel
        heard == Newer(r.ver, version) /\ r.len <= MaxSize
    IN /\ m.verb = "LATEST"
       /\ IF heard /\ latestMeta # r
            THEN /\ latestMeta' = r /\ latestValid' = FALSE /\ binFile' = NoFile
                 /\ UNCHANGED download /\ hashPrefix' = r /\ downloadLength' = r.len
            ELSE UNCHANGED <<latestMeta, latestValid, binFile,
                             download, hashPrefix, downloadLength>>
       /\ Delivered(m, IF heard THEN NextChunk(hashPrefix', Len(download'), downloadLength') ELSE {})
       /\ UNCHANGED <<service, version, autoApply, checkDue>>

(* VERB_LATEST: news start a download from nothing; the same release again *)
(* asks for the next chunk.                                                *)
NodeGetsLatest(m) ==
    LET r == m.rel
        heard == Newer(r.ver, version) /\ r.len <= MaxSize
    IN /\ m.verb = "LATEST"
       /\ IF heard /\ latestMeta # r
            THEN /\ latestMeta' = r /\ latestValid' = FALSE /\ binFile' = NoFile
                 /\ download' = <<>> /\ hashPrefix' = r /\ downloadLength' = r.len
            ELSE UNCHANGED <<latestMeta, latestValid, binFile,
                             download, hashPrefix, downloadLength>>
       /\ Delivered(m, IF heard THEN NextChunk(hashPrefix', Len(download'), downloadLength') ELSE {})
       /\ UNCHANGED <<service, version, autoApply, checkDue>>

(* VERB_DATA: only the chunk that continues what is there.                 *)
NodeGetsData(m) ==
    LET expected == /\ Receivable(m)
                    /\ downloadLength > 0 /\ hashPrefix = m.rel
                    /\ m.idx = Len(download)
    IN /\ m.verb = "DATA"
       /\ download' = IF expected THEN download \o ChunkAt(m.rel, m.idx) ELSE download
       /\ Delivered(m, IF expected THEN NextChunk(hashPrefix, Len(download'), downloadLength) ELSE {})
       /\ UNCHANGED <<service, version, autoApply, checkDue, latestMeta, latestValid,
                      hashPrefix, downloadLength, binFile>>

(* The first half of check(): ask what is newest once in a period.         *)
Asks == IF checkDue THEN {GetLatest(version)} ELSE {}

(* apply(): the binary takes the place of the process, and what it         *)
(* installs is started; or it cannot be executed and the process exits.    *)
Apply(image) ==
    /\ Constructed
    /\ \/ version' = image[1][1].ver /\ UNCHANGED mishaps
       \/ UNCHANGED version /\ Mishap

(* check() with nothing more to do than to ask: nothing to download, or a  *)
(* verified update that is not to be applied.                              *)
CheckIdle ==
    /\ latestValid \/ downloadLength = 0
    /\ mail' = mail \cup Asks
    /\ checkDue' = FALSE
    /\ UNCHANGED <<service, version, autoApply, latestMeta, latestValid, download,
                   hashPrefix, downloadLength, binFile, mishaps>>

(* check() with a download that is not complete asks again for what comes  *)
(* next.                                                                   *)
CheckDownload ==
    /\ ~latestValid /\ downloadLength > 0 /\ Len(download) < downloadLength
    /\ mail' = mail \cup Asks \cup {GetData(hashPrefix, Len(download))}
    /\ checkDue' = FALSE
    /\ UNCHANGED <<service, version, autoApply, latestMeta, latestValid, download,
                   hashPrefix, downloadLength, binFile, mishaps>>

(* The hash and the signature of what was downloaded.                      *)
Verified == download = Binary(latestMeta) /\ latestMeta.signed

BugCheckComplete ==
    /\ ~latestValid /\ downloadLength > 0 /\ Len(download) >= downloadLength
    /\ mail' = mail \cup Asks
    /\ \/ /\ Verified /\ autoApply
          /\ Apply(download)
       \/ /\ Verified /\ ~autoApply
          /\ checkDue' = FALSE
          /\ latestValid' = TRUE /\ binFile' = download
          /\ download' = <<>> /\ downloadLength' = 0
          /\ UNCHANGED <<version, latestMeta, hashPrefix, mishaps>>
       \/ /\ IF Verified THEN Mishap ELSE UNCHANGED mishaps
          /\ checkDue' = FALSE
          /\ UNCHANGED latestMeta /\ latestValid' = FALSE /\ binFile' = NoFile
          /\ download' = <<>> /\ downloadLength' = 0
          /\ UNCHANGED <<version, hashPrefix>>
    /\ UNCHANGED <<service, autoApply>>

(* check() with all of it: verified and written, or given up.              *)
CheckComplete ==
    /\ ~latestValid /\ downloadLength > 0 /\ Len(download) >= downloadLength
    /\ mail' = mail \cup Asks
    /\ \/ /\ Verified /\ autoApply
          /\ Apply(download)
       \/ /\ Verified /\ ~autoApply
          /\ checkDue' = FALSE
          /\ latestValid' = TRUE /\ binFile' = download
          /\ download' = <<>> /\ downloadLength' = 0
          /\ UNCHANGED <<version, latestMeta, hashPrefix, mishaps>>
       \/ /\ IF Verified THEN Mishap ELSE UNCHANGED mishaps
          /\ checkDue' = FALSE
          /\ latestMeta' = None /\ latestValid' = FALSE /\ binFile' = NoFile
          /\ download' = <<>> /\ downloadLength' = 0
          /\ UNCHANGED <<version, hashPrefix>>
    /\ UNCHANGED <<service, autoApply>>

(* The main loop calls check() about every ten seconds.                    *)
Check ==
    /\ Cardinality(mail) < MaxMail
    /\ CheckIdle \/ CheckDownload \/ CheckComplete

CheckAges ==
    /\ ~checkDue /\ checkDue' = TRUE
    /\ UNCHANGED <<service, version, autoApply, latestMeta, latestValid, download,
                   hashPrefix, downloadLength, binFile, mail, mishaps>>

NewProcess ==
    /\ Mishap /\ Constructed
    /\ UNCHANGED <<service, version, autoApply, mail>>

MailLost ==
    /\ Mishap /\ \E m \in mail : mail' = mail \ {m}
    /\ UNCHANGED <<service, version, autoApply, process>>

Verbs == {"GET_LATEST", "LATEST", "GET_DATA", "DATA"}

MailArrives(verb) ==
    \E m \in mail : m.verb = verb /\ (ServiceGets(m) \/ NodeGetsLatest(m) \/ NodeGetsData(m))

UpdaterNext ==
    \/ \E files \in SUBSET Releases : SetUpdateDistribution(files)
    \/ \E verb \in Verbs : MailArrives(verb)
    \/ Check \/ CheckAges \/ NewProcess \/ MailLost

UpdaterSpec == UpdaterInit /\ [][UpdaterNext]_updaterVars

(* The loop goes round, and what is in flight and not lost arrives.        *)
FairUpdater ==
    /\ UpdaterSpec /\ WF_updaterVars(Check) /\ WF_updaterVars(CheckAges)
    /\ \A verb \in Verbs : WF_updaterVars(MailArrives(verb))
-----------------------------------------------------------------------------
(* What SoftwareUpdater has downloaded is at every time the beginning of   *)
(* the release that was announced last, whatever chunks come late, twice   *)
(* or of another release; what it declares valid is all of a signed        *)
(* release; and neither is older than what runs, also when an announcement *)
(* arrives after the update it made.                                       *)
ImageSound ==
    /\ downloadLength > 0 =>
         /\ latestMeta # None /\ hashPrefix = latestMeta
         /\ downloadLength = latestMeta.len /\ Len(download) <= downloadLength
         /\ \A i \in 1..Len(download) : download[i] = <<latestMeta, i>>
    /\ latestValid =>
         latestMeta # None /\ binFile = Binary(latestMeta) /\ latestMeta.signed
    /\ latestMeta # None => Newer(latestMeta.ver, version)

(* A release that a node can use, if it gets it.                           *)
Usable(r) == r.signed /\ r.len \in 1..MaxSize

(* Once update-dist.d changes no more, a node ends with the newest release *)
(* there is for it, running or ready: check() asks again for what is lost. *)
UpToDate ==
    \A r \in BestFor(version) : Usable(r) => ~autoApply /\ latestValid /\ latestMeta = r

EndsUpToDate == <>[]UpToDate
=============================================================================
