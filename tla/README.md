# ZeroTier One: a TLA+ model of the network core

TLA+ modules for the parts of ZeroTier One in which threads, timers, files and
unreliable delivery meet (`node/`, `controller/`, and the service's updater and
sockets), TLC configurations that check them on small instances, and TLAPS proofs
of the most important facts for every instance. `PROJECT.json` lists components,
runs, mutants, hazards, findings and theorems, and names the source lines behind
every definition.

    tlc -workers 2 -config MCSwitchRx.cfg MCSwitchRx     # a run
    tlapm SwitchProofs.tla                               # the proofs of a module

## 1. The system

| Part | State | Operations | Module |
|---|---|---|---|
| Switch, receiving (`Switch.cpp`, `IncomingPacket.cpp`) | `_rxQueue`, 32 slots | fragments, heads, whole packets, retries when an identity arrives | `RxQueue`, `Switch` |
| Switch, WHOIS | `_outstandingWhoisRequests` | request, retry, give up, answered | `Switch` |
| Switch, sending | `_txQueue` | `send()`, timer run, identity arrives | `Switch` |
| Switch, fragmenting | local variables | head, fragments | `Fragmenter` |
| Peer and Path | `_v4Path`, `_v6Path`, time stamps | packet received, path learned, redirect, reset, choice of path | `PeerPaths` |
| Keepalive (`Peer`, `Node`) | time stamps at both ends | periodic check, ECHO and OK, frames, relaying | `Keepalive` |
| Expected replies (`Node.hpp`) | a ring per bucket | note, look up | `Replies` |
| Topology, World | planet, moons, seeds, upstreams, peers, files | worlds from the network, orbit, deorbit, housekeeping, restart | `Topology` |
| Multicaster | members of a group, waiting multicasts | like, announce, send, clean | `Multicast` |
| Network, rules | rule lists, tags | both filters, TEE, REDIRECT | `Rules` |
| Network, configuration | `_incomingConfigChunks`, `_config`, `_netconfFailure`, file | request, part, error, restart, join, leave | `Network` |
| Membership | `_com`, thresholds, tags, revocations | credentials, revocations, flooding | `Membership` |
| CertificateOfMembership | none | `agreesWith()` | `ComAgreement` |
| Controller | `_queue`, `_memberStatus` | API calls, requests, workers | `Controller` |
| Controller, addresses, and JSONDB | members' records and files, summary | assignment, save, erase, summary thread | `Allocation` |
| SoftwareUpdater, both ends | `_dist`; `_latestMeta`, `_download`, file | scan, the four verbs, check, apply | `Updater` |
| Binder | `_bindings`, `_bindingCount` | refresh, close, send from a socket | `Binder` |
| SelfAwareness | external addresses | `iam()` | only the reset, in `PeerPaths` |
| Cryptography, containers, tracing, the rest of `osdep/` and `service/` | | | none, see section 8 |

How they interact. One main thread of `OneService` reads the UDP sockets
(`Switch::onRemotePacket`), serves the HTTP API, refreshes the sockets, looks for
updates and calls `Node::processBackgroundTasks`. Tap threads and controller
workers call `Switch::send()` at any time. Each component guards its own state
with a mutex. A packet from an unknown node waits in `_rxQueue`, a packet to one
in `_txQueue`, and both wait for a WHOIS that an upstream answers, one of the
roots that `Topology` takes from planet and moons. `Peer` chooses the path,
`Keepalive` keeps it open and `Binder` has its socket. Over these packets a member
asks the controller for its `Network` configuration, and members show each other
the credentials that `Membership` judges; then frames pass the `Rules` at both
ends, or go to a group through `Multicast`.

What is hard here: fragments in any order, twice or never, over slots that are
reused; state looked at under one mutex, or none, and used under another
(`send()`, the controller's workers, the sockets); clocks read by two threads;
lookups, heartbeats and requests that must neither stop too early nor go on for
ever; configurations and updates that arrive in parts and out of order;
revocations that race the credentials they revoke; files and memory that are
changed one after the other. `PROJECT.json` lists these hazards by line.

## 2. Modules and the code behind them

**`RxQueue`** holds the operators on one entry and on the slots of `_rxQueue`:
finding a slot (`Finds`, with the time-out sweep), starting an entry with a
fragment or a head, adding to it, assembling. Time stamps are ages capped at
`MaxAge`. Wire fragments may be one more than a receiver accepts.

**`Switch`** has one variable per field of the class, and one action per handler
and per critical section: `RecvFragment`, `RecvHead`, `RecvWhole`, `RecvHello`
and `RecvOkWhois` (which start `doAnythingWaitingForPeer`: `CancelWhois`,
`DecodeWaiting`, `SendWaiting`, one for each of the three mutexes), `TimerStart`,
`TimerWhois` and `TimerTx` (`doTimerTasks`), `SendStart`, `SendWhois` and
`SendPush` (`send()` on a sender thread), `Tick`. HELLO makes a peer known
without a call of `doAnythingWaitingForPeer`, as in the code. Decryption in place
is the flag `plain` of a packet. Housekeeping, in `TimerStart`, may forget any peer
that is no upstream: it was silent for long enough.

**`Reassembly`** is the abstract specification: packets are delivered whole, in
order, from datagrams that arrived, and none is used twice. `Switch` implements
it under the mapping of `held` to the datagrams in its slots.

**`Fragmenter`** is the arithmetic and the loop that cuts a packet, with the four
bits of a fragment header.

**`PeerPaths`** is one peer: `RecvOther`, `RecvDirect` (`Peer::received`),
`Redirect`, `Reset`, `Tick`, and `GetBestPath` as an operator. `target` and
`silenced` are history variables.

**`Keepalive`** is one path seen from both ends, in ticks. `Check` is
`doPingAndKeepalive`, at most `MaxWait` ticks after the one before; `SendFrame` and
`RelayFrame` are a frame over the path or, where it is seen dead, by a relay;
`Interval` is a tick. `calm` and `steady` are history variables.

**`Replies`** is one bucket of the ring of expected replies. Reading its pointer
and writing it back are two steps, as no lock is held.

**`Topology`** (the seeds are a set: which of several that fit a moon is used up
first is left open) has the two mutexes as `holder`, and each thread at an operation
(`addWorld`, `addMoon`, `removeMoon`, `doPeriodicTasks`, `getUpstreamPeer`,
`addPeer`) that takes them in the code's order. Worlds are stored and read as
`OneService` does it (`embedder` `"OneService"`) or as `ZeroTierOne.h` asks of an
embedder (`"contract"`). A crash may come between the change and the file.

**`Multicast`** is one group of one network at one node: the members with their
ages, `Learn` and `Announce` (`_add()`, which also sends what waits), `Unlike`,
`SendOut` with its four sources of recipients (bridges, the list, explicit
gathering, later learning), and `Clean`. Lists are sets, as the order of members is
a random permutation in the code. `got` counts the sends to each peer, `announced`,
`lost` and `listed` follow one subscriber's announcements.

**`Rules`** evaluates rule lists as `_doZtFilter()` walks them (`FilterStep` over the
list, `thisSetMatches` and `superAccept` in its state), and lets a frame go from S
to D with copies to T. Matches are told apart by how their outcome can differ
between the ends: the source and the sender's tag, for one, are others for a copy
that D sends on to T than for one that S makes. `Meaning` is the reference: sets of matches with an action
each.

**`Network`** is a member's side of configuration with the controller as its
environment. Of a slot's data it keeps which parts the current update wrote, of
the ids only which are equal. `ts` counts parts, as in the code.

**`Membership`** is what the nodes of a network hold about one member: its
certificate, one tag (capabilities and certificates of ownership go through the
same template) and the thresholds; `RecvRevocation` contains the forwarding. A
node takes any configuration but the one it has (`NewConfig`), also an older one. The
controller of this repository revokes certificates of membership; revocations of
other types, which the nodes handle, are the environment's. The module
EXTENDS **`ComAgreement`**, which has `agreesWith()` and, as a reference, the
agreement its comment describes.

**`Controller`** has the API calls (`Post...`, in a read and a write step), the
queue, and workers that read, note, answer and save a copy of a member's record.

**`Allocation`** is the assignment of IPv4 addresses: `Request` reads record and
summary, `WriteRaw` and `Store` are the two halves of a save, `TakeToDo` and
`Summarize` the summary thread. `calm`, `torn` and `lapsed` are history variables.

**`Updater`** has the update service (`SetUpdateDistribution`, `ServiceGets`) and a
node (`NodeGetsLatest`, `NodeGetsData`, `Check`, `Restart`). `Check` is one turn of
the main loop with `check()` and, if updates are applied by themselves, `apply()`.
A binary is a row of units, and a chunk some of them; a chunk that does not
compress (`dense`) arrives only if its packet has few enough fragments.

**`Binder`** cuts `refresh()` where a thread without the lock can tell: the count
is set to zero, a binding is copied, counted, cleared, closed, opened, entered,
counted. `Send`, `Scan`, `DoubleCheck` and `UdpSend` are a sender.

`MCController`, `MCPeerPaths`, `MCParts` and `MCDownloads` EXTEND the components that
answer a common question in one run, so that the definitions that are checked are
the ones that are proved: a variable `part`, or an idle state, says which of them a
behaviour is about, and the others stay as they are.

## 3. Runs

| Run | States | What it shows |
|---|---|---|
| `switch_rx` | 1,310,495 | Two fragmented packets, with a duplicated fragment, and a whole one compete for two slots. Slots hold fragments of one packet only and know which (`SlotsSound`), no packet has two entries (`OneEntryPerPacket`), eviction takes the oldest (`EvictsOnlyOldest`), waiting packets are not lost as long as what they wait for is their sender's identity (`WaitingNotLost`; the run `deferred` is the other case), and `Switch` implements `Reassembly` (`ReassemblySpec`). |
| `switch_tx` | 59,986 | Two threads send to a node that is looked up. No packet is lost or sent twice (`TxConserved`), each is sent or given up (`TxResolved`), and lookups end (`WhoisQuiesces`). |
| `controller` | 516,419 | One member, two workers, two API calls: `OnlyAllowedServed`, `PushShowsChange`, `UpdateReaches`. Three nodes in a ring, revocations of a tag and of a certificate: revocations win, for certificates of membership as long as only those are revoked (`RevocationEffective`; the run `com_revocation` is the mixed case), credentials never get older (`NewestKept`), floods end (`FloodEnds`), admission implies agreement for certificates with the qualifiers this controller issues (`AllowedAgrees`). |
| `parts` | 1,829,202 | See below. |
| `peer_paths` | 6,118,608 | Two IPv4 paths of different rank and one IPv6 path: `LrMeansPath`, `RedirectSticks`, `ResetSilences`, `LivePathStays`. A path seen from both ends with the times of the code: while one end takes the other to be active it stays alive at both, although frames may go one way only and a datagram is lost now and then (`KeptAlive`). |
| `downloads` | 184,033 | A configuration in parts, two slots and one fault (loss, duplicate, restart or leaving): `AssembledWhole`, `NoReplay`, `ConfigArrives`. An update in chunks, three releases of which one has a bad signature, one mishap (loss, duplicate, restart, failing write): what was downloaded is the beginning of one release and never a step back (`ImageSound`), and the newest release that can be used is reached (`UpdateArrives`). |
| `timeout` | violation | A packet can be dropped as timed out when it has just been queued. |
| `deferred` | violation | A packet left for later because of its credentials' issuer is discarded at the second try. |
| `com_revocation` | violation | A later revocation of a tag can lower the threshold of a revoked certificate. |
| `locks` | violation | Two threads in `Topology` wait for each other's lock. |
| `moons_lost` | violation | A stored moon is not in force after a restart. |
| `update_stuck` | violation | A chunk that does not compress is asked for without end. |

The run `parts`:

- `Fragmenter`, constants of the code, all sizes within two bytes of a boundary:
  the pieces make the packet (`Reassembles`) and up to the exact limit there are no
  more than a receiver takes (`ReceiverTakesAll`).
- `Topology`: memoized upstreams are exact and their peers stay (`UpstreamsExact`), a
  world is never replaced by an older one (`WorldsNeverBack`), a moon that was left
  does not come back with a late answer (`DeorbitSticks`).
- `Multicast`: nobody is sent a multicast twice and the limit holds (`SentOnce`),
  a waiting multicast has gone to all who are listed and ends (`QueueSound`), and a
  subscriber stays listed although some of its announcements in a row are lost,
  two in this run (`StaysListed`).
- `Rules`: the walk over a list gives what its sets mean (`FilterMeaning`); the two
  ends agree wherever the rules and the capability do not look at what differs
  between them, the target of a copy takes it unless the rules look at what changed
  on its way, and the sender is not stricter before it knows the receiver's tags
  (`EndsAgree`).
- `Allocation`: two members share an address only if one of the two was last
  assigned it while a save or the summary was under way (`ClashNeedsHaste`), files follow the records unless a
  write failed or two saves of a member overlapped (`FileFollows`).
- `Replies`: the packets noted most recently are expected (`RecentExpected`).
- `Binder`: a sender that reads the table without the lock uses only a socket that
  was open during its call, and between refreshes table and open sockets are the
  same but for those lost at the limit (`SocketsSound`).

Every property of a passing run has a mutant in `PROJECT.json`: a definition
named `Bug...` that stands for a plausible mistake in the code (a missing reset, a
dropped comparison, a swapped order) and makes TLC report that property.

## 4. Findings

The six violations are disagreements of the code with its own comments and
documentation, with the lines quoted in `PROJECT.json`.

- `timeout`. `doTimerTasks(tPtr, now)` subtracts an entry's `creationTime` from a
  `now` read before the run began. A sender thread may have stamped the entry
  later; the unsigned difference is then huge and the packet is dropped at once.
- `deferred`. `tryDecode()` returns false for "try again" after it has decrypted
  the packet in place; the second `dearmor()` of the same bytes fails. The model
  needs a credential whose signer is unknown.
- `com_revocation`. `Membership::addCredential(Revocation)` assigns
  `_comRevocationThreshold` also for a revocation of another type, and without a
  comparison.
- `locks`. `getUpstreamPeer()` and `doPeriodicTasks()` lock `_peers_m` and then
  `_upstreams_m`, `addWorld()` and `removeMoon()` the other way round
  (`Topology.cpp:158`, `380`, `263`, `352`). A tap's thread that sends by an upstream
  and the main thread that takes the world of an OK(HELLO) can each get their first
  lock, and then neither call returns (`CallsReturn`).
- `moons_lost`. `nodeStateGetFunction()` prints the pointer `id` and not `id[0]` into
  the name of the file (`OneService.cpp:2126` and `2132`), so that stored moons and
  configurations are not found. With `embedder` `"contract"` the property holds.
- `update_stuck`. A full chunk of 9980 bytes makes a packet of 10037, and seven
  pieces hold 10012. If LZ4 does not save 25 bytes, which it does not in a part
  of a binary that is compressed already, the packet goes out in eight pieces and
  is ignored by the receiver.

Met while modelling, and not stated as a run:

- The last address of a pool of two or more is never assigned
  (`EmbeddedNetworkController.cpp:1685`), although `controller/README.md:123` calls
  it inclusive.
- An address on a route with a gateway is accepted by the search and does not count
  as assigned afterwards (lines 1693 and 1588), so each request adds one.
- The addresses of a member that is no longer authorized leave the summary and may
  be given to another one while its record keeps them.
- The constructor of `JSONDB` calls `_load()` with `_networks_m` locked
  (`JSONDB.cpp:79`), and `_add()` locks it again (lines 463 and 471). The mutex is
  not recursive with pthreads, so a start with a stored network or member does not
  come to an end; with a Windows critical section there is no problem.
- Nothing calls `Network::clean()`, although `Constants.hpp:217` says it is called
  every `ZT_HOUSEKEEPING_PERIOD`: credentials that are out of date stay in memory.
  (They do not count, as `TagUsable` shows.)
- `superAccept` makes tag matches true for DROP and under NOT as well, and so does
  an unknown remote tag on the sending side: rules that drop by tags act only
  when the tag is known. `EndsAgree` says where it does not matter.
- A release with a bad signature that is the newest is fetched again and again, and
  hides an older good one (`Usable` in `UpToDate`).
- A socket bound when the table is full is neither used nor closed
  (`Binder.hpp:373`). `isUdpSocketValid()` may say yes of a socket that has been
  closed meanwhile.
- `HELLO` makes a peer known without a call of `doAnythingWaitingForPeer()`,
  which `Switch.hpp:121` says is called when a peer becomes known. The packets
  wait for the timer or for the answer to the WHOIS.
- `_sendWhoisRequest()` returns the null address in every case, so `peersConsulted`
  stays without effect.
- `agreesWith()` reads the other certificate's value at its own index
  (`CertificateOfMembership.cpp:189`), which is another qualifier's value when
  the other certificate has an additional qualifier before it. The certificates
  this controller issues all have the same ones.
- `getNetworkAndMember()` gives no network for an unknown member, so the first
  request to a public network is refused and the second one served.

## 5. Bounds

Ages are capped one above the largest constant the code compares them with, so
capping merges no two states that the code can tell apart.

- `switch_rx`: two slots and three packets are the smallest case with an eviction
  among partly filled slots; three fragments allow one to come before the head
  and one after it; one fragment has a second copy; `WireFragments` is above
  `MaxFragments` so that the refusal of fragments is reached.
- `switch_tx`: two senders race each other and the main thread; two retries and a
  time-out of two delays let a lookup be retried, given up and restarted; `MaxLag`
  of one tick is a timer run that is slower than the clock.
- `controller`: two workers race with the API on one member, and two API calls allow
  an authorization and a change after it. Three nodes in a one-way ring make a
  cycle and an indirect way for a revocation; only `c` meets the member, the others
  only forward; two times stand for before and after a revocation.
- `peer_paths`: two paths compete in one family, the other family has one; `Alive`
  and `Expiration` differ. The path seen from both ends has the times of the code
  in check intervals of five seconds, `PathAlive` rounded down and the others up, but
  for `PathExpiration` (13 for 49). That one, like `PingPeriod`, is compared only with
  the age of the last packet received, which stays at most `PathAlive` for as long as
  `steady` is true, so it does not matter to the property. `MaxWait` 1 is a check in
  every interval. An instance with ticks of one second, an activity timeout of
  60 of them and losses 25 apart, restricted to `steady` states, agrees, and the theorem of section 7 covers the
  milliseconds of the code. `LossGap` 5
  lets a datagram be lost every 25 seconds. With losses 20 seconds apart TLC finds
  a path that dies at one end, because frames that are sent (and may be lost) put
  off the ECHOs that would have been answered.
- `parts`, `Topology`: two threads; two versions of the planet, the second with this
  node as a root; two of a moon.
- `parts`, `Multicast`: three peers (a bridge, one that announces itself, another one)
  and a limit of two, so that the limit cuts off; two multicasts. Entries live
  for seven ticks and announcements are at most two apart, so that the third one in
  a row is the last that comes in time.
- `parts`, `Rules`: no rules, two sets of one match, and one set of two with a further action
  behind it, over all kinds of match, AND, OR, NOT and all actions.
- `parts`, `Allocation`: two members whose search begins at the same address, a pool
  from 254 to 257 of which two can be assigned (255 is not usable), one worker with
  the API and two workers without. Three members who compete for one address, with
  two workers and an API call, were checked once (13.9 million states).
- `parts`, `Replies`: three slots, six values of the pointer, so that it wraps around.
- `parts`, `Binder`: three addresses for two places, so that the table can be full,
  and four sockets to fill both places twice, which is what leaves old entries
  behind.
- `downloads`, configuration: revision 1 has two parts, revision 2 is unsigned and in
  one part, and two updates may be in flight, for as many slots. One fault is enough
  to repeat, lose or restart in the middle of an update.
- `downloads`, update: a chunk is two units of 4990 bytes, so a release of three has a
  full and a shorter chunk with the sizes of the code; two messages in flight; the
  directory is read twice. Two mishaps with the same releases were checked once
  (177,382 states of the updater alone).

## 6. Fairness

- `Switch` (`switch_tx`): time passes, the threads finish what they began, and
  background runs start again and again (strong fairness of `TimerStart`, because
  the main thread has other work in between and turns to the timer in each turn
  of its loop). Nothing is assumed about answers or incoming packets.
- `Membership`: revocations in flight arrive; none is lost, and `RevocationEffective`
  depends on it. `FloodEnds` needs no more, and a lost message would only shorten
  the flood.
- `Controller`: workers and API calls go on, members ask again and again (each
  member's own timer), and the minimum period between requests passes.
- `Network`: what is not lost arrives, a configuration gets old, one that is due is
  asked for, and a node that has left joins again. Losses are bounded. The guard
  of `Request` that no answer is in flight stands for the five seconds between
  requests; without it TLC finds two answers that throw each other out of the
  slots for ever, since `ts` does not say which slot is older.
- `Updater`: the main loop goes round, the check period passes, and a message of each
  kind that is not lost arrives. Mishaps are bounded. `Check` waits until there is
  room in flight, which stands for its ten seconds.

The other modules are checked for safety only.

## 7. Proofs

Every safety property of a passing run is a theorem, for every value of the
constants that satisfies the named assumption of its module.
An assumption says no more than that numbers are numbers, names are distinct
and functions have their domains, except for these, which the code's constants
satisfy:

- `FragmenterAssumption`: a fragment has room for data, and the largest buffer needs
  at most 15 pieces, what four bits can number.
- `RepliesAssumption`: the pointer's range is a multiple of the ring's size (256
  and 32 in the code).
- `PathAssumption`: the path timeout is not above the expiration.
- `KeepaliveAssumption`: with `Punctual` the longest time between two packets of a node
  that keeps the path, and `Late` one check more, `Punctual + Late` is at most the
  path timeout (18999 + 23999 and 45000 ms), `3 * Late` is less than the activity
  timeout (500000 ms), and losses are more than `Late`, 24 seconds, apart.
- `MulticastAssumption`: one announcement more than may be lost in a row comes before
  an entry expires (4 * 125000 and 600000 ms for three losses).

Some theorems have a hypothesis of their own:

- `WaitingNeverLost`: `NeverDeferred`, that no packet needs the issuer of a credential
  after it was decrypted. The run `deferred` shows what happens otherwise.
- `RevocationsTakeEffect`: `Connected`, that every node can be reached from every other
  over the links along which revocations are forwarded. Where it is not so,
  nothing in the code brings a revocation to the other side.
- `AllowedAlwaysAgrees`: `Aligned`, that all certificates of the network have the same
  qualifiers in the same places, as those of this controller have (section 4).
- `FilterAlwaysMeans`, `EndsAlwaysAgree`: `ListsOK`, that lists of rules are finite and
  every entry is a MATCH or an ACTION with its NOT and OR bits, which is what the
  type of an entry can hold. `parts` evaluates it for its lists.
- `ImageAlwaysSound`: chunks are not empty, lengths are natural numbers.

The theorems, by module, and the inductive invariant behind them:

**`RxQueueProofs`**: lemmas on what starting, adding to, assembling and ageing an
entry preserve, whatever the slot held before.

**`SwitchProofs`**.

- `TypeCorrect`, `SlotsAlwaysSound`, `OneEntryAlways`. `IInv` is the conjunction of the
  three. The type alone is not inductive: what assembling yields is a sequence of
  datagrams only because the slot is sound; and a fragment joins its packet's entry
  because there is only one.
- `TxAlwaysConserved`. `TxInv` adds that no two threads hold the same packet; then
  the number of threads that hold it is zero or one, and every step moves a packet
  from one place to one other.

**`ReassemblyProofs`**.

- `ReassemblyImplemented` (`Switch` implements `Reassembly`), `EvictionAlwaysOldest`,
  `WaitingNeverLost`. `HoldInv` says that no datagram is in two slots, nor in a slot
  and on the wire, and that a waiting packet consists of datagrams its slot holds.
  Each handler is shown to do one of four things to a slot: leave it or find it
  expired, start it, add to it, empty it by delivery. Each of these is a step of
  `Reassembly` or a stutter, and takes no younger packet's slot.

**`NodeProofs`**.

- `UpstreamsAlwaysExact`, `DeorbitAlwaysSticks`, `WorldsNeverGoBack`. `OrbitInv` follows an `orbit()` from the call through the seed,
  the file and the moon: each of them is there only while the moon is wanted, which
  is what a late answer, a seed or a restart must not get around; and a file that was
  written well has the world in force.
- `RecentAlwaysExpected`. `RepliesInv`: going back from the pointer, the ring has the
  last numbers noted, as long as no two calls overlapped; a thread that is alone
  has the pointer to itself. The rest is arithmetic of the remainder, the pointer's
  wrap included.
- `FragmentsReassemble`, `TotalAlwaysExact`, `ReceiverAlwaysTakesAll`. In `CutInv`,
  `Progress` ties `fragStart`, `remaining` and `fno` together; `FragsRemainingExact` is
  the division rounded up, `PlaceGrows` and `PlaceNext` the layout of a packet.

**`PeerProofs`**.

- `LrAlwaysMeansPath`, `RedirectAlwaysSticks`, `ResetAlwaysSilences`, and the action
  property `LivePathAlwaysStays`. `ResetSilences` is not inductive; `SilencedWaits` (a
  silenced path in a slot has `lr` zero) is, together with the type invariant and
  the other two.
- `PathAlwaysKeptAlive`. `KeepaliveInv` has three bounds for each direction. `Prompt`:
  an end that takes the other to be active sends punctually. `Moved`: what an end
  sends makes the other answer or take it to be active, unless it was lost, and
  then the one before did. `Reached`: the same for what the other hears. One
  loss in `Late` uses up the second alternative, and the next is far enough away
  for the first one to hold again. Frames in one direction are why all three are
  needed: they put off the sender's own ECHOs, and it is the receiver that must
  then speak.
- `AlwaysSentOnce`, `QueueAlwaysSound`, `SubscriberStaysListed`. `MulticastInv`: the log of
  a multicast that waits is exactly whom it was sent to, contains all members or is
  at the limit, and numbers in the queue are distinct. So a new member is in
  no log it was not sent from, and counting the log counts the sends. A
  subscriber's entry is no older than the announcements that were lost since, plus
  the time since the last, which stays below the expiry.

**`MemberProofs`**.

- `OnlyAllowedAreServed`, `PushesShowChanges`. `ServeInv`: whatever copies the workers
  save, a record or a copy that says a member is authorized belongs to one that was
  let in; and the revision asked for by a queued push is not above the network's.
- `RevocationsTakeEffect`, the action property `NewestIsKept`. `LinkInv`: along every link
  the other end has a revocation its neighbour has, or it is under way to it
  (`Flood`); when nothing is in flight, the nodes that have it are closed under the
  links.
- `AllowedAlwaysAgrees`, from the comparison in `agreesWith()`, tuple by tuple.
- `FilterAlwaysMeans`. `Walked` says of the state of `_doZtFilter()` after n entries that it
  has not decided, `thisSetMatches` is whether the set at hand matches so far and
  `superAccept` whether a TEE or REDIRECT to this node was passed over; or that the
  first set that decides has given its result. Each kind of entry keeps it. The
  induction over the list is the least index at which it would fail (`Counting`);
  the recursive functions that define the walk and its meaning are shown to exist by
  the same argument before anything is said about them.
- `EndsAlwaysAgree`. Two walks over one list are followed side by side. `Together`
  (the sender that knows the tag, and the receiver or a sender that does not): the
  second has matched whatever the first has in the set at hand, and if it has matched
  more, the set ends in an ACCEPT; so it accepts or says the same. `Ahead`: the target
  of a copy has taken it or sent it on, or the node that made the copy has not come
  to that entry and both stand at the same set. It needs that every entry of the list
  comes out alike at both (`AllAlike`), which `CopyAlike` derives from the matches the
  list avoids: for a copy that S made more kinds of match stay the same than for
  one that D sends on. `RulesInv` says this of each frame on its way and of each that
  was taken.

**`ServiceProofs`**.

- `FileAlwaysFollows`. Unless a member is torn, at most one thread is between its file
  and its record, and it is about to store what it wrote.
- `ClashesNeedHaste`. `ClashInv`: a member that stayed authorized is so in every copy of
  its record, the summary is right or somebody is about to see to it, and of two
  members that last got an address in quiet one has lost it. An assignment in
  quiet sees a summary that has every address in use. That the search finds a free
  address first rests on the least element of a set of naturals.
- `SocketsAlwaysSound`. `BinderInv` says for each step of `refresh()` which entries of the
  table count (`Live`), that their sockets are open and all different, which socket
  is on its way in or out (`Passing`), and that a scan without the lock can come only
  to an entry that was there when the call began or was filled since.

**`DownloadsProofs`**.

- `AlwaysAssembledWhole`, the action property `NeverReplayed`. A slot does not know which
  revision its update is, so `ChunkInv` is about each part still in flight and what
  it will find: `count` is the number of parts of its own update in the slot, all of
  them written by it; and an update that was applied is whole in some slot.
- `ImageAlwaysSound`. `MailInv`: every message in flight names a release and an index
  into it, and the download and its length belong to the release in `latestMeta`;
  then a chunk that is taken continues what is there.

Only model-checked: the liveness properties (`TxResolved`, `WhoisQuiesces`, `FloodEnds`,
`UpdateReaches`, `ConfigArrives`, `UpdateArrives`), which are out of the prover's reach. Every
invariant, action property and refinement that a passing run checks is also proved.

## 8. What is left out

Simplifications within the modelled parts:

- `Switch`: the packet of a WHOIS itself always finds a path; whether a known
  peer has one is a free choice. (So `_trySend()` under `_txQueue_m`, which could
  reach `send()` again, is not followed into that lock.) Packets relayed for
  others, RENDEZVOUS, beacons and frames from the tap are not modelled.
- `Keepalive`: a relay is always there; the rate gate of ECHO counts as a loss;
  memorized paths are not tried.
- `Topology`: which upstream is best, the table of paths, trusted paths and the
  settings of physical networks.
- `Multicast`: one group; `gather()` and the credentials of groups of foreign networks.
- `Rules`: one capability; matches on the frame's fields are one kind; S owns the
  addresses in its frames, so that the two characteristics about ownership are as
  a match on the source. Left out are MATCH_RANDOM (every node draws anew, so no
  two ends agree), lengths of copies, WATCH and bridging.
- `Membership`: one member, one tag; signatures are valid; all revocations
  propagate; nothing removes a credential (section 4); a credential that is lost or deferred is one not delivered yet.
- `Network`: remote controller; parts of equal length; no fast propagation; ids of
  new updates are not among those remembered. Controllerless networks are left
  out.
- `Controller`, `Allocation`: one network; no IPv6 assignment, tokens, rules, deletion
  of the network or spray of revocations. In `Controller` memory and files agree;
  `Allocation` is about where they do not.
- `Updater`: the update command installs its release, or fails and the old process
  starts anew; the Windows branch of `apply()`, which goes on running, is left out.
  Equal hashes are equal releases. Only the update service sends chunks, although
  `handleSoftwareUpdateUserMessage()` does not look at who sent one.
- `Binder`: a UDP and a TCP socket, and the two wildcard addresses, are one each; a
  new socket is told apart from an old one (in the code it may have the address of
  one that was freed, and then is valid).

Not modelled: cryptography and identities (pure functions, taken as ideal);
containers and utilities (used as sets and functions); tap devices, routing tables,
HTTP, port mapping, the TCP fallback and the user interfaces (operating system
I/O, present as the environment); the rule compiler; tracing; the third-party code
in `ext/`, which is most of the repository's lines.

## 9. Plan

1. The locks of `Switch`: `_trySend()` under `_txQueue_m`.
2. Relaying and rendezvous in `onRemotePacket()`: hops, `_shouldUnite()`; what
   `SelfAwareness` predicts of symmetric NATs.
3. `Controller` composed with `Membership` step by step (a revocation against a
   certificate issued meanwhile) and with `Network` (controller in the same process,
   leaving against a late configuration).
4. `Hashtable` and `Dictionary` against reference definitions.
5. Proofs: a refinement of the switch's send queue to an abstract mailbox, and of
   `Network` to the atomic delivery of a configuration.
