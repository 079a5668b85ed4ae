# A verification development for the HBSD router

HBSD (`src/Software/HBSD/HBSD_DTN2`) is an external router for the DTN2 bundle
daemon, `dtnd`. `dtnd` stores and forwards bundles and speaks to the router in
XML over UDP multicast: it announces what happens ("bundle received", "link
opened", ...), and the router asks it to send, inject and delete bundles and to
open links. When two routers meet they exchange summary vectors (the list of
the bundles each has) and send what the other lacks: epidemic routing, with a
scheduling and drop policy from statistics (HBSD) when "optimization" is on.

This directory models the router in TLA+, from its start to its meetings with
another router, checks it with TLC, and proves
its main safety properties with TLAPS. Paths below are relative to
`src/Software/HBSD/HBSD_DTN2/src/`; "dtnd" is `src/Software/DTN2 External
Router/DTN2`, the environment of every model.

## 1. Inventory

Three threads run in one process: the **main** thread (`HBSD::startRouterLoop`:
one datagram after the other, each event's handler to its end), the
**PeerListener** (`PeerListener::run`: answers the summary vectors of other
routers) and the **MeDeHa** thread (`MeDeHaInterface::run`: requests of a
gateway). They share objects under semaphores: `bundlesLock`, `linksLock`,
`nodesLock`, `msgQueueLock`, `injectedRecordsLock`, `injectedMeDeHaBundlesLock`,
the statistics' locks. The build has its assertions on.

| Component | State | Operations | What makes it correct | What is hard |
|---|---|---|---|---|
| Bundle store: `Bundles`, `Bundle`, `GBOF` | `localidGBOFMap` (dtnd's id to key), `activeBundles` (key to object), `bundlesLock` | `newBundle`, `newInjectedBundle`, `addIfNew`, `expire`, `eventDelivered`, `createSV`, `compareAndSend`, drop policies | the two maps agree; capacity; no duplicate; a bundle stays until dtnd retires it; the lock is given back | `operator[]` that makes entries, returns that forget the lock, a full buffer, bundles handed over twice, both threads on the maps |
| Event handlers: `HBSD_Routing`, `Handlers` | pointers to the parts | one handler for each event of dtnd | each event leaves the parts consistent, in any order of events | order, loss and repetition of events |
| Links: `Links`, `Link` | `linkMap`, and for each link its state, `remoteEID`, `currentNode` | created, deleted, available, unavailable, opened, closed; a hello starts a session on every open link | the router's idea of a link is dtnd's; link and node point to each other | links older than the router; two links to one node; deletion |
| Nodes: `Nodes`, `Node` | `nodesList`, and for each node `activeLink` | `conditionalAdd`, `findNode`, `removeNode`, `setLink`, `clearLink` | no pointer to a deleted link | used by two threads, freed by one |
| `PeerListener` | `msgQueue` | enqueue, process | every vector is worked through, once | the payload file belongs to dtnd |
| Injection: `HBSD_Policy`, `Requester` | request counter, the maps of pending injections | `requestInjectBundle`, `addNewInjectedRequest`, `askDtndToForwardTheInjectedBundle`, and the same for MeDeHa | every injected vector is forwarded over its own link | an answer before the record, a counter without a lock |
| Scheduling: `scheduleDRAndSend`, `scheduleDDAndSend` | a map from utility to bundle | sort by utility, send | every bundle of the list is sent, best first | equal utilities, NaN |
| Statistics: `StatisticsManager` | matrix of bundles, nodes and bins; reports of each bundle | `addStatMessage`, `updateBundleStatus`, `getStatFromAxe`, the bins of elapsed time | a bundle is counted in the right bins, by reports that are current | boundaries of bins, null pointers that a lookup makes, times in whole seconds |
| MeDeHa interface | its socket, the answer being made | inject, list of nodes, is a node known, hand data on | each request is answered, and rightly | a third thread, which starts before the router has its parts or its name |
| Start-up and loop: `main`, `HBSD`, `HBSD_SAX`, `XMLTree` | `localEID`, the tree of a message | read configuration, join the group, loop, end with dtnd | no event before the parts exist | threads that start before what they use; links older than the router |
| Two routers in contact | everything above, twice, and the link | the epidemic session: vector, answer, vector, answer | a bundle gets to the other node, and to its application once | vectors, bundles and events overtake each other; breaks of the link; the end of a lifetime at any point |
| Configuration, logging, utilities | none that changes | | | |

The hazards, each at its line and with the properties that cover it, are in
`PROJECT.json`.

## 2. Plan

1. `BundleStore`, `Bundles`, `BundlesProofs`: the store and the two threads
   that share it. *Done.*
2. `Links`, `LinksProofs`: links, nodes and their pointers. *Done.*
3. `Injection`, `InjectionProofs`: request numbers, pending records, the three
   threads and dtnd's answers. *Done.*
4. `Statistics`, `StatisticsProofs`: versions and bins of a bundle, reports,
   averages, and the two schedulers with the utilities they make of them.
   *Done.*
5. `NodeDirectory`, `Gateway`, `GatewayProofs`: the start of a router and the
   MeDeHa thread, which uses what the others share from the first moment.
   *Done.*
6. `Epidemic`, `Session`, `SessionProofs`, `EpidemicProofs`: two nodes, each a
   dtnd and a router, and the exchange of vectors and bundles between them.
   *Done.*
7. Proofs of every safety property and of every refinement that the runs check,
   with `Datagrams`, what `LinksProofs` and `GatewayProofs` need to know of a
   queue of datagrams. *Done.* The four liveness properties stay model-checked.

Each detailed module is proved type correct and to keep its safety invariants;
where there is an abstract statement (`BundleStore`, `NodeDirectory`,
`Epidemic`) it is shown to implement it.

## 3. The modules and the code

### BundleStore and Bundles

`Bundles` has the store's two maps as functions, `NONE` for no entry. An entry
that `operator[]` makes by accident is there as `EMPTY`. A `Bundle` object is
named by the local id it was made with. `conf` is what `HBSD.conf` said: one of
`Configured`, chosen in the initial state and never changed.

| Code | Module |
|---|---|
| a stretch of a handler between `getBundlesLock` and `leaveBundlesLock` | one step of the main thread, enabled while `bundlesLock = "free"` |
| `compareAndSend` | `PeerLock`, one `PeerSend` per request, `PeerReply`; the lock is taken throughout |
| `newBundle`: check, then `addIfNew` | `HandleReceived`, then one of the `Add...` actions |
| `expire`: three ways out | `ExpireUnknown`, `ExpireStale`, `ExpireStored` |
| the full buffer: three ways | `AddFullDropLast` (waits for its own lock), `AddFullOptimized` (null pointer), `AddFullUnknownPolicy` |
| dtnd | `DtndAccept` (with the events of each kind of bundle in dtnd's order), `DtndExpire`, `DtndDelete`, `DtndRestart`, `DtndHello` |
| the UDP socket | `events`, a queue; `LoseEvent` drops the oldest |

`BundleStore` is what the store promises: keys enter for an announced bundle
while there is room and leave for a retired bundle only. `StoreSpec` says that
`Bundles` implements it, with `Buffered` (the keys that have an object) for its
set and dtnd's view of the bundles for their life.

### Links

One action per link event, with the whole handler in it. A link is named by its
id, a node by its EID; a pointer to an object that was deleted becomes `FREED`,
and `currentNode`, which the constructor does not set, starts `WILD`. A
`stateChange` on a link whose node was freed either ends the process
(`UseFreedNode`) or goes on with any node's memory (`Cleared`). The PeerListener
finds a node, then its link, then uses both (`PeerFindNode`, `PeerGetLink`,
`PeerUse`), and the main thread may delete them in between. dtnd creates, opens,
closes and deletes links, in the order its own queue gives the events
("unavailable" before "closed" when a contact breaks), and tells of each bundle
it sends over a link ("transmitted"). A contact that ends in the middle of a
bundle (`Stops`) leaves one more such event at the tail of dtnd's queue
(`unsent`), so that it may be told after the deletion of the link; `tooLate` is
the history of those. The router only looks the link up (`HandleTransmitted`),
but the lookup of an unknown link leaves a null entry. `network`, one of
`Networks` and fixed from the start, says which node each link leads to, which
links dtnd may delete, which it had before the router started and never
announces (`early`), and over which bundles go (`mayCarry`), so that they may be
cut in the middle of one.
A link is never created open: dtnd gives a new link's state as it is before its
first contact, `handle_contact_up` alone (`BundleDaemon.cc:1829`) makes it open,
later, and no code of dtnd makes one busy.

### Injection

Each thread goes through one protocol, `Start`, `ReadSeq`, `LoadSeq`,
`StoreSeq`, twice over (a number for the payload file, one for the request id),
`Send`, and `Record` or `RecordMeDeHa`. `getAndIncrement` is three steps because
`injectIdSeq` is a plain `int` that no semaphore protects. What differs between
the threads is the lock: `createSV` gives `bundlesLock` back for the main thread
and keeps it for the PeerListener, which holds it until its request is on
record; the MeDeHaInterface takes none. dtnd takes requests and answers in any
order, and `Lose` drops one of either. The main thread handles an answer only
between two handlers (`MayHandle`): `Forward` and `Drop` for a vector,
`TakeMeDeHa` and `AddMeDeHa` for the data of a gateway, the latter two with
`injectedMeDeHaBundlesLock` held. `asked` is the history of requests; a request
is known by its place in it, which the code does not see. The router ends over
an id that is on record in a branch for errors that are logged
(`HBSD_Policy.cpp:321`, `:400`): the model has them logged, as with the
project's `HBSD.conf` (`logLevel=6`); with less logging the second request would
not be recorded and the thread would go on. `linksLock`, which a hello keeps
while it injects (`Links.cpp:230`), is left out: only the main thread takes it.

### Statistics

The statistics of one router and the schedulers that read them, all under
`bundlesLock`, with time in seconds. No router passes its statistics on (the
call is commented out), so that a `DtnStatMessage` has one `DtnStatNode`, this
router's: the module has one function of the bundle for each member of the two.

| Code | Module |
|---|---|
| `addIfNew`, `addStatMessage`, `addNode`, `setTimeBinValue` | `Receive`, `AddStatMessage`, `Hold` |
| `expire`, whose `updateBundleStatus` finds no message | `Expire` |
| `convertElapsedTimeToBinIndex` | `BinOf`, with the ages at which it ends the process |
| `isValid` | `Valid`, and the null pointer it makes once the lifetime is over: `Outlived`, `NullNodes`, `Finishes` |
| `getStatFromAxe`, the four averages and the reports they make again | `Reporting`, `MakeReports`, `AvgDd`, `DrIsZero` |
| `scheduleDRAndSend`, `scheduleDDAndSend` | `Session`: `Utility`, and `Scheduled`, the `map` that keeps one bundle of each utility |
| `time(NULL)` | `Tick` |

The schedulers only compare utilities, so that a utility is here any number
that is equal for the same bundles. This needs that `exp` does not overflow (no
bin is more than 709 seconds past `ttl`) and that nothing is divided by zero (a
node count of 0, which `useOnlineAproximatedNumberOfNodes` gives, or above 2);
both are in `StatisticsAssumption`. With one node in a message all the averages
are exact. A whole bundle is dropped by `newBundle` if it is stored; a fragment
is not (its key is computed twice in different ways), which is why `Fragment` is
told apart. `Creation` may be in the future: sources have clocks of their own.

### NodeDirectory and Gateway

`Gateway` is one router from `main` to its end. The main thread goes through
`setupSAX` (which starts the MeDeHa thread), `setupMulticast` (whose `bind` is
the moment from which datagrams are received), the requester's making and its
`init`, and then handles datagrams. The first of them names the router, in two
assignments (`FirstMessage`, `SetRegistration`): `SourceNow` lets the MeDeHa
thread read either value while the second is under way. `nodesList` is `nodes`,
a map in which `"null"` is the entry that `operator[]` makes for whoever is
looked up (`FindNode`), told apart from a node and from no entry.

| Code | Module |
|---|---|
| `HBSD_Routing` constructor, `main`, `startRouterLoop` | `SetupSAX`, `StartUp`, `FirstMessage`, `SetRegistration` |
| the handlers of links and bundles, as far as the list of nodes goes | `HandleLink`, `HandleBundle` |
| `getById`, `remove` with an unknown id | `HandleUnknown`, `HandleTransmitted` (a null entry), `HandleDeletedUnknown` (ends the process) |
| the hello loop, which dereferences null entries | `HandleHello` |
| `bpa` with the alert "shuttingDown", the last that dtnd sends | `HandleShutdown`, `Exit` |
| the PeerListener's lookup; data handed on to the gateway, a socket each | `PeerLookup`, `PeerHandOn` |
| `MeDeHaInterface::run`, `processMeDeHaRequest` | `GwBind`, `GwCheck`, `GwInject` and `GwSend`, `GwList`, `GwFind`, `GwFindNothing` |
| dtnd | `DtndCreate`, `DtndOpen`, `DtndClose`, `DtndDelete` (from before the router listens), `DtndTransmitted` and `Stops` as in `Links`, `DtndTraffic`, `DtndInject` |

`NodeDirectory` is what the two queries promise: a yes is right, the list leaves
nobody out, and the router itself is never a member. It does not promise that a
no is right, or that the list has only nodes. Indeed the list is said to have
"only the available nodes" (`MeDeHaInterface.cpp:268`) and has the null entries
too; and with optimization on, `FIND` asks the statistics, whose matrix of nodes
is empty, and always says no. An empty list is returned as `NULL`, of which a
`string` is made, which ends the router (`ended = "no nodes"`). A router whose
configuration has no gateway does not set `medehaInterface`; it is used only for
data that a gateway sent.

### Epidemic and Session

`Session` is two nodes. At each, dtnd has bundles (`pending`), a queue of those
it is to send over the link and of vectors to send, and tells its router of what
happens in datagrams (`events`); the router has its buffer, its queue of vectors
and the link of its node. The parts of a router that `Bundles`, `Links` and
`Injection` have in detail are one step each here: a handler, and a
`compareAndSend`, during which the lock keeps the buffer as it is.

| Code | Module |
|---|---|
| dtnd's `handle_bundle_received`, `find_duplicate`, `add_to_pending` | `Receive`, with `Duplicate` and `TooLate` |
| dtnd's transmission, expiry, contacts | `Arrive`, `ArriveVector`, `Expire`, `Open`, `Break` |
| `newBundle` for another node or the own one | `HandleReceived` |
| `expire`, and the lock it keeps after a local delivery | `HandleExpired` |
| `handler_link_opened_event`, `createSV` | `HandleOpened`, `Sends` |
| the hello loop that repeats the session | `HandleHello` |
| `eventDelivery`, `run`, `processPeerMessage` | `HandleDelivery`, `Peer`, `Tokens` |
| `metaDataReceived`, `compareAndSend` | `PeerCompare`; without a link, `PeerNoLink` |

The hashes of a vector are read as one word (`Joined`), so that a vector of two
bundles or more names none. The two dtnds notice in one step that the link came
up or broke, where each has its own moment in the code; their routers learn of it
at different times all the same, each from its queue. `Epidemic` is what remains of all this for
applications: a node takes a bundle that was made if it has it not and its
lifetime is not over there, and gives it to its application then. `EpidemicSpec`
says that `Session` implements it, with dtnd's `pending` for `has`.

Except for `Session`, which has the whole of two routers in little, the modules
are not composed: they share the threads and `bundlesLock`, and each has the part
of the lock's use that matters to it. The summary vector that `Bundles` answers
(`PeerReply`) is the one that `Injection` injects; the bundle that `AddMeDeHa`
stores is one that `HandleInjected` adds in `Bundles`; the injections that
`Gateway` makes are the ones whose answers `Injection` follows.

## 4. What the runs check

| Run | Shows |
|---|---|
| `bundles_mixed` | capacity, exact summary vectors, no expiry within a session, every bundle that a vector does not name asked for by the end of its session, a lock that is taken for a reason, statistics that cover the buffer, and the refinement of `BundleStore`, with a lost event, a restart of dtnd and three configurations |
| `bundles_twice` | a whole bundle handed over twice is stored once, and a fragment leaves the maps exact; the lock is lost only by the expiry of a bundle that was delivered or stored twice |
| `bundles_live` | retired bundles leave, summary vectors are worked through |
| `links` | pointers between links and nodes have their counterparts; without a loss the router agrees with dtnd; it ends over a link it does not know only if the creation was missed or a transmission told of after the deletion |
| `injection` | each vector goes out over its own link; the main thread finds the records of its own requests; a record stays behind, and the router ends, only for a cause that is named; the holder of `bundlesLock` never waits |
| `injection_live` | every injection comes to its end |
| `statistics` | reports are current, bits and versions agree when bundles come back, the null pointer is met only over a message past its lifetime; a session sends one or two bundles at most where utilities are equal |
| `gateway` | whoever was looked up before, the gateway is told the truth and an open link leads to a known node; one injection at most goes out without a name after the router has one; an end has its cause in the hour, in a link made too early or in a transmission told of too late |
| `session` | each buffer follows its dtnd; a router stops after a break or over a delivered bundle only; applications see an epidemic that delivers once; what the router where a bundle was made has gets to the other node |

### Disagreements of the code with its own comments

Each is a run that violates one property (the comment is quoted in `findings`).

| Run | The comment says, the code does |
|---|---|
| `bundles_lock_leak` | `expire` is "synchronized"; it returns with the semaphore taken when the id is known and its key is not stored, as after every local delivery |
| `bundles_full` | a full buffer has the drop policy decide; without optimization the main thread waits for its own semaphore |
| `injection_race` | the injected vector is forwarded; the answer may come before the record, and is dropped |

The models have more such outcomes. A node that was opened on a second link while
it had another does not "attach later" to it, as no code does it; its next summary
vector ends the router once the first link is gone (`Links`). Two threads in
`getAndIncrement` may get one request id (`Injection`, whose
`EndsOnlyOverSharedId` says what comes of it). A full buffer with optimization on dereferences a null pointer
(`AddFullOptimized`, `AddFullUnknownPolicy`). An expired bundle keeps being
counted by the statistics, because `expire` reads the entry it erased, and no
bundle ever becomes complete: after `mchBufferCapacity` bundles the statistics
take no other (`StatisticsCoverBuffer` states what does hold). A fragment that
is handed over twice is stored twice, which is why `OneIdPerStored` speaks of
whole bundles. The hashes of a vector of two or more are read as one word and
its bundles are sent again (`Tokens`): `ServedInFull` says that nothing is passed
over, not that nothing is sent twice. A session of `scheduleDRAndSend` or `scheduleDDAndSend` "schedules the list
of bundles based on their utilities and sends them" (`HBSD_Routing.h:177`), but
bundles of equal utility displace each other in its `map`: with no node count
the rate policy sends one bundle of a list of any length, the delay policy two
(`FewSent`). "Only the message owner can generates the last version"
(`StatisticsManager.cpp:722`) never happens, because the owner is looked up by
the name of the router's endpoint where nodes go by the local EID; the lookup
makes a null pointer instead, and the next bundle or session ends the router
over it if the message was not reported since it came (`EndsOverOutlived`).
`ReportIsCurrent` is not so for a fragment that comes twice within a second of
its report. `HBSD.conf` has `mchBufferCapacity` bound the messages "with
complete history" and `mumBufferCapacity` those "under monitoring": the code
bounds the latter by the former and reads the other nowhere. The deletion of a
link frees its node although another link has it, which is why `NodeOfLink`
assumes `Separate`. `handler_data_transmitted_event` means to tolerate a link it
does not know (`HBSD_Routing.cpp:232-239` reports it and returns), but `getById`
has left a null entry by then. dtnd queues the event of a partly sent bundle
behind the deletion of its link, so that a router which lost nothing and heard
of every link gets such an entry, and the next hello (`Links.cpp:235`) ends it:
`EndsOnlyUninformed` and `EndsForCause` name this cause (`tooLate`).

Between two nodes: a bundle that was delivered is in no vector, because the router
does not store it, and is sent again in every session; dtnd's suppression of
duplicates absorbs it, and when its lifetime ends `expire` keeps the lock and the
router halts (`HaltsForCause`). A bundle that arrives when the local clock says it
has expired is deleted at once, and the router is told of the end of a bundle it
never heard of. "DTN will likely delete bundles after they have been successfully
transmitted" (`HBSD_Policy.h:247`) does not happen: the project's `dtn.conf` turns
early deletion off, and while the router is registered every bundle has two
mappings, so that `can_delete_bundle` never holds. A router that is restarted
alone cannot fill its tables again (`HBSD_Routing.cpp:128`), which is why the
models restart dtnd and not the router.

### Bounds

Bundles: four local ids over three keys: two bundles of one key, a third for
another destination and a summary vector is the least that has a duplicate, a
full buffer (capacity 1 or 2), full statistics (2) and a session at once. `QueueBound` limits the
events under way (2 or 3: a bundle's own events fit, with another's behind
them), `MaxLosses` and `MaxRestarts` are 0 or 1: one lost event already separates
the router's view from dtnd's. Links: two links, to two nodes or to one, in the
three networks of `AnyNetwork`: a link that carries bundles and is deleted, beside
one to another node; two links to one node, both deleted; two links to one node
that are kept. Injection: `MaxInjections` 3, one for each thread or
two of one thread with another's between them, and one lost datagram; two
interchangeable links (`LinkSymmetry`), so that a wrong one can be told from a
right one; 2 injections for liveness, without symmetry. Statistics: two whole
bundles, which may displace each other and come back, and a fragment; two bins of
two seconds and a lifetime of four, so that a bundle is in each bin, after them
and past its lifetime within `MaxTime` 5; bundles made before the router started
or in its future; room for one message or for all. Gateway: two links to one
node and a router that is written to as well, so that a deletion of one link
meets the other; two requests, so that a second comes while the first's effects
last; two datagrams, the most that one step of dtnd sends; bundles, vectors,
hellos and shutdowns come one at a time (`DtndTraffic`), the events of links at
any moment. Three configurations: with a gateway, with and without optimization
and termination with dtnd, and without a gateway; bundles go over links, and
links are cut in the middle of one, in the last only (`MayCarry`), since what
comes of it for the router does not depend on the gateway. This keeps the run at
4.7 million states; the theorems cover any `MayCarry`. Session: a bundle for neither
node, made at the one whose vector has to be asked for, and one for the other
node, made at the first, whose lifetime may end at any point on each clock; two
datagrams on their way to a router; two breaks, so that the link comes up
three times. A hello starts a session when nothing waits for the router that
gets it and the vectors of the last are read, which is the case that matters:
everything else is repeated by the next opening. The same properties hold with
three bundles and one break, and with two bundles that may both expire. The
theorems have no such bounds.

`Session` leaves out what the modules of one router have: a full buffer, a lost
datagram, a vector whose payload file is gone, and optimization. An application
is registered wherever a bundle is for, so that dtnd delivers what arrives.

### Fairness

`FairSpec` of `Bundles`: weak fairness of the main thread and of the
PeerListener, two pthreads that only ever wait for a semaphore, a datagram or a
queue. Where the lock is lost (`bundles_lock_leak`) no fairness helps, so
`bundles_live` is the instance in which no locally delivered bundle expires.
`FairSpec` of `Injection`: weak fairness of the three threads' protocol steps
and of the main thread's handlers. `MaxInjections` keeps one thread from taking
the semaphore for ever, which a POSIX semaphore does not rule out: what the run
shows is that no order of the two semaphores blocks a thread. dtnd owes nothing
in either.

`Fairness` of `Session`: weak fairness of the two threads of each router; of
`Open` and of each arrival, since dtnd reopens a link that is not given up and
sends what is queued on a link that is up; and of `HandleHello`, which follows
dtnd's hello timer. Each bundle has its own arrival because dtnd's queue of a link
is in order, so that none overtakes another for ever. Neither an expiry nor a
break is fair, and breaks are bounded by `MaxBreaks`: with a link that broke for
ever before a vector is through, nothing would spread. `Spreads` is about bundles
at their origin, since one that was delivered is not in the buffer.

Deadlock checking is off: a run that lost its lock, ended its process or has all
its bundles retired stops, and the properties say which of these may happen.

## 5. What is proved

For every value of the constants, from the module's assumption alone. Each proof
rests on one inductive invariant `IInv`, which implies the properties.

`BundlesProofs`: `TypeOK`, `WithinCapacity`, `SummaryVectorExact`,
`ListedAreStored`, `OneIdPerStored`, `StatisticsCoverBuffer`, `ServedInFull`,
`LockForCause`, `LeakNeedsLocalDelivery` and `StoreSpec`, the refinement.
Besides the properties `IInv` says that every event under way is about a bundle
dtnd has announced, an expiry about one it retired (`Known`); that an entry of
`localidGBOFMap` is its own bundle's key or empty (`MapsToOwnKey`); that a whole
bundle on its way into `addIfNew` is not in the store (`AddIsNew`), which is why
the unlocked gap between the two halves of `newBundle` does no harm: only the
main thread adds; and that what a session's vector does not name is still listed
or was asked for (`SentOrListed`), so that with an empty list the session has
served all there is (`ServedInFull`).

`LeakNeedsLocalDelivery` needs two more facts, proved on top of `IInv`: dtnd says
once at most of a local id that it expired (`OneExpiry`), and an empty entry is
that of a bundle dtnd delivered here, or of an id whose one expiry is over
(`EmptyCause`). So an expiry that meets an entry without a stored key is that of
a bundle delivered here, or of one whose key another id has. `LockForCause` says
the rest about the lock: it is free, or with the PeerListener, exactly while that
sends, or the main thread has left it taken, over a full buffer (`StoppedFull`)
or after such an expiry (`ForgottenFor`). It is what liveness needs of the locks.
`KeptUntilRetired` is the action property that follows from `MapsToOwnKey`: no
step takes a key out of the buffer before dtnd retired a bundle of that key.

`Datagrams` has lemmas about a queue of datagrams, of which some are about links:
what the last of the first `i` about a link says (`After`), that a kind of
datagram comes next after another only (`Preceded`), and how both are kept when a
datagram is added at the end or taken at the head.

`LinksProofs`: `TypeOK`, `LinkOfNode`, `NodeOfLink`, `InSync` and
`EndsOnlyUninformed`. For the pointers the invariant adds that a link has no node
but the one it leads to (`OwnPeer`), and that an event "deleted" under way is
about a link dtnd may delete. `InSync` speaks of a router that has nothing left
to read; what holds always is `Heard`: as long as nothing is lost, what the
router has of a link (`View`: no entry, a null entry, a link that is open or not)
is left by the datagrams that wait as dtnd has it. `Follows` says so of any link
the router knows, also of one older than the router: the last datagram about it
fits dtnd's status, and a creation follows a deletion. `Informed` says it of the
links that are not older: their openings, closings and deletions come between
creation and deletion. `Timely` says of those whose transmissions dtnd told of
while it had them that a transmission does so too, and that no lookup has left a
null entry. `HeardInvariance` proves `Heard` and `EndsOnlyUninformed` together,
because each step's handler finds the link that the datagram is about, or ends a
router that missed its creation, or leaves a null entry for a transmission that
is among `tooLate`.

`InjectionProofs`: `TypeOK`, `ForwardedOverItsLink`, `MainFindsItsRecord`,
`EndsOnlyOverSharedId`, `NoRecordWithoutCause`, `HolderRuns` and `NoRing`. None
is inductive: `ForwardedOverItsLink` depends on what the records are, and a
record on which thread has still to write it. `IInv` says that the request in a
thread's hand (`mine`) is its own, and that the thread is at the place where it
has one (`InHand`); that the locks are held at exactly the places where the code
holds them (`LocksHeld`); that the vector of a thread at work has a link
(`VectorsHaveLinks`); that a record is that of a request no thread has in hand,
with that request's link (`Recorded`); that every request is under way,
forwarded, added, dropped or lost (`Accounted`); and that a request of the main
thread that it is done with and nobody answered is on record, which is what the
single-threaded handling of answers gives (`MainOnRecord`). `NoRing` is what
`InjectionsEnd` needs of the semaphores: with `HolderRuns`, and the MeDeHa
records' semaphore held at `addIfNew` alone (`MedehaLockHeld`), of the threads at
work one waits for none (`SomeoneRuns`).

`StatisticsProofs`: `TypeOK`, `ReportIsCurrent`, `SeenSinceStart`,
`EndsOverOutlived` and `FewSent`, for any bins (`Division`,
`BinOfGrows` and `BinHoldsAge` are about the division that `BinOf` makes for the
loop over the bins in the code: an age is in the one bin whose bounds hold it).
`ReportIsCurrent` is the one with an argument: a whole bundle comes back only
after its lifetime (`GoneIsOutlived`), its last report was made within it
(`ReportedAlive`, since a report past it would have ended the router), so that
the update is in a later second than the report. `SeenSinceStart` needs that a
bundle never comes back in an earlier bin (`BinsPassed`), `EndsOverOutlived` that
a null pointer was made past the lifetime (`NullNodesOutlived`). `FewSent` rests
on the averages: every count is 1 (`CountsAreOne`), so that the terms of `AvgDd`
are equal, and it is one of two values (`AvgDdIs`); a session sends as many
bundles as there are utilities at most (`SentIsInjected`). That a sum over a
finite set of `n` equal terms is `n` times the term (`SumIs`) is an induction;
the library's rules for induction on sets take an operator and cannot be used
here, but that there is no smallest set for which it fails follows from the
well-foundedness of `<` (`Least`), which takes sets. The matrix has finitely many
messages (`Finite`) because each step adds one at most.

`GatewayProofs`: `TypeOK`, `RefusedOnceNamed`, `DirectorySpec`, the refinement,
and `OpenPeersKnown` and `EndsForCause`. `RefusedOnceNamed` needs that a bundle
without a name can be in hand only once after the router has one (`OneLate`), and
its count that a bundle in hand was a request (`InHand`).

`OpenPeersKnown` and `EndsForCause` rest on what a router that listened from the
start has of each link: what it saw, followed by the datagrams that wait for it,
is what dtnd did, in that order. `InOrder` says so of creations and ends: a
datagram about a link comes after the link's creation and before its end,
whatever else is in the queue; a transmission that comes after the end is one of
`tooLate`, and only such a link has a null entry. `SaidOpen` says it of openings, for a
router that came late too. So the first datagram about a link finds it
(`HeadKnown`), no link is left without an object, and a known link that dtnd has
open, with nothing waiting about it, is open here. `PeerKnown` says the rest: no
lookup by any of the three threads undoes a node, and a removal is remembered in
`forgotten`. That an end is for its cause then follows at the step that ends the
process, since an ended process does nothing (`Over`).

`SessionProofs`: `TypeOK`, `InStep`, `HaltsForCause` and `EpidemicSpec`, and, from
it and `EpidemicProofs`, that an application gets a bundle once (`GotOnce`).
`InStep` is what is left when no datagram waits of what holds always (`Follows`):
of each bundle a router is told once that it came and then once that it expired
(`ToldInOrder`), and its buffer is what dtnd had before those (`Behind`).
`HaltsForCause` needs that, as long as no link has broken, a router is told of the
link before it is given a vector (`HearsFirst`, about the order of the datagrams),
and that a bundle for the own node whose expiry is under way was delivered
(`Delivered`). The refinement needs only that what is queued was made and that a
bundle not yet made is nowhere. `EpidemicProofs` has one invariant (`Kept`): what
was delivered is still there or outlived. Its theorem is about any number of
nodes.

**Only model-checked:** the four liveness properties, `RetiredLeaves`,
`VectorsServed`, `InjectionsEnd` and `Spreads`: liveness under fairness is out of
the prover's reach. What they need of the locks is proved (`LockForCause`,
`NoRing`, `HolderNeverWaits`). That each disagreement of section 3 really happens
is shown by the run that violates it, not by a proof.

## 6. What is not modelled

Text (XML, file formats, logs) except where a conversion loses something that a
property is about: the key of a fragment, the joined lines of a summary vector.
The scoring inside the drop policies: neither policy gets as far. A start-up whose
configuration or socket is wrong, which ends the process before it has state, and
a gateway's request that cannot be parsed. Functions
without a caller: `finished`, `isCurrent`, `bundlefromLocalId`, `associate`, and
the exchange of statistics between routers. A `sendto` that fails, which ends
the process (`Requester.cpp:145`). `XMLTree`, configuration, logging. The
link of a node to itself. dtnd itself, which makes up nearly all of the
repository: it is in the models as far as the router sees it (its events and their
order, duplicates, expiry, links), not as a component of its own; nor are its
other routers, convergence layers, storage and language bindings.
