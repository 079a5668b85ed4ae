------------------------------- MODULE Bundles -------------------------------
(***************************************************************************)
(* The bundle store of one HBSD router (Bundles.cpp) and the two threads   *)
(* that share it:                                                          *)
(*                                                                         *)
(*   - the main thread (HBSD::startRouterLoop) takes one XML event of dtnd *)
(*     after the other and runs its handler to the end;                    *)
(*   - the PeerListener thread answers the summary vectors that other      *)
(*     routers sent (PeerListener::run ... Bundles::compareAndSend).       *)
(*                                                                         *)
(* The store is two maps, localidGBOFMap (dtnd's local id -> gbof key) and *)
(* activeBundles (gbof key -> Bundle object), under the semaphore          *)
(* bundlesLock.  A Bundle object is named by the local id it was built     *)
(* with.  A handler's stretch between getBundlesLock and leaveBundlesLock  *)
(* is one step of the main thread; compareAndSend, which talks to dtnd     *)
(* while it holds the lock, is several steps of the PeerListener.          *)
(*                                                                         *)
(* dtnd, the DTN2 daemon, is the environment: it names bundles, announces  *)
(* them, expires them and carries out delete requests.                     *)
(***************************************************************************)
EXTENDS Integers, FiniteSets, Sequences

CONSTANTS
  LocalId,                 \* dtnd's local ids
  Gbof,                    \* keys that GBOF::keyFromBundle makes
  GbofOf,                  \* [LocalId -> Gbof], the key of each bundle
  Kind,                    \* [LocalId -> Kinds], where each bundle is going
  Fragment,                \* the local ids of bundle fragments
  MayExpire,               \* the local ids whose lifetime may end
  SV,                      \* [summary vectors -> SUBSET Gbof], their hashes
  SV1,                     \* the summary vectors of type EPIDEMIC_SV_1
  maxBufferCapacity,       \* HBSD.conf, bundlesActiveCapacity
  statMessagesNumber,      \* HBSD.conf, mchBufferCapacity
  Configured,              \* the configurations a router may be started with
  QueueBound,              \* bound: events dtnd has on their way at a time
  MaxLosses,               \* bound: datagrams the socket drops
  LinkMayBeGone,           \* the link to a vector's sender may be closed
  MaxRestarts,             \* bound: re-announcements after a dtnd restart
  NONE,                    \* no entry in a map
  EMPTY,                   \* the empty string
  Garbled                  \* a token that is the key of no bundle

(***************************************************************************)
(* "transit": for another node; "app": for this node's EID; "group": for   *)
(* an endpoint a local application registered under another EID; "sv": a   *)
(* summary vector for this router; "injected": a summary vector this       *)
(* router injected; "medeha": a bundle injected for the MeDeHa gateway.    *)
(***************************************************************************)
Kinds == {"transit", "app", "group", "sv", "injected", "medeha"}

SummaryVector == {lid \in LocalId : Kind[lid] = "sv"}
Delivered     == {lid \in LocalId : Kind[lid] \in {"app", "group", "sv"}}

\* Another local id has the key of lid, and one of the two came to addIfNew
\* without a check for duplicates that can see the other.
Unchecked   == Fragment \cup {lid \in LocalId : Kind[lid] = "medeha"}
Shared(lid) == \E other \in LocalId :
                 /\ other # lid /\ GbofOf[other] = GbofOf[lid]
                 /\ lid \in Unchecked \/ other \in Unchecked

ASSUME BundlesAssumption ==
  /\ GbofOf \in [LocalId -> Gbof]
  /\ Kind \in [LocalId -> Kinds]
  /\ Fragment \subseteq LocalId
  /\ MayExpire \subseteq LocalId
  /\ SV \in [SummaryVector -> SUBSET Gbof]
  /\ SV1 \subseteq SummaryVector
  /\ maxBufferCapacity \in Nat \ {0} /\ statMessagesNumber \in Nat
  /\ LinkMayBeGone \in BOOLEAN
  /\ Configured \subseteq [enableOptimization : BOOLEAN,
                           hbsdOptimizePerformance : Nat]
  /\ QueueBound \in Nat /\ MaxLosses \in Nat /\ MaxRestarts \in Nat
  /\ NONE \notin LocalId \cup Gbof /\ EMPTY \notin Gbof /\ EMPTY # NONE
  /\ Garbled \notin Gbof
  /\ IsFiniteSet(Gbof)

VARIABLES
  localidGBOFMap, \* [LocalId -> Gbof, EMPTY or NONE]
  activeBundles,  \* [Gbof -> the stored object's local id, or NONE]
  bundlesLock,    \* who took the semaphore last: "free", "main", "peer"
  mainPc, mainId, \* the main thread: its place and the bundle it works on
  peerPc, peerId, \* the PeerListener thread, likewise
  toSend,         \* its listToSend, the part not yet sent
  msgQueue,       \* PeerListener::msgQueue, delivered summary vectors
  sent,           \* <<summary vector, gbof>>: send requests made so far
  replied,        \* the summary vectors answered with an EPIDEMIC_SV_2
  messagesMatrix, \* [Gbof -> "none", or what the statistics say this node
                  \* does with the bundle: "held", "gone"]
  events,         \* the datagrams from dtnd, in order
  dtnd,           \* [LocalId -> {"new", "pending", "gone"}]
  deleteReq,      \* delete requests on their way to dtnd
  crashed,        \* the process ended (assert, signal)
  losses, restarts,
  conf            \* what HBSD.conf said when the router was started

store    == <<localidGBOFMap, activeBundles, messagesMatrix>>
mainVars == <<mainPc, mainId>>
peerVars == <<peerPc, peerId, toSend, sent, replied>>
dtndVars == <<dtnd, deleteReq, losses, restarts>>
vars == <<store, bundlesLock, mainVars, peerVars, msgQueue, events, dtndVars,
          crashed, conf>>

enableOptimization      == conf.enableOptimization
hbsdOptimizePerformance == conf.hbsdOptimizePerformance \* 0: rate, 1: delay

Buffered  == {g \in Gbof : activeBundles[g] # NONE}
Monitored == {g \in Gbof : messagesMatrix[g] # "none"}

EventTypes == {"received", "delivered", "delivery", "expired", "injected",
               "hello"}

TypeOK ==
  /\ localidGBOFMap \in [LocalId -> Gbof \cup {EMPTY, NONE}]
  /\ activeBundles \in [Gbof -> LocalId \cup {NONE}]
  /\ messagesMatrix \in [Gbof -> {"none", "held", "gone"}]
  /\ bundlesLock \in {"free", "main", "peer"}
  /\ mainPc \in {"idle", "add", "remove"} /\ mainId \in LocalId \cup {NONE}
  /\ peerPc \in {"idle", "read", "compare", "send"}
  /\ peerId \in SummaryVector \cup {NONE}
  /\ toSend \subseteq Gbof
  /\ msgQueue \in Seq(SummaryVector)
  /\ sent \subseteq SummaryVector \X Gbof
  /\ replied \subseteq SummaryVector
  /\ events \in Seq(EventTypes \X (LocalId \cup {NONE}))
  /\ dtnd \in [LocalId -> {"new", "pending", "gone"}]
  /\ deleteReq \subseteq LocalId
  /\ crashed \in BOOLEAN
  /\ losses \in 0 .. MaxLosses /\ restarts \in 0 .. MaxRestarts
  /\ conf \in Configured

Init ==
  /\ localidGBOFMap = [lid \in LocalId |-> NONE]
  /\ activeBundles = [g \in Gbof |-> NONE]
  /\ messagesMatrix = [g \in Gbof |-> "none"]
  /\ bundlesLock = "free"
  /\ mainPc = "idle" /\ mainId = NONE
  /\ peerPc = "idle" /\ peerId = NONE /\ toSend = {}
  /\ msgQueue = <<>> /\ sent = {} /\ replied = {}
  /\ events = <<>>
  /\ dtnd = [lid \in LocalId |-> "new"] /\ deleteReq = {}
  /\ crashed = FALSE
  /\ losses = 0 /\ restarts = 0
  /\ conf \in Configured

------------------------------------------------------------------------------
(* dtnd *)

\* The events of a bundle that dtnd accepts, in the order it sends them.
Announcement(lid) ==
  CASE Kind[lid] = "transit"               -> <<<<"received", lid>>>>
    [] Kind[lid] \in {"app", "group"}      -> <<<<"received", lid>>,
                                                <<"delivered", lid>>>>
    [] Kind[lid] = "sv"                    -> <<<<"delivery", lid>>,
                                                <<"received", lid>>,
                                                <<"delivered", lid>>>>
    [] Kind[lid] \in {"injected", "medeha"} -> <<<<"injected", lid>>>>

DtndAccept(lid) ==
  /\ dtnd[lid] = "new" /\ Len(events) < QueueBound
  /\ dtnd' = [dtnd EXCEPT ![lid] = "pending"]
  /\ events' = events \o Announcement(lid)
  /\ UNCHANGED <<store, bundlesLock, mainVars, peerVars, msgQueue, deleteReq,
                 losses, restarts, crashed, conf>>

\* The lifetime of a pending bundle ends: dtnd deletes it and says so.
DtndExpire(lid) ==
  /\ lid \in MayExpire /\ dtnd[lid] = "pending" /\ Len(events) < QueueBound
  /\ dtnd' = [dtnd EXCEPT ![lid] = "gone"]
  /\ events' = Append(events, <<"expired", lid>>)
  /\ UNCHANGED <<store, bundlesLock, mainVars, peerVars, msgQueue, deleteReq,
                 losses, restarts, crashed, conf>>

\* A delete request of the router: the bundle goes, and no event tells.
DtndDelete(lid) ==
  /\ lid \in deleteReq
  /\ deleteReq' = deleteReq \ {lid}
  /\ dtnd' = [dtnd EXCEPT ![lid] = "gone"]
  /\ UNCHANGED <<store, bundlesLock, mainVars, peerVars, msgQueue, events,
                 losses, restarts, crashed, conf>>

\* dtnd's hello timer, while the router has an open link.
DtndHello ==
  /\ events = <<>>
  /\ events' = <<<<"hello", NONE>>>>
  /\ UNCHANGED <<store, bundlesLock, mainVars, peerVars, msgQueue, dtndVars,
                 crashed, conf>>

\* A restarted dtnd announces again a bundle of its durable store, under the
\* local id it had; injected bundles are not in that store.
DtndRestart(lid) ==
  /\ restarts < MaxRestarts /\ Len(events) < QueueBound
  /\ dtnd[lid] = "pending" /\ Kind[lid] \notin {"injected", "medeha"}
  /\ restarts' = restarts + 1
  /\ events' = events \o Announcement(lid)
  /\ UNCHANGED <<store, bundlesLock, mainVars, peerVars, msgQueue, dtnd,
                 deleteReq, losses, crashed, conf>>

\* Events come in UDP datagrams: a full socket drops one.
LoseEvent ==
  /\ losses < MaxLosses /\ events # <<>>
  /\ losses' = losses + 1
  /\ events' = Tail(events)
  /\ UNCHANGED <<store, bundlesLock, mainVars, peerVars, msgQueue, dtnd,
                 deleteReq, restarts, crashed, conf>>

------------------------------------------------------------------------------
(* The main thread *)

\* The next event is of this type and about this bundle, and it is taken.
Takes(type, lid) ==
  /\ ~crashed /\ mainPc = "idle"
  /\ events # <<>> /\ Head(events) = <<type, lid>>
  /\ events' = Tail(events)

\* Mutant of WithLock: the handler takes no lock.
WithLock_Unlocked == UNCHANGED bundlesLock

\* The body of a handler that needs bundlesLock and gives it back.
WithLock == bundlesLock = "free" /\ UNCHANGED bundlesLock

\* Mutant of AlreadyExists: the check for duplicates is left out.
AlreadyExists_Never(lid) == FALSE

\* Bundles::alreadyExists looks up GBOF::keyFromXML, which for a fragment is
\* no key of the store: Bundle::parseGBOF reads is_fragment="true" with atoi.
AlreadyExists(lid) == lid \notin Fragment /\ GbofOf[lid] \in Buffered

\* Bundle::initReceived fails for the router's own registration, localDest
\* holds for the other endpoints of this node.
StaysHere(lid) == Kind[lid] \in {"sv", "app"}

\* handler_bundle_received_event up to the call of addIfNew.
HandleReceived(lid) ==
  /\ Takes("received", lid)
  /\ WithLock
  /\ IF AlreadyExists(lid) \/ StaysHere(lid)
       THEN UNCHANGED mainVars
       ELSE mainPc' = "add" /\ mainId' = lid
  /\ UNCHANGED <<store, peerVars, msgQueue, dtndVars, crashed, conf>>

\* handler_bundle_injected_event.  A MeDeHa bundle whose request is on record
\* goes to addIfNew directly; every other one leaves the store alone.
HandleInjected(lid) ==
  /\ Takes("injected", lid)
  /\ \/ Kind[lid] = "medeha" /\ mainPc' = "add" /\ mainId' = lid
     \/ UNCHANGED mainVars
  /\ UNCHANGED <<store, bundlesLock, peerVars, msgQueue, dtndVars,
                 crashed, conf>>

AddDone == mainPc' = "idle" /\ mainId' = NONE

\* addIfNew: the local id is known already.
AddKnown ==
  /\ ~crashed /\ mainPc = "add" /\ WithLock
  /\ localidGBOFMap[mainId] # NONE
  /\ AddDone
  /\ UNCHANGED <<store, peerVars, msgQueue, events, dtndVars, crashed, conf>>

\* Mutant of HasRoom: off by one.
HasRoom_OneMore == Cardinality(Buffered) <= maxBufferCapacity

HasRoom == Cardinality(Buffered) < maxBufferCapacity

\* Mutant of AddStored: the statistics are not told.
AddStored_Uncounted ==
  /\ ~crashed /\ mainPc = "add" /\ WithLock
  /\ localidGBOFMap[mainId] = NONE
  /\ HasRoom
  /\ localidGBOFMap' = [localidGBOFMap EXCEPT ![mainId] = GbofOf[mainId]]
  /\ activeBundles' = [activeBundles EXCEPT ![GbofOf[mainId]] = mainId]
  /\ AddDone
  /\ UNCHANGED <<messagesMatrix, peerVars, msgQueue, events, dtndVars, crashed,
                 conf>>

\* addStatMessage refuses every bundle, a known one too, once it has
\* statMessagesNumber that are not complete.  None is ever complete: this node
\* gives only the version of the bin it got the bundle in, and the bins are as
\* long as a bundle lives.
Monitor(g) ==
  IF enableOptimization /\ Cardinality(Monitored) < statMessagesNumber
    THEN [messagesMatrix EXCEPT ![g] = "held"] ELSE messagesMatrix

\* addIfNew: there is room, and the statistics are told if they are on.
AddStored ==
  /\ ~crashed /\ mainPc = "add" /\ WithLock
  /\ localidGBOFMap[mainId] = NONE
  /\ HasRoom
  /\ localidGBOFMap' = [localidGBOFMap EXCEPT ![mainId] = GbofOf[mainId]]
  /\ activeBundles' = [activeBundles EXCEPT ![GbofOf[mainId]] = mainId]
  /\ messagesMatrix' = Monitor(GbofOf[mainId])
  /\ AddDone
  /\ UNCHANGED <<peerVars, msgQueue, events, dtndVars, crashed, conf>>

IsFull == localidGBOFMap[mainId] = NONE /\ ~HasRoom

\* addIfNew with a full buffer and no optimization: deleteBundle calls remove,
\* which waits for the semaphore that this very thread holds.  No step leads
\* out of "remove".
AddFullDropLast ==
  /\ ~crashed /\ mainPc = "add" /\ bundlesLock = "free"
  /\ IsFull /\ ~enableOptimization
  /\ bundlesLock' = "main"
  /\ mainPc' = "remove"
  /\ UNCHANGED <<store, mainId, peerVars, msgQueue, events, dtndVars,
                 crashed, conf>>

\* addIfNew with a full buffer and one of the two policies: the operator[] on
\* the local id makes an empty entry, then the search for the bundle with the
\* smallest utility stores its result through a null pointer.
AddFullOptimized ==
  /\ ~crashed /\ mainPc = "add" /\ bundlesLock = "free"
  /\ IsFull /\ enableOptimization /\ hbsdOptimizePerformance \in {0, 1}
  /\ localidGBOFMap' = [localidGBOFMap EXCEPT ![mainId] = EMPTY]
  /\ bundlesLock' = "main"
  /\ crashed' = TRUE
  /\ UNCHANGED <<activeBundles, messagesMatrix, mainVars, peerVars, msgQueue,
                 events, dtndVars, conf>>

\* addIfNew with a full buffer and an unknown policy: the bundle is ignored.
AddFullUnknownPolicy ==
  /\ ~crashed /\ mainPc = "add" /\ WithLock
  /\ IsFull /\ enableOptimization /\ hbsdOptimizePerformance \notin {0, 1}
  /\ AddDone
  /\ UNCHANGED <<store, peerVars, msgQueue, events, dtndVars, crashed, conf>>

\* Mutant of ExpireUnknown: this return, too, forgets leaveBundlesLock.
ExpireUnknown_Leaks(lid) ==
  /\ Takes("expired", lid) /\ bundlesLock = "free"
  /\ localidGBOFMap[lid] = NONE
  /\ bundlesLock' = "main"
  /\ UNCHANGED <<store, mainVars, peerVars, msgQueue, dtndVars, crashed, conf>>

\* expire: "that could be an injected bundle", nothing to do.
ExpireUnknown(lid) ==
  /\ Takes("expired", lid) /\ WithLock
  /\ localidGBOFMap[lid] = NONE
  /\ UNCHANGED <<store, mainVars, peerVars, msgQueue, dtndVars, crashed, conf>>

\* expire: the local id is known but its key is not that of a stored bundle.
\* The function returns here without leaveBundlesLock.
ExpireStale(lid) ==
  /\ Takes("expired", lid) /\ bundlesLock = "free"
  /\ localidGBOFMap[lid] # NONE
  /\ localidGBOFMap[lid] \notin Buffered
  /\ localidGBOFMap' = [localidGBOFMap EXCEPT ![lid] = NONE]
  /\ bundlesLock' = "main"
  /\ UNCHANGED <<activeBundles, messagesMatrix, mainVars, peerVars, msgQueue,
                 dtndVars, crashed, conf>>

\* Mutant of ExpireStored: the entry of activeBundles is nulled, not erased.
ExpireStored_Nulled(lid) ==
  /\ Takes("expired", lid) /\ WithLock
  /\ localidGBOFMap[lid] \in Buffered
  /\ localidGBOFMap' = [localidGBOFMap EXCEPT ![lid] = NONE]
  /\ activeBundles' = [activeBundles EXCEPT ![localidGBOFMap[lid]] = EMPTY]
  /\ UNCHANGED <<messagesMatrix, mainVars, peerVars, msgQueue, dtndVars,
                 crashed, conf>>

\* Mutant of ExpireStored: only the local id is forgotten.
ExpireStored_KeepsObject(lid) ==
  /\ Takes("expired", lid) /\ WithLock
  /\ localidGBOFMap[lid] \in Buffered
  /\ localidGBOFMap' = [localidGBOFMap EXCEPT ![lid] = NONE]
  /\ UNCHANGED <<activeBundles, messagesMatrix, mainVars, peerVars, msgQueue,
                 dtndVars, crashed, conf>>

\* updateBundleStatus, for a bundle that leaves the buffer.
NoLongerHeld(key) ==
  IF enableOptimization /\ key \in Monitored
    THEN [messagesMatrix EXCEPT ![key] = "gone"] ELSE messagesMatrix

\* expire: the bundle leaves the store.  With optimization on, the statistics
\* are updated for localidGBOFMap[object's local id], an operator[] that runs
\* after the erase and makes an empty entry when the ids are the same.
ExpireStored(lid) ==
  LET key    == localidGBOFMap[lid]
      object == activeBundles[key]
      erased == [localidGBOFMap EXCEPT ![lid] = NONE]
      ghost  == enableOptimization /\ erased[object] = NONE
  IN  /\ Takes("expired", lid) /\ WithLock
      /\ key \in Buffered
      /\ localidGBOFMap' = IF ghost THEN [erased EXCEPT ![object] = EMPTY]
                                    ELSE erased
      /\ messagesMatrix' = NoLongerHeld(localidGBOFMap'[object])
      /\ activeBundles' = [activeBundles EXCEPT ![key] = NONE]
      /\ UNCHANGED <<mainVars, peerVars, msgQueue, dtndVars, crashed, conf>>

\* Mutant of HandleDelivered: a delivered bundle is taken for a finished one.
HandleDelivered_Finished(lid) ==
  /\ Takes("delivered", lid) /\ WithLock
  /\ localidGBOFMap' = [localidGBOFMap EXCEPT ![lid] = NONE]
  /\ activeBundles' = [g \in Gbof |-> IF activeBundles[g] = lid THEN NONE
                                      ELSE activeBundles[g]]
  /\ UNCHANGED <<messagesMatrix, mainVars, peerVars, msgQueue, dtndVars,
                 crashed, conf>>

\* eventDelivered: an operator[] that makes an empty entry for an unknown id.
\* (The activeBundles[gbof] that follows finds its key: OneIdPerStored.)
HandleDelivered(lid) ==
  /\ Takes("delivered", lid) /\ WithLock
  /\ localidGBOFMap' = IF localidGBOFMap[lid] = NONE
                         THEN [localidGBOFMap EXCEPT ![lid] = EMPTY]
                         ELSE localidGBOFMap
  /\ UNCHANGED <<activeBundles, messagesMatrix, mainVars, peerVars, msgQueue,
                 dtndVars, crashed, conf>>

\* handler_bundle_delivery_event: the vector goes to the PeerListener.
HandleDelivery(lid) ==
  /\ Takes("delivery", lid)
  /\ msgQueue' = Append(msgQueue, lid)
  /\ UNCHANGED <<store, bundlesLock, mainVars, peerVars, dtndVars,
                 crashed, conf>>

\* A hello with an open link: createSV walks the store under the lock.
HandleHello ==
  /\ Takes("hello", NONE) /\ WithLock
  /\ UNCHANGED <<store, mainVars, peerVars, msgQueue, dtndVars, crashed, conf>>

------------------------------------------------------------------------------
(* The PeerListener thread *)

PeerPop ==
  /\ ~crashed /\ peerPc = "idle" /\ msgQueue # <<>>
  /\ peerPc' = "read" /\ peerId' = Head(msgQueue)
  /\ msgQueue' = Tail(msgQueue)
  /\ UNCHANGED <<store, bundlesLock, mainVars, toSend, sent, replied, events,
                 dtndVars, crashed, conf>>

\* processPeerMessage reads the payload file, which is dtnd's own: once the
\* bundle is gone it is empty, and assert(!type.empty()) ends the process.
PeerRead ==
  /\ ~crashed /\ peerPc = "read"
  /\ IF dtnd[peerId] = "gone"
       THEN crashed' = TRUE /\ UNCHANGED <<peerVars, deleteReq>>
       ELSE /\ deleteReq' = deleteReq \cup {peerId}
            /\ peerPc' = "compare"
            /\ UNCHANGED <<crashed, peerId, toSend, sent, replied>>
  /\ UNCHANGED <<store, bundlesLock, mainVars, msgQueue, events, dtnd, losses,
                 restarts, conf>>

\* metaDataReceived: the sender has no Node (the vector is ignored), a Node
\* without a link (compareAndSend's assertion fails), or both (PeerLock).
PeerNoNode ==
  /\ ~crashed /\ peerPc = "compare"
  /\ peerPc' = "idle" /\ peerId' = NONE
  /\ UNCHANGED <<store, bundlesLock, mainVars, toSend, sent, replied, msgQueue,
                 events, dtndVars, crashed, conf>>

PeerNoLink ==
  /\ ~crashed /\ peerPc = "compare" /\ LinkMayBeGone
  /\ crashed' = TRUE
  /\ UNCHANGED <<store, bundlesLock, mainVars, peerVars, msgQueue, events,
                 dtndVars, conf>>

\* processPeerMessage appends the lines of the file with nothing between two
\* of them, so that compareAndSend reads a vector of several as one token.
Tokens(sv) == IF Cardinality(sv) <= 1 THEN sv ELSE {Garbled}

\* The buffered bundles whose hash is not among the tokens.
Missing(lid) == Buffered \ Tokens(SV[lid])

\* What the scheduler sends of a list: all of it without optimization; with
\* it, one bundle for each utility value (scheduleDRAndSend's map); nothing
\* for an unknown policy.
Scheduled(list) ==
  IF ~enableOptimization THEN {list}
  ELSE IF hbsdOptimizePerformance \in {0, 1}
         THEN {part \in SUBSET list : part = {} => list = {}}
         ELSE {{}}

PeerLock ==
  /\ ~crashed /\ peerPc = "compare" /\ bundlesLock = "free"
  /\ bundlesLock' = "peer"
  /\ toSend' \in Scheduled(Missing(peerId))
  /\ peerPc' = "send"
  /\ UNCHANGED <<store, mainVars, peerId, sent, replied, msgQueue, events,
                 dtndVars, crashed, conf>>

\* Mutant of PeerSend: the iterator over listToSend is not advanced.
PeerSend_SameAgain(g) ==
  /\ ~crashed /\ peerPc = "send" /\ g \in toSend \cap Buffered
  /\ sent' = sent \cup {<<peerId, g>>}
  /\ UNCHANGED <<store, bundlesLock, mainVars, peerPc, peerId, toSend, replied,
                 msgQueue, events, dtndVars, crashed, conf>>

\* One send request; getByKey asserts that the bundle is still in the store.
PeerSend(g) ==
  /\ ~crashed /\ peerPc = "send" /\ g \in toSend
  /\ IF g \in Buffered
       THEN sent' = sent \cup {<<peerId, g>>} /\ toSend' = toSend \ {g}
            /\ UNCHANGED crashed
       ELSE crashed' = TRUE /\ UNCHANGED <<sent, toSend>>
  /\ UNCHANGED <<store, bundlesLock, mainVars, peerPc, peerId, replied,
                 msgQueue, events, dtndVars, conf>>

\* An EPIDEMIC_SV_1 is answered when it names a bundle the store lacks.
NeedsReply(lid) ==
  /\ lid \in SV1
  /\ Tokens(SV[lid]) \ Buffered # {}

\* Mutant of PeerReply: compareAndSend returns without leaveBundlesLock.
PeerReply_Leaks ==
  /\ ~crashed /\ peerPc = "send" /\ toSend = {}
  /\ replied' = IF NeedsReply(peerId) THEN replied \cup {peerId} ELSE replied
  /\ peerPc' = "idle" /\ peerId' = NONE
  /\ UNCHANGED <<store, bundlesLock, mainVars, toSend, sent, msgQueue, events,
                 dtndVars, crashed, conf>>

PeerReply ==
  /\ ~crashed /\ peerPc = "send" /\ toSend = {}
  /\ replied' = IF NeedsReply(peerId) THEN replied \cup {peerId} ELSE replied
  /\ bundlesLock' = "free"
  /\ peerPc' = "idle" /\ peerId' = NONE
  /\ UNCHANGED <<store, mainVars, toSend, sent, msgQueue, events, dtndVars,
                 crashed, conf>>

------------------------------------------------------------------------------
Add == \/ AddKnown \/ AddStored \/ AddFullDropLast \/ AddFullOptimized
       \/ AddFullUnknownPolicy

Expire(lid) == ExpireUnknown(lid) \/ ExpireStale(lid) \/ ExpireStored(lid)

MainStep ==
  \/ Add
  \/ HandleHello
  \/ \E lid \in LocalId :
       \/ HandleReceived(lid) \/ HandleInjected(lid) \/ Expire(lid)
       \/ HandleDelivered(lid) \/ HandleDelivery(lid)

PeerStep ==
  \/ PeerPop \/ PeerRead \/ PeerNoNode \/ PeerNoLink \/ PeerLock \/ PeerReply
  \/ \E g \in Gbof : PeerSend(g)

DtndStep ==
  \/ DtndHello \/ LoseEvent
  \/ \E lid \in LocalId :
       DtndAccept(lid) \/ DtndExpire(lid) \/ DtndDelete(lid) \/ DtndRestart(lid)

Next == MainStep \/ PeerStep \/ DtndStep

Spec == Init /\ [][Next]_vars

------------------------------------------------------------------------------
(* Safety *)

\* The buffer never holds more bundles than bundlesActiveCapacity, whatever the
\* order of the two lock sections of newBundle and of MeDeHa injections.
WithinCapacity == Cardinality(Buffered) <= maxBufferCapacity

\* A stored object is listed by its own local id.  createSV and compareAndSend
\* find the hash of a bundle as localidGBOFMap[object's local id]: this is what
\* makes a summary vector name every buffered bundle once and nothing else.
SummaryVectorExact ==
  \A g \in Buffered : localidGBOFMap[activeBundles[g]] = g

\* While the PeerListener works through its listToSend the lock is its own and
\* every bundle listed is still stored: no expiry comes between the choice of
\* a bundle and the use of the object (getByKey asserts it is there).
ListedAreStored ==
  peerPc = "send" => bundlesLock = "peer" /\ toSend \subseteq Buffered

\* A whole bundle that a local id maps to is stored, as the object of that very
\* id: duplicates that dtnd lets through are dropped by newBundle, and the
\* operator[] of eventDelivered on activeBundles finds its key.
OneIdPerStored ==
  \A lid \in LocalId :
    ~Shared(lid) /\ localidGBOFMap[lid] \in Gbof
      => activeBundles[localidGBOFMap[lid]] = lid

\* The main thread has come back from a handler with the semaphore taken.
LockLeaked == bundlesLock = "main" /\ mainPc = "idle"

\* The semaphore is left taken only by the expiry of a bundle that dtnd had
\* delivered locally, or of one that shares its key with another local id: a
\* router that carries only whole transit bundles never blocks this way.
LeakNeedsLocalDelivery ==
  LockLeaked => \E lid \in LocalId :
                  dtnd[lid] = "gone" /\ (lid \in Delivered \/ Shared(lid))

\* Until they are full, and they never get emptier, the statistics count this
\* node as a holder of every bundle it buffers.
StatisticsCoverBuffer ==
  enableOptimization /\ Cardinality(Monitored) < statMessagesNumber
    => \A g \in Buffered : messagesMatrix[g] = "held"

\* Without optimization, by the time the PeerListener gives the lock back it has
\* asked dtnd to send whatever the buffer then holds and the vector does not
\* name: nothing came in since the list was made, and nothing in it was passed
\* over, although dtnd is asked once for each bundle and the main thread goes on.
ServedInFull ==
  [][peerPc = "send" /\ peerPc' = "idle" /\ ~enableOptimization
       => \A g \in Missing(peerId) : <<peerId, g>> \in sent]_vars

\* A full buffer stopped the main thread in addIfNew: it waits for the semaphore
\* it holds, or has ended the process.
StoppedFull == ~HasRoom /\ (mainPc = "remove" \/ crashed)

\* The lock was forgotten for the expiry of such a bundle.
ForgottenFor(lid) == dtnd[lid] = "gone" /\ (lid \in Delivered \/ Shared(lid))

\* Between two steps bundlesLock is free; or it is the PeerListener's, exactly
\* while it sends; or the main thread has left it taken, for one of two causes.
\* So a thread that waits for it is served, unless the router is stuck for good.
LockForCause ==
  /\ bundlesLock = "peer" <=> peerPc = "send"
  /\ bundlesLock = "main" => StoppedFull \/ \E lid \in LocalId : ForgottenFor(lid)

\* A key leaves the store only after dtnd retired a bundle of that key, however
\* expiries, re-announcements, losses and the PeerListener interleave; it
\* enters only for a bundle dtnd has announced, and only while there is room.
Store == INSTANCE BundleStore
           WITH buffered <- Buffered, life <- dtnd,
                Capacity <- maxBufferCapacity
StoreSpec == Store!Spec

------------------------------------------------------------------------------
(* What the comments say, and the code does not do *)

\* Bundles.cpp:302 says of expire "Deletes a bundle once it expires,
\* synchronized": the semaphore is given back when the handler is over.
BundlesLockGivenBack == ~LockLeaked

\* Bundles.cpp:236-238: when the buffer is full the drop policy decides "either
\* to add the received bundle in counter part of an already stored one or to
\* delete it".  The router goes on in both cases: it neither waits for its own
\* semaphore nor ends.
DropPolicyDecides ==
  mainPc # "remove" /\ ~(crashed /\ mainPc = "add" /\ bundlesLock = "main")

------------------------------------------------------------------------------
(* Liveness *)

\* Both threads are scheduled, and sem_wait returns once the semaphore is free.
\* dtnd is not required to do anything.
Fairness == WF_vars(MainStep) /\ WF_vars(PeerStep)

FairSpec == Spec /\ Fairness

\* A stored bundle that dtnd retired leaves the buffer in the end.
RetiredLeaves ==
  \A g \in Gbof :
    (g \in Buffered /\ dtnd[activeBundles[g]] = "gone") ~> (g \notin Buffered)

\* The PeerListener gets to the end of every summary vector it takes up.
VectorsServed ==
  \A sv \in SummaryVector : (peerId = sv) ~> (peerId # sv)
=============================================================================
