-------------------------------- MODULE Links --------------------------------
(***************************************************************************)
(* What one HBSD router knows of dtnd's links (Links.cpp, Link.cpp), the   *)
(* nodes at their other ends (Nodes.cpp, Node.cpp), and the pointers       *)
(* between the two:                                                        *)
(*                                                                         *)
(*   linkMap  --->  Link  --currentNode-->  Node  <---  nodesList          *)
(*                   ^                       |                             *)
(*                   +------activeLink-------+                             *)
(*                                                                         *)
(* The main thread follows dtnd's link events, one handler after the       *)
(* other.  The PeerListener takes a Node from nodesList, the Link from the *)
(* Node, and uses the Link later, under no lock that the main thread needs *)
(* to delete either of them.                                               *)
(*                                                                         *)
(* A Link is named by its id and a Node by its EID.  A pointer to an       *)
(* object that was deleted is FREED: using it ends the process, or goes    *)
(* unnoticed, or touches whatever object has the memory now.               *)
(***************************************************************************)
EXTENDS Integers, Sequences

CONSTANTS
  LinkId,       \* dtnd's links
  EID,          \* other nodes
  Networks,     \* what the router may find around it: the node each link leads
                \* to, the links dtnd may delete, those it had before the router
                \* and those that it may close in the middle of a bundle
  QueueBound,   \* bound: events dtnd has on their way at a time
  MaxLosses,    \* bound: datagrams the socket drops
  NULL,
  FREED,        \* a pointer to a deleted object
  WILD          \* a pointer that was never initialized

ASSUME LinksAssumption ==
  /\ Networks \subseteq [peerOf : [LinkId -> EID], mayDelete : SUBSET LinkId,
                         early : SUBSET LinkId, mayCarry : SUBSET LinkId]
  /\ QueueBound \in Nat /\ MaxLosses \in Nat
  /\ NULL # FREED /\ NULL # WILD /\ FREED # WILD
  /\ {NULL, FREED, WILD} \cap (LinkId \cup EID) = {}

\* "the ordinal values below are important": OPEN and above is open.
STATE_NONEXTANT   == 0
STATE_UNAVAILABLE == 1
STATE_AVAILABLE   == 2
STATE_CLOSED      == 3
STATE_OPENING     == 4
STATE_OPEN        == 5

VARIABLES
  linkMap,      \* [LinkId -> "absent", "null" or "object"]
  state,        \* [LinkId -> STATE], of the Link
  knownPeer,    \* [LinkId -> EID or NULL], Link::remoteEID
  currentNode,  \* [LinkId -> EID, NULL, FREED or WILD], of the Link
  nodesList,    \* the EIDs that have a Node
  activeLink,   \* [EID -> LinkId, NULL or FREED], of the Node
  peerPc,       \* the PeerListener's place
  peerNode, peerLink, \* its pointers
  events,       \* the datagrams from dtnd, in order
  dtndLink,     \* [LinkId -> "none", "down" or "open"]
  unsent,       \* links closed in the middle of a bundle, of which dtnd has
                \* still to tell that it was transmitted
  tooLate,      \* history: links of which it told that when they were deleted
  ended,        \* "no", or why the process ended
  losses,
  network       \* the one of Networks that this is

linkVars == <<linkMap, state, knownPeer, currentNode, nodesList, activeLink>>
peerVars == <<peerPc, peerNode, peerLink>>
dtndVars == <<dtndLink, unsent, tooLate>>
vars == <<linkVars, peerVars, events, dtndVars, ended, losses,
          network>>

PeerOf    == network.peerOf
MayDelete == network.mayDelete
Early     == network.early
MayCarry  == network.mayCarry

LinkEvents ==
  {"created", "deleted", "available", "unavailable", "opened", "closed"}

LinksTyped ==
  /\ linkMap \in [LinkId -> {"absent", "null", "object"}]
  /\ state \in [LinkId -> STATE_NONEXTANT .. STATE_OPEN]
  /\ knownPeer \in [LinkId -> EID \cup {NULL}]
  /\ currentNode \in [LinkId -> EID \cup {NULL, FREED, WILD}]
  /\ nodesList \subseteq EID
  /\ activeLink \in [EID -> LinkId \cup {NULL, FREED}]

TypeOK ==
  /\ LinksTyped
  /\ peerPc \in {"idle", "node", "link"}
  /\ peerNode \in EID \cup {NULL, FREED}
  /\ peerLink \in LinkId \cup {NULL, FREED}
  /\ events \in Seq((LinkEvents \X LinkId) \cup ({"transmitted"} \X LinkId)
                      \cup ({"bundle"} \X EID) \cup {<<"hello", NULL>>})
  /\ dtndLink \in [LinkId -> {"none", "down", "open"}]
  /\ unsent \subseteq LinkId /\ tooLate \subseteq LinkId
  /\ ended \in {"no", "null entry", "unknown deleted", "freed", "no link"}
  /\ losses \in 0 .. MaxLosses
  /\ network \in Networks

Init ==
  /\ network \in Networks
  /\ linkMap = [l \in LinkId |-> "absent"]
  /\ state = [l \in LinkId |-> STATE_NONEXTANT]
  /\ knownPeer = [l \in LinkId |-> NULL]
  /\ currentNode = [l \in LinkId |-> WILD]
  /\ nodesList = {}
  /\ activeLink = [e \in EID |-> NULL]
  /\ peerPc = "idle" /\ peerNode = NULL /\ peerLink = NULL
  /\ events = <<>>
  /\ dtndLink = [l \in LinkId |-> IF l \in Early THEN "down" ELSE "none"]
  /\ unsent = {} /\ tooLate = {}
  /\ ended = "no"
  /\ losses = 0

------------------------------------------------------------------------------
(* dtnd *)

\* dtnd sends these events; nobody listens once the router has ended.
Tells(news) ==
  /\ ended = "no" /\ Len(events) < QueueBound
  /\ events' = events \o news

DtndOnly == UNCHANGED <<linkVars, peerVars, ended, network>>

DtndCreate(l) ==
  /\ dtndLink[l] = "none"
  /\ dtndLink' = [dtndLink EXCEPT ![l] = "down"]
  /\ Tells(<< <<"created", l>> >>)
  /\ DtndOnly /\ UNCHANGED <<unsent, tooLate, losses>>

\* A link that is not open becomes available, or cannot be opened.
DtndNotice(l) ==
  /\ dtndLink[l] = "down"
  /\ \/ Tells(<< <<"available", l>> >>)
     \/ Tells(<< <<"unavailable", l>> >>)
  /\ DtndOnly /\ UNCHANGED <<dtndVars, losses>>

\* The router asked for it, or the peer came: dtnd opens what is down in either
\* case, and at any time.
DtndOpen(l) ==
  /\ dtndLink[l] = "down"
  /\ dtndLink' = [dtndLink EXCEPT ![l] = "open"]
  /\ Tells(<< <<"opened", l>> >>)
  /\ DtndOnly /\ UNCHANGED <<unsent, tooLate, losses>>

\* The link stops being open, perhaps in the middle of a bundle: close_contact
\* then posts a transmission at the tail of dtnd's queue.
Stops(l) ==
  /\ unsent' \in {unsent, unsent \cup ({l} \cap MayCarry)}
  /\ UNCHANGED tooLate

\* An idle link is closed, or the contact breaks:
\* handle_link_state_change_request posts both events at the head of dtnd's
\* queue, which turns them round.
DtndClose(l) ==
  /\ dtndLink[l] = "open"
  /\ dtndLink' = [dtndLink EXCEPT ![l] = "down"]
  /\ \/ Tells(<< <<"closed", l>> >>)
     \/ Tells(<< <<"unavailable", l>>, <<"closed", l>> >>)
  /\ Stops(l)
  /\ DtndOnly /\ UNCHANGED losses

DtndDelete(l) ==
  /\ l \in MayDelete /\ dtndLink[l] # "none"
  /\ dtndLink' = [dtndLink EXCEPT ![l] = "none"]
  /\ IF dtndLink[l] = "open"
       THEN /\ Stops(l)
            /\ Tells(<< <<"unavailable", l>>, <<"closed", l>>, <<"deleted", l>> >>)
       ELSE Tells(<< <<"deleted", l>> >>) /\ UNCHANGED <<unsent, tooLate>>
  /\ DtndOnly /\ UNCHANGED losses

\* A bundle is sent over the open link, or dtnd comes to the transmission that
\* the end of the contact left: the link may be gone by then.
DtndTransmitted(l) ==
  /\ \/ dtndLink[l] = "open" /\ l \in MayCarry /\ UNCHANGED unsent
     \/ l \in unsent /\ unsent' = unsent \ {l}
  /\ tooLate' = IF dtndLink[l] = "none" THEN tooLate \cup {l} ELSE tooLate
  /\ Tells(<< <<"transmitted", l>> >>)
  /\ DtndOnly /\ UNCHANGED <<dtndLink, losses>>

DtndHello ==
  /\ events = <<>> /\ Tells(<< <<"hello", NULL>> >>)
  /\ DtndOnly /\ UNCHANGED <<dtndVars, losses>>

\* A bundle for another node arrives.
DtndBundle(e) ==
  /\ e \notin nodesList /\ Tells(<< <<"bundle", e>> >>)
  /\ DtndOnly /\ UNCHANGED <<dtndVars, losses>>

LoseEvent ==
  /\ losses < MaxLosses /\ events # <<>>
  /\ losses' = losses + 1 /\ events' = Tail(events)
  /\ DtndOnly /\ UNCHANGED dtndVars

------------------------------------------------------------------------------
(* The main thread *)

Takes(type, subject) ==
  /\ ended = "no"
  /\ events # <<>> /\ Head(events) = <<type, subject>>
  /\ events' = Tail(events)

MainOnly == UNCHANGED <<peerVars, dtndVars, losses, network>>

\* stateChange to this state un-associates the link and its node.
Leaves(l, newState) == state[l] >= STATE_OPEN /\ newState < STATE_OPEN

\* Mutant of NewState: the ordinals are shifted.
NewState_Shifted(l, newState) == state' = [state EXCEPT ![l] = newState + 1]

\* stateChange on the state alone.
NewState(l, newState) == state' = [state EXCEPT ![l] = newState]

\* Mutant of Cleared: the node keeps its link.
Cleared_KeepsLink(l, newState) == {activeLink}

\* What stateChange makes of the nodes: clearLink on the link's node, if it
\* has one.  A node that was freed may have left its memory to any other.
Cleared(l, newState) ==
  LET Without(e) == [activeLink EXCEPT ![e] = NULL]
  IN  CASE ~Leaves(l, newState) \/ currentNode[l] = NULL -> {activeLink}
        [] Leaves(l, newState) /\ currentNode[l] \in EID ->
             {Without(currentNode[l])}
        [] Leaves(l, newState) /\ currentNode[l] \in {FREED, WILD} ->
             {activeLink} \cup {Without(e) : e \in nodesList}

\* What stateChange makes of currentNode.
NodeAfter(l, newState) ==
  IF Leaves(l, newState) THEN NULL ELSE currentNode[l]

StateChange(l, newState) ==
  /\ NewState(l, newState)
  /\ activeLink' \in Cleared(l, newState)
  /\ currentNode' = [currentNode EXCEPT ![l] = NodeAfter(l, newState)]

\* getById, called with the id of the event: operator[] makes an entry.
Known(l) == linkMap[l] = "object"
LookedUp(l) == IF Known(l) THEN linkMap ELSE [linkMap EXCEPT ![l] = "null"]

\* A handler for a link that is not in the map, other than created and deleted.
HandleUnknown(l) ==
  /\ \E type \in LinkEvents \ {"created", "deleted"} : Takes(type, l)
  /\ ~Known(l)
  /\ linkMap' = LookedUp(l)
  /\ MainOnly
  /\ UNCHANGED <<state, knownPeer, currentNode, nodesList, activeLink, ended>>

\* handler_data_transmitted_event only looks the link up: one that is unknown it
\* means to report, and getById leaves its entry.
HandleTransmitted(l) ==
  /\ Takes("transmitted", l)
  /\ linkMap' = LookedUp(l)
  /\ MainOnly
  /\ UNCHANGED <<state, knownPeer, currentNode, nodesList, activeLink, ended>>

\* Links::create: a second creation is ignored; init takes the state that the
\* event gives, which is not yet that of an open link (dtnd's handle_contact_up
\* alone makes it so, later); the constructor leaves currentNode as it finds it.
HandleCreated(l) ==
  /\ Takes("created", l)
  /\ IF Known(l)
       THEN UNCHANGED <<linkMap, state, knownPeer, currentNode>>
       ELSE /\ linkMap' = [linkMap EXCEPT ![l] = "object"]
            /\ \E s \in {STATE_UNAVAILABLE, STATE_AVAILABLE, STATE_OPENING} :
                 NewState(l, s)
            /\ knownPeer' = [knownPeer EXCEPT ![l] = NULL]
            /\ currentNode' = [currentNode EXCEPT ![l] = WILD]
  /\ MainOnly
  /\ UNCHANGED <<nodesList, activeLink, ended>>

\* handler_link_available_event: what requestOpen then asks of dtnd is one of
\* the reasons for which it may open the link (DtndOpen).
HandleAvailable(l) ==
  /\ Takes("available", l) /\ Known(l)
  /\ StateChange(l, STATE_AVAILABLE)
  /\ MainOnly
  /\ UNCHANGED <<linkMap, knownPeer, nodesList, ended>>

HandleUnavailable(l) ==
  /\ Takes("unavailable", l) /\ Known(l)
  /\ StateChange(l, STATE_UNAVAILABLE)
  /\ MainOnly
  /\ UNCHANGED <<linkMap, knownPeer, nodesList, ended>>

\* Mutant of HandleOpened: the link takes the node although another has it.
HandleOpened_Steals(l) ==
  LET e == PeerOf[l]
  IN  /\ Takes("opened", l) /\ Known(l)
      /\ NewState(l, STATE_OPEN)
      /\ knownPeer' = [knownPeer EXCEPT ![l] = e]
      /\ nodesList' = nodesList \cup {e}
      /\ activeLink' = [activeLink EXCEPT ![e] = l]
      /\ currentNode' = [currentNode EXCEPT ![l] = e]
      /\ MainOnly
      /\ UNCHANGED <<linkMap, ended>>

\* Link::opened: the node is made if need be; the link is associated with it
\* unless another link is.
HandleOpened(l) ==
  LET e    == PeerOf[l]
      mine == activeLink[e] \in {NULL, l}
  IN  /\ Takes("opened", l) /\ Known(l)
      /\ NewState(l, STATE_OPEN)
      /\ knownPeer' = [knownPeer EXCEPT ![l] = e]
      /\ nodesList' = nodesList \cup {e}
      /\ activeLink' = IF mine THEN [activeLink EXCEPT ![e] = l] ELSE activeLink
      /\ currentNode' = [currentNode EXCEPT ![l] = IF mine THEN e ELSE NULL]
      /\ MainOnly
      /\ UNCHANGED <<linkMap, ended>>

\* Mutant of HandleClosed: the state is kept.
HandleClosed_KeepsState(l) ==
  /\ Takes("closed", l) /\ Known(l)
  /\ knownPeer' = [knownPeer EXCEPT ![l] = PeerOf[l]]
  /\ MainOnly
  /\ UNCHANGED <<state, currentNode, activeLink, linkMap, nodesList, ended>>

HandleClosed(l) ==
  /\ Takes("closed", l) /\ Known(l)
  /\ knownPeer' = [knownPeer EXCEPT ![l] = PeerOf[l]]
  /\ StateChange(l, STATE_CLOSED)
  /\ MainOnly
  /\ UNCHANGED <<linkMap, nodesList, ended>>

\* Mutant of Removed: the entry stays, without its Link.
Removed_Nulled(l) == [linkMap EXCEPT ![l] = "null"]

\* Links::remove of a link that is in the map.
Removed(l) == [linkMap EXCEPT ![l] = "absent"]

\* Links::deleteEvt: the link leaves the map and the open state; the node of
\* its remoteEID goes, whichever link it is associated with; the object goes.
\* Every pointer to either of them is FREED from here on.
HandleDeleted(l) ==
  LET e       == knownPeer[l]
      noNode  == {k \in LinkId \ {l} : e \in nodesList /\ currentNode[k] = e}
  IN  /\ Takes("deleted", l) /\ Known(l)
      /\ linkMap' = Removed(l)
      /\ NewState(l, STATE_NONEXTANT)
      /\ nodesList' = nodesList \ {e}
      /\ \E links \in Cleared(l, STATE_NONEXTANT) :
           activeLink' = [other \in EID |-> IF other = e THEN NULL
                                            ELSE IF links[other] = l THEN FREED
                                            ELSE links[other]]
      /\ currentNode' = [k \in LinkId |-> IF k = l THEN WILD
                                          ELSE IF k \in noNode THEN FREED
                                          ELSE currentNode[k]]
      /\ peerNode' = IF peerNode # NULL /\ peerNode = e THEN FREED ELSE peerNode
      /\ peerLink' = IF peerLink = l THEN FREED ELSE peerLink
      /\ UNCHANGED <<peerPc, knownPeer, dtndVars, losses, ended, network>>

\* deleteEvt for an unknown link: remove returns NULL, and link->deleted() is
\* called on it.
HandleDeletedUnknown(l) ==
  /\ Takes("deleted", l) /\ ~Known(l)
  /\ linkMap' = LookedUp(l)
  /\ ended' = "unknown deleted"
  /\ MainOnly
  /\ UNCHANGED <<state, knownPeer, currentNode, nodesList, activeLink>>

\* stateChange calls clearLink on a node that was freed, and does not survive.
UseFreedNode(l) ==
  /\ Known(l) /\ currentNode[l] \in {FREED, WILD}
  /\ \E type \in LinkEvents \ {"created", "opened"} : Takes(type, l)
  /\ Leaves(l, STATE_NONEXTANT)
  /\ ended' = "freed"
  /\ MainOnly
  /\ UNCHANGED linkVars

\* InitiateESWithAvailableLinks dereferences every entry of the map.
HandleHello ==
  /\ Takes("hello", NULL)
  /\ ended' = IF \E l \in LinkId : linkMap[l] = "null" THEN "null entry"
              ELSE ended
  /\ MainOnly
  /\ UNCHANGED linkVars

\* addDestNode: the destination of a bundle becomes a node, without a link.
HandleBundle(e) ==
  /\ Takes("bundle", e)
  /\ nodesList' = nodesList \cup {e}
  /\ MainOnly
  /\ UNCHANGED <<linkMap, state, knownPeer, currentNode, activeLink, ended>>

------------------------------------------------------------------------------
(* The PeerListener thread: metaDataReceived for a summary vector of node e *)

PeerFindNode(e) ==
  /\ ended = "no" /\ peerPc = "idle" /\ e \in nodesList
  /\ peerPc' = "node" /\ peerNode' = e
  /\ UNCHANGED <<linkVars, peerLink, events, dtndVars, ended, losses,
                 network>>

\* getAssociatedLink; compareAndSend asserts that there is one.
PeerGetLink ==
  /\ ended = "no" /\ peerPc = "node"
  /\ \/ /\ peerNode \in EID /\ activeLink[peerNode] # NULL
        /\ peerPc' = "link" /\ peerLink' = activeLink[peerNode]
        /\ UNCHANGED ended
     \/ /\ peerNode = FREED
        /\ peerPc' = "link" /\ peerLink' = FREED
        /\ UNCHANGED ended
     \/ /\ peerNode = FREED
        /\ ended' = "freed" /\ UNCHANGED <<peerPc, peerLink>>
     \/ /\ peerNode \in EID /\ activeLink[peerNode] = NULL
        /\ ended' = "no link" /\ UNCHANGED <<peerPc, peerLink>>
  /\ UNCHANGED <<linkVars, peerNode, events, dtndVars, losses, network>>

\* The send requests name link->id, then the node's session time is updated.
PeerUse ==
  /\ ended = "no" /\ peerPc = "link"
  /\ peerPc' = "idle" /\ peerNode' = NULL /\ peerLink' = NULL
  /\ \/ UNCHANGED ended
     \/ FREED \in {peerNode, peerLink} /\ ended' = "freed"
  /\ UNCHANGED <<linkVars, events, dtndVars, losses, network>>

------------------------------------------------------------------------------
HandleLink(l) ==
  \/ HandleUnknown(l) \/ HandleTransmitted(l) \/ HandleCreated(l)
  \/ HandleAvailable(l) \/ HandleUnavailable(l)
  \/ HandleOpened(l) \/ HandleClosed(l)
  \/ HandleDeleted(l) \/ HandleDeletedUnknown(l) \/ UseFreedNode(l)

MainStep ==
  \/ HandleHello
  \/ \E l \in LinkId : HandleLink(l)
  \/ \E e \in EID : HandleBundle(e)

PeerStep == PeerGetLink \/ PeerUse \/ \E e \in EID : PeerFindNode(e)

DtndStep ==
  \/ DtndHello \/ LoseEvent
  \/ \E e \in EID : DtndBundle(e)
  \/ \E l \in LinkId : \/ DtndCreate(l) \/ DtndNotice(l) \/ DtndOpen(l)
                       \/ DtndClose(l) \/ DtndDelete(l) \/ DtndTransmitted(l)

Next == MainStep \/ PeerStep \/ DtndStep

Spec == Init /\ [][Next]_vars

------------------------------------------------------------------------------
(* Safety *)

\* The link that metaDataReceived finds at a node is in the map, open, and
\* associated with this very node: whatever events are lost, however links are
\* deleted and made again, no node is left with a link that is gone.
LinkOfNode ==
  \A e \in EID :
    /\ activeLink[e] # FREED
    /\ activeLink[e] \in LinkId =>
         /\ e \in nodesList
         /\ Known(activeLink[e]) /\ state[activeLink[e]] = STATE_OPEN
         /\ currentNode[activeLink[e]] = e

\* The links that dtnd may delete share their peer with no other link.
Separate == \A l \in MayDelete : \A k \in LinkId \ {l} : PeerOf[k] # PeerOf[l]

\* The converse: the node that stateChange will clear is alive and has this
\* link.  Two links to one node do not both claim it; deletion breaks this only
\* when the node has another link.
NodeOfLink ==
  Separate => \A l \in LinkId :
                /\ currentNode[l] # FREED
                /\ currentNode[l] \in EID => activeLink[currentNode[l]] = l
                /\ currentNode[l] = WILD => state[l] < STATE_OPEN

\* Unless a datagram was lost, the router's idea of a link it knows is dtnd's,
\* as soon as it has handled every event about it, in whatever order dtnd's
\* queue put them.
NothingPending(l) == \A i \in DOMAIN events : events[i][2] # l
InSync ==
  losses = 0 /\ ended = "no" =>
    \A l \in LinkId : NothingPending(l) =>
      /\ l \notin Early => (Known(l) <=> dtndLink[l] # "none")
      /\ Known(l) => (state[l] = STATE_OPEN <=> dtndLink[l] = "open")

\* The deletion of a link that is not in the map ends only a router that missed
\* a creation; the entry without a Link that the hello loop cannot stand ends
\* one that did, or that was told of a transmission over that very link after
\* its deletion (data_transmitted).  No other order of events, and no link made
\* again, brings them about.
EndsOnlyUninformed ==
  losses = 0 =>
    /\ ended = "unknown deleted" => Early # {}
    /\ ended = "null entry" =>
         \E l \in LinkId : linkMap[l] = "null" /\ l \in Early \cup tooLate
=============================================================================
