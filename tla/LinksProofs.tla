----------------------------- MODULE LinksProofs -----------------------------
(***************************************************************************)
(* The pointers between links and nodes, for any number of links, nodes    *)
(* and lost datagrams.  LinkOfNode needs that a link's node is always the  *)
(* node at its other end; NodeOfLink needs in addition that dtnd deletes   *)
(* only the links it may delete, which is a fact about the datagrams that  *)
(* are still on their way.  InSync needs that the router's view of a link, *)
(* followed by the datagrams that wait, is what dtnd did.                  *)
(***************************************************************************)
EXTENDS Links, SequenceTheorems, TLAPS

Event ==
  (LinkEvents \X LinkId) \cup ({"transmitted"} \X LinkId)
    \cup ({"bundle"} \X EID) \cup {<<"hello", NULL>>}

\* The events that dtnd can have sent.
Possible == {ev \in Event : ev[1] = "deleted" => ev[2] \in MayDelete}

\* A link never has another node than the one it leads to.
OwnPeer ==
  \A l \in LinkId :
    /\ knownPeer[l] \in {NULL, PeerOf[l]}
    /\ currentNode[l] \in EID => currentNode[l] = PeerOf[l]

IInv ==
  /\ TypeOK
  /\ events \in Seq(Possible)
  /\ OwnPeer
  /\ LinkOfNode
  /\ NodeOfLink

\* The network is one that the constants allow, and stays what it is.
LEMMA NetworkType ==
  ASSUME TypeOK
  PROVE  PeerOf \in [LinkId -> EID] /\ MayDelete \subseteq LinkId
BY LinksAssumption DEF TypeOK, PeerOf, MayDelete

LEMMA NetworkFixed ==
  ASSUME [Next]_vars
  PROVE  /\ network' = network /\ PeerOf' = PeerOf /\ MayDelete' = MayDelete
         /\ Possible' = Possible
<1>1. network' = network
  BY DEF Next, MainStep, HandleLink, HandleUnknown, HandleTransmitted, HandleCreated,
     HandleAvailable, HandleUnavailable, HandleOpened, HandleClosed,
     HandleDeleted, HandleDeletedUnknown, UseFreedNode, HandleHello,
     HandleBundle, MainOnly, PeerStep, PeerFindNode, PeerGetLink, PeerUse,
     DtndStep, DtndHello, DtndBundle, DtndCreate, DtndNotice, DtndOpen,
     DtndClose, DtndDelete, DtndTransmitted, LoseEvent, DtndOnly, vars
<1>2. QED
  BY <1>1 DEF PeerOf, MayDelete, Possible, Event

LEMMA InitIInv == Init => IInv
<1> SUFFICES ASSUME Init PROVE IInv
  OBVIOUS
<1> USE LinksAssumption DEF Init, STATE_NONEXTANT, STATE_OPEN
<1>1. TypeOK
  BY DEF TypeOK, LinksTyped, Early
<1>2. events \in Seq(Possible)
  OBVIOUS
<1>3. OwnPeer
  BY DEF OwnPeer
<1>4. LinkOfNode /\ NodeOfLink
  BY DEF LinkOfNode, NodeOfLink
<1>5. QED
  BY <1>1, <1>2, <1>3, <1>4 DEF IInv

\* What dtnd sends, and what the router takes, leaves a queue of possible events.
LEMMA QueueStep ==
  IInv /\ [Next]_vars => events' \in Seq(Possible)
<1> SUFFICES ASSUME IInv, [Next]_vars PROVE events' \in Seq(Possible)
  OBVIOUS
<1>q. events \in Seq(Possible)
  BY DEF IInv
<1>1. CASE UNCHANGED events
  BY <1>1, <1>q
<1>2. CASE events # <<>> /\ events' = Tail(events)
  BY <1>2, <1>q
<1>3. ASSUME NEW news \in Seq(Possible), Tells(news)
      PROVE  events' \in Seq(Possible)
  BY <1>3, <1>q DEF Tells
<1>4. ASSUME NEW l \in LinkId,
             NEW type \in {"created", "available", "unavailable", "opened", "closed",
                          "transmitted"}
      PROVE  <<type, l>> \in Possible
  BY DEF Possible, Event, LinkEvents
<1>5. CASE DtndStep
  <2>1. ASSUME NEW l \in LinkId, DtndCreate(l) \/ DtndNotice(l) \/ DtndOpen(l)
                               \/ DtndTransmitted(l)
        PROVE  events' \in Seq(Possible)
    <3>1. PICK type \in {"created", "available", "unavailable", "opened",
                         "transmitted"} :
             Tells(<< <<type, l>> >>)
      BY <2>1 DEF DtndCreate, DtndNotice, DtndOpen, DtndTransmitted
    <3>2. <<type, l>> \in Possible
      BY <1>4
    <3>3. << <<type, l>> >> \in Seq(Possible)
      BY <3>2
    <3>4. QED
      BY <1>3, <3>1, <3>3
  <2>2. ASSUME NEW l \in LinkId, DtndClose(l)
        PROVE  events' \in Seq(Possible)
    <3>1. <<"unavailable", l>> \in Possible /\ <<"closed", l>> \in Possible
      BY <1>4
    <3>2. /\ << <<"closed", l>> >> \in Seq(Possible)
          /\ << <<"unavailable", l>>, <<"closed", l>> >> \in Seq(Possible)
      BY <3>1
    <3>3. QED
      BY <1>3, <2>2, <3>2 DEF DtndClose
  <2>3. ASSUME NEW l \in LinkId, DtndDelete(l)
        PROVE  events' \in Seq(Possible)
    <3>1. /\ <<"unavailable", l>> \in Possible /\ <<"closed", l>> \in Possible
          /\ <<"deleted", l>> \in Possible
      BY <1>4, <2>3 DEF DtndDelete, Possible, Event, LinkEvents
    <3>2. /\ << <<"deleted", l>> >> \in Seq(Possible)
          /\ << <<"unavailable", l>>, <<"closed", l>>, <<"deleted", l>> >>
               \in Seq(Possible)
      BY <3>1
    <3>3. QED
      BY <1>3, <2>3, <3>2 DEF DtndDelete
  <2>4. ASSUME NEW e \in EID, DtndBundle(e)
        PROVE  events' \in Seq(Possible)
    <3>1. << <<"bundle", e>> >> \in Seq(Possible)
      BY DEF Possible, Event
    <3>2. QED
      BY <1>3, <2>4, <3>1 DEF DtndBundle
  <2>5. CASE DtndHello
    <3>1. << <<"hello", NULL>> >> \in Seq(Possible)
      BY DEF Possible, Event
    <3>2. QED
      BY <1>3, <2>5, <3>1 DEF DtndHello
  <2>6. CASE LoseEvent
    BY <1>2, <2>6 DEF LoseEvent
  <2>7. QED
    BY <1>5, <2>1, <2>2, <2>3, <2>4, <2>5, <2>6 DEF DtndStep
<1>6. CASE MainStep
  <2>1. \E type \in LinkEvents \cup {"hello", "bundle", "transmitted"},
           subject \in LinkId \cup EID \cup {NULL} : Takes(type, subject)
    BY <1>6 DEF MainStep, HandleLink, HandleUnknown, HandleTransmitted, HandleCreated,
       HandleAvailable, HandleUnavailable, HandleOpened, HandleClosed,
       HandleDeleted, HandleDeletedUnknown, UseFreedNode, HandleHello,
       HandleBundle, LinkEvents
  <2>2. QED
    BY <1>2, <2>1 DEF Takes
<1>7. CASE PeerStep
  BY <1>1, <1>7 DEF PeerStep, PeerFindNode, PeerGetLink, PeerUse
<1>8. CASE UNCHANGED vars
  BY <1>1, <1>8 DEF vars
<1>9. QED
  BY <1>5, <1>6, <1>7, <1>8 DEF Next

------------------------------------------------------------------------------
(* Each conjunct is preserved by each action *)

\* What stateChange leaves: it changes a node's link only by clearing it, and
\* clears the link of its own node when the link stops being open.
LEMMA ClearedNodes ==
  ASSUME TypeOK, LinkOfNode, NEW l \in LinkId, NEW newState \in 0 .. 4,
         NEW links \in Cleared(l, newState)
  PROVE  /\ links \in [EID -> LinkId \cup {NULL}]
         /\ \A e \in EID : links[e] \in {activeLink[e], NULL}
         /\ \A e \in EID : links[e] # l
<1> USE LinksAssumption DEF STATE_OPEN, STATE_NONEXTANT
<1>1. activeLink \in [EID -> LinkId \cup {NULL}]
  <2>1. activeLink \in [EID -> LinkId \cup {NULL, FREED}]
    BY DEF TypeOK, LinksTyped
  <2>2. \A e \in EID : activeLink[e] # FREED
    BY DEF LinkOfNode
  <2>3. QED
    BY <2>1, <2>2
<1>2. CASE ~Leaves(l, newState)
  <2>1. links = activeLink
    BY <1>2 DEF Cleared
  <2>2. state[l] < 5
    <3>1. state[l] \in 0 .. 5
      BY DEF TypeOK, LinksTyped
    <3>2. QED
      BY <1>2, <3>1 DEF Leaves
  <2>3. QED
    BY <1>1, <2>1, <2>2 DEF LinkOfNode
<1>3. CASE Leaves(l, newState)
  <2>1. \A e \in EID : activeLink[e] = l => currentNode[l] = e
    BY DEF LinkOfNode
  <2>2. CASE currentNode[l] \in EID
    <3>1. links = [activeLink EXCEPT ![currentNode[l]] = NULL]
      BY <1>3, <2>2 DEF Cleared
    <3>2. QED
      BY <1>1, <2>1, <2>2, <3>1
  <2>3. CASE currentNode[l] \notin EID
    <3>1. \A e \in EID : activeLink[e] # l
      BY <2>1, <2>3
    <3>2. \/ links = activeLink
          \/ \E e \in nodesList : links = [activeLink EXCEPT ![e] = NULL]
      BY <1>3, <2>3 DEF Cleared, TypeOK, LinksTyped
    <3>3. QED
      BY <1>1, <3>1, <3>2 DEF TypeOK, LinksTyped
  <2>4. QED
    BY <2>2, <2>3
<1>4. QED
  BY <1>2, <1>3


\* Six of them are changed by link events only.
LEMMA LinksTypedStep == IInv /\ [Next]_vars => LinksTyped'
<1> SUFFICES ASSUME IInv, [Next]_vars PROVE LinksTyped'
  OBVIOUS
<1> USE LinksAssumption DEF STATE_NONEXTANT, STATE_UNAVAILABLE, STATE_AVAILABLE,
        STATE_CLOSED, STATE_OPENING, STATE_OPEN
<1>t. LinksTyped /\ TypeOK /\ LinkOfNode
  BY DEF IInv, TypeOK
<1>p. \A l \in LinkId : PeerOf[l] \in EID
  BY <1>t, NetworkType
<1>s. ASSUME NEW l \in LinkId, NEW newState \in 0 .. 4, StateChange(l, newState)
      PROVE  /\ state' \in [LinkId -> 0 .. 5]
             /\ activeLink' \in [EID -> LinkId \cup {NULL, FREED}]
             /\ currentNode' \in [LinkId -> EID \cup {NULL, FREED, WILD}]
  <2>1. activeLink' \in [EID -> LinkId \cup {NULL}]
    BY <1>t, <1>s, ClearedNodes DEF StateChange
  <2>2. state' \in [LinkId -> 0 .. 5]
    BY <1>t, <1>s DEF StateChange, NewState, LinksTyped
  <2>3. NodeAfter(l, newState) \in EID \cup {NULL, FREED, WILD}
    BY <1>t DEF NodeAfter, LinksTyped
  <2>4. currentNode' \in [LinkId -> EID \cup {NULL, FREED, WILD}]
    BY <1>t, <1>s, <2>3 DEF StateChange, LinksTyped
  <2>5. QED
    BY <2>1, <2>2, <2>4
<1>1. ASSUME UNCHANGED linkVars
      PROVE  LinksTyped'
  BY <1>t, <1>1 DEF linkVars, LinksTyped
<1>2. ASSUME NEW l \in LinkId, HandleLink(l)
      PROVE  LinksTyped'
  <2>1. CASE HandleUnknown(l) \/ HandleTransmitted(l) \/ HandleDeletedUnknown(l)
    BY <1>t, <2>1 DEF HandleUnknown, HandleTransmitted, HandleDeletedUnknown, LookedUp, LinksTyped
  <2>2. CASE UseFreedNode(l)
    BY <1>1, <2>2 DEF UseFreedNode
  <2>3. CASE HandleCreated(l)
    <3>1. CASE Known(l)
      BY <1>t, <2>3, <3>1 DEF HandleCreated, LinksTyped
    <3>2. CASE ~Known(l)
      BY <1>t, <2>3, <3>2 DEF HandleCreated, NewState, LinksTyped
    <3>3. QED
      BY <3>1, <3>2
  <2>4. CASE HandleAvailable(l) \/ HandleUnavailable(l)
    BY <1>t, <1>s, <2>4 DEF HandleAvailable, HandleUnavailable, LinksTyped
  <2>5. CASE HandleOpened(l)
    BY <1>t, <1>p, <2>5 DEF HandleOpened, NewState, LinksTyped
  <2>6. CASE HandleClosed(l)
    BY <1>t, <1>p, <1>s, <2>6 DEF HandleClosed, LinksTyped
  <2>7. CASE HandleDeleted(l)
    <3>1. PICK links \in Cleared(l, STATE_NONEXTANT) :
            activeLink' = [other \in EID |-> IF other = knownPeer[l] THEN NULL
                                             ELSE IF links[other] = l THEN FREED
                                             ELSE links[other]]
      BY <2>7 DEF HandleDeleted
    <3>2. activeLink' \in [EID -> LinkId \cup {NULL, FREED}]
      BY <1>t, <3>1, ClearedNodes
    <3>3. currentNode' \in [LinkId -> EID \cup {NULL, FREED, WILD}]
      BY <1>t, <2>7 DEF HandleDeleted, LinksTyped
    <3>4. QED
      BY <1>t, <2>7, <3>2, <3>3 DEF HandleDeleted, Removed, NewState,
         LinksTyped
  <2>8. QED
    BY <1>2, <2>1, <2>2, <2>3, <2>4, <2>5, <2>6, <2>7 DEF HandleLink
<1>3. CASE \E e \in EID : HandleBundle(e)
  BY <1>t, <1>3 DEF HandleBundle, LinksTyped
<1>4. CASE HandleHello \/ PeerStep \/ DtndStep \/ UNCHANGED vars
  BY <1>1, <1>4 DEF HandleHello, PeerStep, PeerFindNode, PeerGetLink, PeerUse,
     DtndStep, DtndHello, DtndBundle, DtndCreate, DtndNotice, DtndOpen,
     DtndClose,
     DtndDelete, DtndTransmitted, LoseEvent, DtndOnly, vars
<1>5. QED
  BY <1>2, <1>3, <1>4 DEF Next, MainStep

\* The PeerListener's variables, and why the process ended, have their types.
PeerTyped ==
  /\ peerPc \in {"idle", "node", "link"}
  /\ peerNode \in EID \cup {NULL, FREED}
  /\ peerLink \in LinkId \cup {NULL, FREED}
  /\ ended \in {"no", "null entry", "unknown deleted", "freed", "no link"}

\* So do the rest.
LEMMA TypeStep == IInv /\ [Next]_vars => TypeOK'
<1> SUFFICES ASSUME IInv, [Next]_vars PROVE TypeOK'
  OBVIOUS
<1> USE LinksAssumption
<1>t. TypeOK
  BY DEF IInv
<1>l. LinksTyped'
  BY LinksTypedStep
<1>q. events' \in Seq(Event)
  BY QueueStep DEF Possible
<1>e. Event = (LinkEvents \X LinkId) \cup ({"transmitted"} \X LinkId)
                \cup ({"bundle"} \X EID) \cup {<<"hello", NULL>>}
  BY DEF Event
<1>1. /\ unsent' \subseteq LinkId /\ tooLate' \subseteq LinkId
      /\ losses' \in 0 .. MaxLosses
      /\ dtndLink' \in [LinkId -> {"none", "down", "open"}]
  <2>t. /\ unsent \subseteq LinkId /\ tooLate \subseteq LinkId
        /\ losses \in 0 .. MaxLosses
        /\ dtndLink \in [LinkId -> {"none", "down", "open"}]
    BY <1>t DEF TypeOK
  <2>1. CASE DtndStep
    <3>1. \A l \in LinkId : DtndCreate(l) \/ DtndOpen(l) \/ DtndClose(l) =>
            dtndLink' \in [LinkId -> {"none", "down", "open"}]
      BY <2>t DEF DtndCreate, DtndOpen, DtndClose
    <3>2. \A l \in LinkId : DtndNotice(l) \/ DtndDelete(l) \/ DtndTransmitted(l) =>
            dtndLink' \in [LinkId -> {"none", "down", "open"}]
      BY <2>t DEF DtndNotice, DtndDelete, DtndTransmitted, dtndVars
    <3>3. dtndLink' \in [LinkId -> {"none", "down", "open"}]
      BY <2>t, <2>1, <3>1, <3>2 DEF DtndStep, DtndHello, DtndBundle, LoseEvent, dtndVars
    <3>4. losses' \in 0 .. MaxLosses
      <4>1. CASE LoseEvent
        BY <2>t, <4>1 DEF LoseEvent
      <4>2. CASE ~LoseEvent
        BY <2>t, <2>1, <4>2 DEF DtndStep, DtndHello, DtndBundle, DtndCreate,
           DtndNotice, DtndOpen, DtndClose, DtndDelete, DtndTransmitted
      <4>3. QED
        BY <4>1, <4>2
    <3>5. unsent' \subseteq LinkId /\ tooLate' \subseteq LinkId
      BY <2>t, <2>1 DEF DtndStep, DtndHello, DtndBundle, DtndCreate,
         DtndNotice, DtndOpen, DtndClose, DtndDelete, DtndTransmitted, LoseEvent,
         Stops, dtndVars
    <3>6. QED
      BY <3>3, <3>4, <3>5
  <2>2. CASE MainStep
    BY <1>t, <2>2 DEF MainStep, HandleLink, HandleUnknown, HandleTransmitted, HandleCreated,
       HandleAvailable, HandleUnavailable, HandleOpened, HandleClosed,
       HandleDeleted, HandleDeletedUnknown, UseFreedNode, HandleHello,
       HandleBundle, MainOnly, dtndVars, TypeOK
  <2>3. CASE PeerStep \/ UNCHANGED vars
    BY <1>t, <2>3 DEF PeerStep, PeerFindNode, PeerGetLink, PeerUse, vars,
       dtndVars, TypeOK
  <2>4. QED
    BY <2>1, <2>2, <2>3 DEF Next
<1>2. /\ peerPc' \in {"idle", "node", "link"}
      /\ peerNode' \in EID \cup {NULL, FREED}
      /\ peerLink' \in LinkId \cup {NULL, FREED}
      /\ ended' \in {"no", "null entry", "unknown deleted", "freed", "no link"}
  <2>1. CASE DtndStep \/ UNCHANGED vars
    BY <1>t, <2>1 DEF DtndStep, DtndHello, DtndBundle, DtndCreate, DtndNotice,
       DtndOpen, DtndClose, DtndDelete, DtndTransmitted, LoseEvent, DtndOnly, peerVars, vars,
       TypeOK
  <2>2. CASE MainStep
    <3>1. CASE HandleHello \/ \E e \in EID : HandleBundle(e)
      BY <1>t, <3>1 DEF HandleHello, HandleBundle, MainOnly, peerVars, TypeOK
    <3>2. ASSUME NEW l \in LinkId, HandleDeleted(l) PROVE PeerTyped'
      BY <1>t, <3>2 DEF PeerTyped, HandleDeleted, MainOnly, peerVars, TypeOK
    <3>3. ASSUME NEW l \in LinkId, HandleLink(l), ~HandleDeleted(l)
          PROVE  PeerTyped'
      <4>1. UNCHANGED peerVars
        BY <3>3 DEF HandleLink, HandleUnknown, HandleTransmitted, HandleCreated, HandleAvailable,
           HandleUnavailable, HandleOpened, HandleClosed, HandleDeletedUnknown,
           UseFreedNode, MainOnly
      <4>2. ended' \in {ended, "unknown deleted", "freed"}
        BY <3>3 DEF HandleLink, HandleUnknown, HandleTransmitted, HandleCreated, HandleAvailable,
           HandleUnavailable, HandleOpened, HandleClosed, HandleDeletedUnknown,
           UseFreedNode
      <4>3. QED
        BY <1>t, <4>1, <4>2 DEF PeerTyped, peerVars, TypeOK
    <3>4. QED
      BY <2>2, <3>1, <3>2, <3>3 DEF MainStep, PeerTyped
  <2>3. CASE PeerStep
    BY <1>t, <2>3 DEF PeerStep, PeerFindNode, PeerGetLink, PeerUse, TypeOK,
       LinksTyped
  <2>4. QED
    BY <2>1, <2>2, <2>3 DEF Next
<1>3. network' \in Networks
  BY <1>t, NetworkFixed DEF TypeOK
<1>4. QED
  BY <1>l, <1>q, <1>e, <1>1, <1>2, <1>3 DEF TypeOK

\* A link's node is the node it leads to.
LEMMA OwnPeerStep == IInv /\ [Next]_vars => OwnPeer'
<1> SUFFICES ASSUME IInv, [Next]_vars PROVE OwnPeer'
  OBVIOUS
<1> USE LinksAssumption
<1>t. LinksTyped /\ OwnPeer
  BY DEF IInv, TypeOK
<1>p. PeerOf' = PeerOf /\ PeerOf \in [LinkId -> EID]
  BY NetworkFixed, NetworkType DEF IInv
<1> USE <1>p
<1>1. CASE UNCHANGED <<knownPeer, currentNode>>
  BY <1>t, <1>1 DEF OwnPeer
<1>2. ASSUME NEW l \in LinkId, NEW newState \in 0 .. 4, StateChange(l, newState),
             knownPeer' \in {knownPeer, [knownPeer EXCEPT ![l] = PeerOf[l]]}
      PROVE  OwnPeer'
  BY <1>t, <1>2 DEF StateChange, NodeAfter, OwnPeer, LinksTyped
<1>3. ASSUME NEW l \in LinkId, HandleLink(l)
      PROVE  OwnPeer'
  <2>1. CASE \/ HandleUnknown(l) \/ HandleTransmitted(l)
             \/ HandleDeletedUnknown(l) \/ UseFreedNode(l)
    BY <1>1, <2>1 DEF HandleUnknown, HandleTransmitted, HandleDeletedUnknown, UseFreedNode,
       linkVars
  <2>2. CASE HandleCreated(l)
    BY <1>t, <2>2 DEF HandleCreated, OwnPeer, LinksTyped
  <2>3. CASE HandleAvailable(l) \/ HandleUnavailable(l) \/ HandleClosed(l)
    BY <1>2, <2>3 DEF HandleAvailable, HandleUnavailable, HandleClosed,
       STATE_AVAILABLE, STATE_UNAVAILABLE, STATE_CLOSED
  <2>4. CASE HandleOpened(l)
    BY <1>t, <2>4 DEF HandleOpened, OwnPeer, LinksTyped
  <2>5. CASE HandleDeleted(l)
    BY <1>t, <2>5 DEF HandleDeleted, OwnPeer, LinksTyped
  <2>6. QED
    BY <1>3, <2>1, <2>2, <2>3, <2>4, <2>5 DEF HandleLink
<1>4. CASE \/ HandleHello \/ PeerStep \/ DtndStep \/ UNCHANGED vars
           \/ \E e \in EID : HandleBundle(e)
  BY <1>1, <1>4 DEF HandleHello, HandleBundle, PeerStep, PeerFindNode,
     PeerGetLink, PeerUse, DtndStep, DtndHello, DtndBundle, DtndCreate,
     DtndNotice, DtndOpen, DtndClose, DtndDelete, DtndTransmitted, LoseEvent, DtndOnly, linkVars,
     vars
<1>5. QED
  BY <1>3, <1>4 DEF Next, MainStep

\* A node's link stays open, in the map, and its own, whatever event comes.
LEMMA LinkOfNodeStep == IInv /\ [Next]_vars => LinkOfNode'
<1> SUFFICES ASSUME IInv, [Next]_vars PROVE LinkOfNode'
  OBVIOUS
<1> USE LinksAssumption
<1>t. LinksTyped /\ TypeOK /\ OwnPeer /\ LinkOfNode
  BY DEF IInv, TypeOK
<1>p. PeerOf \in [LinkId -> EID]
  BY <1>t, NetworkType
<1> USE <1>p
<1>1. CASE UNCHANGED linkVars
  BY <1>t, <1>1 DEF linkVars, LinkOfNode, Known
<1>2. ASSUME NEW l \in LinkId, ~Known(l),
             UNCHANGED <<nodesList, activeLink>>,
             \A k \in LinkId \ {l} : /\ linkMap'[k] = linkMap[k]
                                     /\ state'[k] = state[k]
                                     /\ currentNode'[k] = currentNode[k]
      PROVE  LinkOfNode'
  BY <1>t, <1>2 DEF LinkOfNode, Known
\* Once no node has link l, only the other links matter.
<1> DEFINE Others(l, gone) ==
             \A k \in LinkId \ {l} :
               /\ linkMap'[k] = linkMap[k]
               /\ state'[k] = state[k]
               /\ currentNode[k] # gone => currentNode'[k] = currentNode[k]
           LinksAre(links, gone) ==
             \A e \in EID :
               activeLink'[e] = IF e = gone THEN NULL ELSE links[e]
<1> HIDE DEF Others, LinksAre
<1>3. ASSUME NEW l \in LinkId, NEW newState \in 0 .. 4,
             NEW gone \in EID \cup {NULL}, NEW links \in Cleared(l, newState),
             Others(l, gone), nodesList' = nodesList \ {gone},
             activeLink' \in [EID -> LinkId \cup {NULL, FREED}],
             LinksAre(links, gone)
      PROVE  LinkOfNode'
  <2>1. \A e \in EID : links[e] \in {activeLink[e], NULL} /\ links[e] # l
    BY <1>t, <1>3, ClearedNodes
  <2>2. SUFFICES ASSUME NEW e \in EID
                 PROVE  /\ activeLink'[e] # FREED
                        /\ activeLink'[e] \in LinkId =>
                             /\ e \in nodesList'
                             /\ linkMap'[activeLink'[e]] = "object"
                             /\ state'[activeLink'[e]] = STATE_OPEN
                             /\ currentNode'[activeLink'[e]] = e
    BY DEF LinkOfNode, Known
  <2>3. CASE e = gone \/ links[e] = NULL
    BY <1>3, <2>3 DEF LinksAre
  <2>4. CASE e # gone /\ links[e] # NULL
    <3>1. activeLink'[e] = activeLink[e] /\ activeLink[e] # l
      BY <1>3, <2>1, <2>4 DEF LinksAre
    <3>2. activeLink[e] \in LinkId /\ activeLink[e] # FREED
      BY <1>t, <2>1, <2>4 DEF LinksTyped, LinkOfNode
    <3>3. /\ e \in nodesList /\ linkMap[activeLink[e]] = "object"
          /\ state[activeLink[e]] = STATE_OPEN /\ currentNode[activeLink[e]] = e
      BY <1>t, <3>2 DEF LinkOfNode, Known
    <3>4. QED
      BY <1>3, <2>4, <3>1, <3>2, <3>3 DEF Others
  <2>5. QED
    BY <2>3, <2>4
<1>4. ASSUME NEW l \in LinkId, NEW newState \in 0 .. 4, StateChange(l, newState),
             UNCHANGED <<linkMap, nodesList>>
      PROVE  LinkOfNode'
  <2>1. \A k \in LinkId \ {l} :
          state'[k] = state[k] /\ currentNode'[k] = currentNode[k]
    BY <1>t, <1>4 DEF StateChange, NewState, LinksTyped
  <2>2. PICK links \in Cleared(l, newState) : activeLink' = links
    BY <1>4 DEF StateChange
  <2>3. activeLink' \in [EID -> LinkId \cup {NULL, FREED}]
    BY <1>t, <2>2, ClearedNodes
  <2>4. nodesList' = nodesList \ {NULL}
    BY <1>t, <1>4 DEF LinksTyped
  <2>5. Others(l, NULL) /\ LinksAre(links, NULL)
    BY <1>4, <2>1, <2>2 DEF Others, LinksAre
  <2>6. NULL \in EID \cup {NULL}
    OBVIOUS
  <2>7. QED
    BY <1>3, <2>2, <2>3, <2>4, <2>5, <2>6
<1>5. ASSUME NEW l \in LinkId, HandleOpened(l)
      PROVE  LinkOfNode'
  <2> DEFINE e == PeerOf[l]
  <2>1. e \in EID /\ \A other \in EID \ {e} : activeLink[other] # l
    BY <1>t DEF OwnPeer, LinkOfNode
  <2>2. /\ nodesList' = nodesList \cup {e}
        /\ linkMap' = linkMap /\ linkMap[l] = "object"
        /\ state' = [state EXCEPT ![l] = STATE_OPEN]
    BY <1>5 DEF HandleOpened, Known, NewState
  <2>3. CASE activeLink[e] \in {NULL, l}
    <3>1. /\ activeLink' = [activeLink EXCEPT ![e] = l]
          /\ currentNode' = [currentNode EXCEPT ![l] = e]
      BY <1>5, <2>3 DEF HandleOpened
    <3>2. QED
      BY <1>t, <2>1, <2>2, <3>1 DEF LinkOfNode, Known, LinksTyped
  <2>4. CASE activeLink[e] \notin {NULL, l}
    <3>1. /\ activeLink' = activeLink
          /\ currentNode' = [currentNode EXCEPT ![l] = NULL]
      BY <1>5, <2>4 DEF HandleOpened
    <3>2. \A other \in EID : activeLink[other] # l
      BY <2>1, <2>4
    <3>3. QED
      BY <1>t, <2>2, <3>1, <3>2 DEF LinkOfNode, Known, LinksTyped
  <2>5. QED
    BY <2>3, <2>4
<1>6. ASSUME NEW l \in LinkId, HandleDeleted(l)
      PROVE  LinkOfNode'
  <2>1. PICK links \in Cleared(l, STATE_NONEXTANT) :
          activeLink' = [other \in EID |-> IF other = knownPeer[l] THEN NULL
                                           ELSE IF links[other] = l THEN FREED
                                           ELSE links[other]]
    BY <1>6 DEF HandleDeleted
  <2>2. \A e \in EID : links[e] # l
    BY <1>t, ClearedNodes DEF STATE_NONEXTANT
  <2>3. \A e \in EID : activeLink'[e] = IF e = knownPeer[l] THEN NULL ELSE links[e]
    BY <2>1, <2>2
  <2>4. /\ nodesList' = nodesList \ {knownPeer[l]}
        /\ knownPeer[l] \in EID \cup {NULL}
        /\ \A k \in LinkId \ {l} :
             /\ linkMap'[k] = linkMap[k]
             /\ state'[k] = state[k]
             /\ currentNode[k] # knownPeer[l] => currentNode'[k] = currentNode[k]
    BY <1>t, <1>6 DEF HandleDeleted, Removed, NewState, LinksTyped
  <2>5. activeLink' \in [EID -> LinkId \cup {NULL, FREED}]
    BY LinksTypedStep DEF LinksTyped
  <2>6. QED
    <3>1. Others(l, knownPeer[l]) /\ LinksAre(links, knownPeer[l])
      BY <2>3, <2>4 DEF Others, LinksAre
    <3>2. STATE_NONEXTANT \in 0 .. 4
      BY DEF STATE_NONEXTANT
    <3>3. QED
      BY <1>3, <2>1, <2>4, <2>5, <3>1, <3>2
<1>7. ASSUME NEW l \in LinkId, HandleLink(l)
      PROVE  LinkOfNode'
  <2>1. CASE HandleUnknown(l) \/ HandleTransmitted(l) \/ HandleDeletedUnknown(l)
    <3>1. /\ UNCHANGED <<nodesList, activeLink, state, currentNode>>
          /\ linkMap' = LookedUp(l)
      BY <2>1 DEF HandleUnknown, HandleTransmitted, HandleDeletedUnknown
    <3>2. CASE Known(l)
      <4>1. linkMap' = linkMap
        BY <3>1, <3>2 DEF LookedUp
      <4>2. QED
        BY <1>t, <3>1, <4>1 DEF LinkOfNode, Known
    <3>3. CASE ~Known(l)
      <4>1. linkMap' = [linkMap EXCEPT ![l] = "null"]
        BY <3>1, <3>3 DEF LookedUp
      <4>2. QED
        BY <1>t, <1>2, <3>1, <3>3, <4>1 DEF LinksTyped
    <3>4. QED
      BY <3>2, <3>3
  <2>2. CASE UseFreedNode(l)
    BY <1>1, <2>2 DEF UseFreedNode
  <2>3. CASE HandleCreated(l) /\ Known(l)
    BY <1>t, <2>3 DEF HandleCreated, LinkOfNode, Known
  <2>4. CASE HandleCreated(l) /\ ~Known(l)
    <3>1. \A k \in LinkId \ {l} : /\ linkMap'[k] = linkMap[k]
                                  /\ state'[k] = state[k]
                                  /\ currentNode'[k] = currentNode[k]
      BY <1>t, <2>4 DEF HandleCreated, NewState, LinksTyped
    <3>2. UNCHANGED <<nodesList, activeLink>>
      BY <2>4 DEF HandleCreated
    <3>3. QED
      BY <1>2, <2>4, <3>1, <3>2
  <2>5. CASE HandleAvailable(l) \/ HandleUnavailable(l) \/ HandleClosed(l)
    BY <1>4, <2>5 DEF HandleAvailable, HandleUnavailable, HandleClosed,
       STATE_AVAILABLE, STATE_UNAVAILABLE, STATE_CLOSED
  <2>6. CASE HandleOpened(l) \/ HandleDeleted(l)
    BY <1>5, <1>6, <2>6
  <2>7. QED
    BY <1>7, <2>1, <2>2, <2>3, <2>4, <2>5, <2>6 DEF HandleLink
<1>8. CASE \E e \in EID : HandleBundle(e)
  BY <1>t, <1>8 DEF HandleBundle, LinkOfNode, Known
<1>9. CASE HandleHello \/ PeerStep \/ DtndStep \/ UNCHANGED vars
  BY <1>1, <1>9 DEF HandleHello, PeerStep, PeerFindNode, PeerGetLink, PeerUse,
     DtndStep, DtndHello, DtndBundle, DtndCreate, DtndNotice, DtndOpen,
     DtndClose,
     DtndDelete, DtndTransmitted, LoseEvent, DtndOnly, vars
<1>10. QED
  BY <1>7, <1>8, <1>9 DEF Next, MainStep

\* Where a link that may be deleted shares its peer with no other, what
\* stateChange and deleteEvt clear is never another link's.
LEMMA NodeOfLinkStep == IInv /\ [Next]_vars => NodeOfLink'
<1> SUFFICES ASSUME IInv, [Next]_vars, Separate PROVE NodeOfLink'
  BY NetworkFixed DEF NodeOfLink, Separate
<1> USE LinksAssumption DEF STATE_OPEN
<1>t. LinksTyped /\ TypeOK /\ OwnPeer /\ LinkOfNode
  BY DEF IInv, TypeOK
<1>p. PeerOf \in [LinkId -> EID]
  BY <1>t, NetworkType
<1> USE <1>p
<1>n. \A k \in LinkId : /\ currentNode[k] # FREED
                        /\ currentNode[k] \in EID => activeLink[currentNode[k]] = k
                        /\ currentNode[k] = WILD => state[k] < 5
  BY DEF IInv, NodeOfLink
<1> DEFINE Fits(k) == /\ currentNode'[k] # FREED
                      /\ currentNode'[k] \in EID => activeLink'[currentNode'[k]] = k
                      /\ currentNode'[k] = WILD => state'[k] < 5
<1>g. SUFFICES \A k \in LinkId : Fits(k)
  BY DEF NodeOfLink
<1>1. CASE UNCHANGED <<state, currentNode, activeLink>>
  BY <1>n, <1>1
\* What Cleared changes is the link of currentNode[l].
<1>2. ASSUME NEW l \in LinkId, NEW newState \in 0 .. 4,
             NEW links \in Cleared(l, newState)
      PROVE  \A k \in LinkId \ {l} :
               currentNode[k] \in EID => links[currentNode[k]] = k
  <2>1. CASE Leaves(l, newState)
    <3>1. currentNode[l] \in EID \cup {NULL}
      BY <1>t, <1>n, <2>1 DEF Leaves, LinksTyped
    <3>2. links = activeLink \/ /\ currentNode[l] \in EID
                                /\ links = [activeLink EXCEPT ![currentNode[l]] = NULL]
      BY <1>2, <2>1, <3>1 DEF Cleared
    <3>3. \A k \in LinkId \ {l} : currentNode[k] \in EID => currentNode[k] # currentNode[l]
      BY <1>n
    <3>4. QED
      BY <1>t, <1>n, <3>2, <3>3 DEF LinksTyped
  <2>2. CASE ~Leaves(l, newState)
    BY <1>2, <1>n, <2>2 DEF Cleared
  <2>3. QED
    BY <2>1, <2>2
<1>3. ASSUME NEW l \in LinkId, NEW newState \in 0 .. 4, StateChange(l, newState)
      PROVE  \A k \in LinkId : Fits(k)
  <2>1. activeLink' \in Cleared(l, newState)
    BY <1>3 DEF StateChange
  <2>2. \A k \in LinkId \ {l} : state'[k] = state[k] /\ currentNode'[k] = currentNode[k]
    BY <1>t, <1>3 DEF StateChange, NewState, LinksTyped
  <2>3. \A k \in LinkId \ {l} : Fits(k)
    BY <1>2, <1>n, <2>1, <2>2
  <2>4. state'[l] < 5
    BY <1>t, <1>3 DEF StateChange, NewState, LinksTyped
  <2>5. CASE Leaves(l, newState)
    <3>1. currentNode'[l] = NULL
      BY <1>t, <1>3, <2>5 DEF StateChange, NodeAfter, LinksTyped
    <3>2. QED
      BY <2>3, <2>4, <3>1
  <2>6. CASE ~Leaves(l, newState)
    <3>1. currentNode'[l] = currentNode[l] /\ activeLink' = activeLink
      BY <1>t, <1>3, <2>6 DEF StateChange, NodeAfter, Cleared, LinksTyped
    <3>2. QED
      BY <1>n, <2>3, <2>4, <3>1
  <2>7. QED
    BY <2>5, <2>6
<1>4. ASSUME NEW l \in LinkId, HandleCreated(l), ~Known(l)
      PROVE  \A k \in LinkId : Fits(k)
  <2>1. /\ activeLink' = activeLink
        /\ currentNode' = [currentNode EXCEPT ![l] = WILD]
        /\ \E s \in {1, 2, 4} : state' = [state EXCEPT ![l] = s]
    BY <1>4 DEF HandleCreated, NewState, STATE_UNAVAILABLE, STATE_AVAILABLE,
       STATE_OPENING
  <2>2. QED
    BY <1>t, <1>n, <2>1 DEF LinksTyped
<1>5. ASSUME NEW l \in LinkId, HandleOpened(l)
      PROVE  \A k \in LinkId : Fits(k)
  <2> DEFINE e == PeerOf[l]
  <2>1. CASE activeLink[e] \in {NULL, l}
    <3>1. /\ activeLink' = [activeLink EXCEPT ![e] = l]
          /\ currentNode' = [currentNode EXCEPT ![l] = e]
          /\ state' = [state EXCEPT ![l] = 5]
      BY <1>5, <2>1 DEF HandleOpened, NewState
    <3>2. \A k \in LinkId \ {l} : currentNode[k] \in EID => currentNode[k] # e
      BY <1>n, <2>1
    <3>3. \A k \in LinkId \ {l} : Fits(k)
      BY <1>t, <1>n, <3>1, <3>2 DEF LinksTyped
    <3>4. currentNode'[l] = e /\ activeLink'[e] = l /\ e \in EID
      BY <1>t, <3>1 DEF LinksTyped
    <3>5. QED
      BY <3>3, <3>4
  <2>2. CASE activeLink[e] \notin {NULL, l}
    <3>1. /\ activeLink' = activeLink
          /\ currentNode' = [currentNode EXCEPT ![l] = NULL]
          /\ state' = [state EXCEPT ![l] = 5]
      BY <1>5, <2>2 DEF HandleOpened, NewState
    <3>2. QED
      BY <1>t, <1>n, <3>1 DEF LinksTyped
  <2>3. QED
    BY <2>1, <2>2
<1>6. ASSUME NEW l \in LinkId, HandleDeleted(l)
      PROVE  \A k \in LinkId : Fits(k)
  <2> DEFINE e == knownPeer[l]
  <2>1. l \in MayDelete
    <3>1. events # <<>> /\ Head(events) = <<"deleted", l>>
      BY <1>6 DEF HandleDeleted, Takes
    <3>2. events \in Seq(Possible)
      BY DEF IInv
    <3>3. Head(events) \in Possible
      BY <3>1, <3>2
    <3>4. QED
      BY <3>1, <3>3 DEF Possible
  <2>2. \A k \in LinkId \ {l} : currentNode[k] \in EID => currentNode[k] # e
    BY <1>t, <2>1 DEF OwnPeer, Separate
  <2>3. PICK links \in Cleared(l, STATE_NONEXTANT) :
          activeLink' = [other \in EID |-> IF other = e THEN NULL
                                           ELSE IF links[other] = l THEN FREED
                                           ELSE links[other]]
    BY <1>6 DEF HandleDeleted
  <2>4. \A k \in LinkId \ {l} :
          currentNode[k] \in EID => links[currentNode[k]] = k
    BY <1>2, <2>3 DEF STATE_NONEXTANT
  <2>5. /\ currentNode'[l] = WILD /\ state'[l] = 0
        /\ \A k \in LinkId \ {l} :
             /\ state'[k] = state[k]
             /\ currentNode'[k] \in {currentNode[k], FREED}
             /\ currentNode'[k] = FREED => currentNode[k] \in {e, FREED}
    BY <1>t, <1>6 DEF HandleDeleted, NewState, LinksTyped, STATE_NONEXTANT
  <2>6. \A k \in LinkId \ {l} : currentNode'[k] = currentNode[k]
    <3>1. CASE e \in EID
      BY <1>n, <2>2, <2>5, <3>1
    <3>2. CASE e = NULL
      <4>1. e \notin nodesList
        BY <1>t, <3>2 DEF LinksTyped
      <4>2. QED
        BY <1>t, <1>6, <4>1 DEF HandleDeleted, LinksTyped
    <3>3. QED
      BY <1>t, <3>1, <3>2 DEF LinksTyped
  <2>7. \A k \in LinkId \ {l} : Fits(k)
    BY <1>n, <2>2, <2>3, <2>4, <2>5, <2>6
  <2>8. Fits(l)
    BY <2>5
  <2>9. QED
    BY <2>7, <2>8
<1>7. ASSUME NEW l \in LinkId, HandleLink(l)
      PROVE  \A k \in LinkId : Fits(k)
  <2>1. CASE \/ HandleUnknown(l) \/ HandleTransmitted(l)
             \/ HandleDeletedUnknown(l) \/ UseFreedNode(l)
    BY <1>1, <2>1 DEF HandleUnknown, HandleTransmitted, HandleDeletedUnknown, UseFreedNode,
       linkVars
  <2>2. CASE HandleCreated(l)
    <3>1. CASE Known(l)
      <4>1. UNCHANGED <<state, currentNode, activeLink>>
        BY <2>2, <3>1 DEF HandleCreated
      <4>2. QED
        BY <1>1, <4>1
    <3>2. QED
      BY <1>4, <2>2, <3>1
  <2>3. CASE HandleAvailable(l) \/ HandleUnavailable(l) \/ HandleClosed(l)
    BY <1>3, <2>3 DEF HandleAvailable, HandleUnavailable, HandleClosed,
       STATE_AVAILABLE, STATE_UNAVAILABLE, STATE_CLOSED
  <2>4. QED
    BY <1>5, <1>6, <1>7, <2>1, <2>2, <2>3 DEF HandleLink
<1>8. CASE \/ HandleHello \/ PeerStep \/ DtndStep \/ UNCHANGED vars
           \/ \E e \in EID : HandleBundle(e)
  BY <1>1, <1>8 DEF HandleHello, HandleBundle, PeerStep, PeerFindNode,
     PeerGetLink, PeerUse, DtndStep, DtndHello, DtndBundle, DtndCreate,
     DtndNotice, DtndOpen, DtndClose, DtndDelete, DtndTransmitted, LoseEvent, DtndOnly, linkVars,
     vars
<1>9. QED
  BY <1>7, <1>8 DEF Next, MainStep

------------------------------------------------------------------------------
(* The invariants, for every set of links and nodes *)

THEOREM Invariance == Spec => []IInv
<1>1. Init => IInv
  BY InitIInv
<1>2. IInv /\ [Next]_vars => IInv'
  BY NetworkFixed, QueueStep, TypeStep, OwnPeerStep, LinkOfNodeStep,
     NodeOfLinkStep DEF IInv
<1>3. QED
  BY <1>1, <1>2, PTL DEF Spec

\* Every variable keeps its type: no state outside Link.h's, no pointer to
\* anything but a node, a freed node or garbage.
THEOREM TypeCorrect == Spec => []TypeOK
<1>1. IInv => TypeOK
  BY DEF IInv
<1>2. QED
  BY <1>1, Invariance, PTL

\* metaDataReceived never takes from a live node a link that is gone, closed or
\* another node's.
THEOREM LiveNodesHaveLiveLinks == Spec => []LinkOfNode
<1>1. IInv => LinkOfNode
  BY DEF IInv
<1>2. QED
  BY <1>1, Invariance, PTL

\* stateChange never clears a node that is gone or another link's, where links
\* that may be deleted have peers of their own.
THEOREM LinksHaveTheirNodes == Spec => []NodeOfLink
<1>1. IInv => NodeOfLink
  BY DEF IInv
<1>2. QED
  BY <1>1, Invariance, PTL

------------------------------------------------------------------------------
(* What the router knows of dtnd's links: what it has seen so far and the    *)
(* datagrams that wait, in their order, are what dtnd did                    *)

INSTANCE Datagrams

\* The router's view of a link: in the map without a Link, or open, or not.
View(l) ==
  IF ~Known(l) THEN linkMap[l] ELSE IF state[l] = STATE_OPEN THEN "open" ELSE "shut"

Nothing == {"absent", "null"}
Objects == {"open", "shut"}

\* The datagrams that leave a link as d, and the views that are right of it.
Says(d) == CASE d = "none" -> {"deleted"}
             [] d = "open" -> {"opened"}
             [] d = "down" -> LinkEvents \ {"opened", "deleted"}

Fits(d) == CASE d = "none" -> Nothing
             [] d = "open" -> Nothing \cup {"open"}
             [] d = "down" -> Nothing \cup {"shut"}

Status == {"none", "down", "open"}

\* v is the router's view of the link l after the datagrams before s, d is what
\* dtnd has.  The last datagram about l, or the view, fits; a creation comes
\* where there is no link.
Follows(s, l, v, d) ==
  /\ Preceded(s, l, v, {"created"}, Says("none"), Fits("none"))
  /\ After(s, l, v, Len(s), Says(d), Fits(d))

\* A link that dtnd made since the router listens: the router has it in its map
\* from the creation to the deletion.
Informed(s, l, v, d) ==
  /\ Preceded(s, l, v, LinkEvents \ {"created"}, LinkEvents \ {"deleted"}, Objects)
  /\ d # "none" => After(s, l, v, Len(s), LinkEvents \ {"deleted"}, Objects)

\* A link whose transmissions dtnd told while it had it: they find it in the map,
\* and the router makes no null entry.
Timely(s, l, v) ==
  /\ v # "null"
  /\ Preceded(s, l, v, {"transmitted"}, LinkEvents \ {"deleted"}, Objects)

Right(s, l, v, d, late) ==
  /\ Follows(s, l, v, d)
  /\ l \notin Early => Informed(s, l, v, d)
  /\ l \notin Early \cup late => Timely(s, l, v)

\* The invariant behind InSync, until a datagram is lost.
Heard ==
  losses = 0 /\ ended = "no" =>
    \A l \in LinkId : Right(events, l, View(l), dtndLink[l], tooLate)

\* The datagram e leads from the link as d to the link as d2.
Leads(e, l, d, d2) ==
  IF e[2] = l /\ e[1] \in LinkEvents
    THEN e[1] \in Says(d2) /\ (e[1] = "created" <=> d = "none")
    ELSE d2 = d

LEMMA PushFollows ==
  ASSUME NEW s \in Seq(Event), NEW e \in Event, NEW l, NEW v,
         NEW d \in Status, NEW d2 \in Status,
         Follows(s, l, v, d), Leads(e, l, d, d2)
  PROVE  Follows(Append(s, e), l, v, d2)
<1>1. Preceded(Append(s, e), l, v, {"created"}, Says("none"), Fits("none"))
  <2>1. e[2] = l /\ e[1] \in {"created"}
          => After(s, l, v, Len(s), Says("none"), Fits("none"))
    BY DEF Leads, Follows, LinkEvents
  <2> QED
    BY <2>1, AppendPreceded DEF Follows
<1>2. After(Append(s, e), l, v, Len(Append(s, e)), Says(d2), Fits(d2))
  BY AppendLast DEF Leads, Follows
<1> QED
  BY <1>1, <1>2 DEF Follows

LEMMA PushInformed ==
  ASSUME NEW s \in Seq(Event), NEW e \in Event, NEW l, NEW v,
         NEW d \in Status, NEW d2 \in Status,
         Informed(s, l, v, d), Leads(e, l, d, d2)
  PROVE  Informed(Append(s, e), l, v, d2)
<1>1. Preceded(Append(s, e), l, v, LinkEvents \ {"created"},
               LinkEvents \ {"deleted"}, Objects)
  <2>1. e[2] = l /\ e[1] \in LinkEvents \ {"created"}
          => After(s, l, v, Len(s), LinkEvents \ {"deleted"}, Objects)
    BY DEF Leads, Informed
  <2> QED
    BY <2>1, AppendPreceded DEF Informed
<1>2. ASSUME d2 # "none"
      PROVE  After(Append(s, e), l, v, Len(Append(s, e)), LinkEvents \ {"deleted"},
                   Objects)
  <2>1. CASE e[2] = l /\ e[1] \in LinkEvents
    <3>1. e[1] \in LinkEvents \ {"deleted"}
      BY <1>2, <2>1 DEF Leads, Says, Status, LinkEvents
    <3> QED
      BY <2>1, <3>1, AppendLast
  <2>2. CASE ~(e[2] = l /\ e[1] \in LinkEvents)
    <3>1. After(s, l, v, Len(s), LinkEvents \ {"deleted"}, Objects)
      BY <1>2, <2>2 DEF Informed, Leads
    <3> QED
      BY <2>2, <3>1, AppendLast
  <2> QED
    BY <2>1, <2>2
<1> QED
  BY <1>1, <1>2 DEF Informed

LEMMA PushRight ==
  ASSUME NEW s \in Seq(Event), NEW e \in Event, NEW l, NEW v,
         NEW d \in Status, NEW d2 \in Status, NEW late, NEW late2,
         Right(s, l, v, d, late), Leads(e, l, d, d2), late \subseteq late2,
         e[1] = "transmitted" /\ e[2] = l => d # "none" \/ l \in late2
  PROVE  Right(Append(s, e), l, v, d2, late2)
<1>1. Follows(Append(s, e), l, v, d2)
  BY PushFollows DEF Right
<1>2. ASSUME l \notin Early PROVE Informed(Append(s, e), l, v, d2)
  BY <1>2, PushInformed DEF Right
<1>3. ASSUME l \notin Early \cup late2 PROVE Timely(Append(s, e), l, v)
  <2>1. Informed(s, l, v, d) /\ Timely(s, l, v)
    BY <1>3 DEF Right
  <2>2. e[2] = l /\ e[1] \in {"transmitted"}
          => After(s, l, v, Len(s), LinkEvents \ {"deleted"}, Objects)
    BY <1>3, <2>1 DEF Informed
  <2>3. Preceded(Append(s, e), l, v, {"transmitted"}, LinkEvents \ {"deleted"}, Objects)
    BY <2>1, <2>2, AppendPreceded DEF Timely
  <2> QED
    BY <2>1, <2>3 DEF Timely
<1> QED
  BY <1>1, <1>2, <1>3 DEF Right

\* What the first datagram makes of the view v of a link it is not about: only
\* that of a transmission looks an unknown link up.
LeftAs(v, w) == w = v \/ (v \in Nothing /\ w \in Nothing)

LEMMA PopFollows ==
  ASSUME NEW s \in Seq(Event), s # <<>>, NEW l, NEW v, NEW w, NEW d \in Status,
         Follows(s, l, v, d), ~About(s, l, 1) => LeftAs(v, w),
         About(s, l, 1) => \A d2 \in Status : s[1][1] \in Says(d2) => w \in Fits(d2)
  PROVE  Follows(Tail(s), l, w, d)
<1>1. \A d2 \in Status : /\ About(s, l, 1) /\ s[1][1] \in Says(d2) => w \in Fits(d2)
                         /\ ~About(s, l, 1) /\ v \in Fits(d2) => w \in Fits(d2)
  BY DEF LeftAs, Fits, Status
<1>2. "none" \in Status
  BY DEF Status
<1>3. Preceded(Tail(s), l, w, {"created"}, Says("none"), Fits("none"))
  BY <1>1, <1>2, TailPreceded DEF Follows
<1>4. After(Tail(s), l, w, Len(Tail(s)), Says(d), Fits(d))
  BY <1>1, TailLast DEF Follows
<1> QED
  BY <1>3, <1>4 DEF Follows

LEMMA PopRight ==
  ASSUME NEW s \in Seq(Event), s # <<>>, NEW l, NEW v, NEW w, NEW d \in Status,
         NEW late, Right(s, l, v, d, late), ~About(s, l, 1) => LeftAs(v, w),
         About(s, l, 1) => \A d2 \in Status : s[1][1] \in Says(d2) => w \in Fits(d2),
         l \notin Early /\ About(s, l, 1) /\ s[1][1] # "deleted" => w \in Objects,
         l \notin Early \cup late => w # "null"
  PROVE  Right(Tail(s), l, w, d, late)
<1>1. Follows(Tail(s), l, w, d)
  BY PopFollows DEF Right
<1>2. ~About(s, l, 1) /\ v \in Objects => w \in Objects
  BY DEF LeftAs, Nothing, Objects
<1>3. ASSUME l \notin Early PROVE Informed(Tail(s), l, w, d)
  BY <1>2, <1>3, TailPreceded, TailLast DEF Right, Informed
<1>4. ASSUME l \notin Early \cup late PROVE Timely(Tail(s), l, w)
  BY <1>2, <1>4, TailPreceded DEF Right, Timely
<1> QED
  BY <1>1, <1>3, <1>4 DEF Right

\* What dtnd says of one link, with one datagram, leaves the others.
LEMMA Pushed ==
  ASSUME TypeOK, Heard, NEW e \in Event, events' = Append(events, e),
         UNCHANGED <<linkMap, state, losses, ended, network>>,
         dtndLink' \in [LinkId -> Status], tooLate \subseteq tooLate',
         \A l \in LinkId :
           /\ Leads(e, l, dtndLink[l], dtndLink'[l])
           /\ e[1] = "transmitted" /\ e[2] = l
                => dtndLink[l] # "none" \/ l \in tooLate'
  PROVE  Heard'
<1> SUFFICES ASSUME losses = 0, ended = "no", NEW l \in LinkId
             PROVE  Right(events', l, View(l), dtndLink'[l], tooLate')
  BY DEF Heard, Right, Early, View, Known
<1>1. events \in Seq(Event) /\ dtndLink[l] \in Status /\ dtndLink'[l] \in Status
  BY DEF TypeOK, Event, Status
<1>2. Right(events, l, View(l), dtndLink[l], tooLate)
  BY DEF Heard
<1> QED
  BY <1>1, <1>2, PushRight

\* The same with several datagrams about the link l: whatever comes before the
\* last one leaves it as some d.
LEMMA PushedMore ==
  ASSUME TypeOK, NEW l \in LinkId, NEW s \in Seq(Event), NEW d \in Status,
         Right(s, l, View(l), d, tooLate),
         \A k \in LinkId \ {l} : Right(s, k, View(k), dtndLink[k], tooLate),
         NEW type \in LinkEvents, NEW d2 \in Status,
         type \in Says(d2), type = "created" <=> d = "none"
  PROVE  LET t == Append(s, <<type, l>>)
         IN  /\ t \in Seq(Event)
             /\ Right(t, l, View(l), d2, tooLate)
             /\ \A k \in LinkId \ {l} : Right(t, k, View(k), dtndLink[k], tooLate)
<1> DEFINE e == <<type, l>>
<1>1. e \in Event /\ e[1] = type /\ e[2] = l /\ type # "transmitted"
  BY DEF Event, LinkEvents
<1>2. \A k \in LinkId : dtndLink[k] \in Status
  BY DEF TypeOK, Status
<1> HIDE DEF e
<1>3. Leads(e, l, d, d2)
  BY <1>1 DEF Leads
<1>4. \A k \in LinkId \ {l} : Leads(e, k, dtndLink[k], dtndLink[k])
  BY <1>1 DEF Leads
<1>5. Right(Append(s, e), l, View(l), d2, tooLate)
  BY <1>1, <1>3, PushRight
<1>6. ASSUME NEW k \in LinkId \ {l}
      PROVE  Right(Append(s, e), k, View(k), dtndLink[k], tooLate)
  BY <1>1, <1>2, <1>4, PushRight
<1>7. Append(s, e) \in Seq(Event)
  BY <1>1
<1> QED
  BY <1>5, <1>6, <1>7 DEF e

\* The router handles the first datagram.
LEMMA Popped ==
  ASSUME TypeOK, Heard, losses = 0, ended = "no",
         events # <<>>, events' = Tail(events),
         UNCHANGED <<dtndLink, tooLate, network>>,
         \A l \in LinkId :
           /\ ~About(events, l, 1) =>
                /\ LeftAs(View(l), View(l)')
                /\ l \notin Early \cup tooLate => View(l)' = View(l)
           /\ About(events, l, 1) =>
                /\ \A d2 \in Status : events[1][1] \in Says(d2) => View(l)' \in Fits(d2)
                /\ l \notin Early =>
                     /\ View(l)' # "null"
                     /\ events[1][1] # "deleted" => View(l)' \in Objects
  PROVE  Heard'
<1> SUFFICES ASSUME NEW l \in LinkId
             PROVE  Right(events', l, View(l)', dtndLink[l], tooLate)
  BY DEF Heard, Right, Early
<1> DEFINE v == View(l)
           w == View(l)'
<1>1. events \in Seq(Event) /\ dtndLink[l] \in Status
  BY DEF TypeOK, Event, Status
<1>2. Right(events, l, v, dtndLink[l], tooLate)
  BY DEF Heard
<1>3. /\ ~About(events, l, 1) => /\ LeftAs(v, w)
                                 /\ l \notin Early \cup tooLate => w = v
      /\ About(events, l, 1) =>
           /\ \A d2 \in Status : events[1][1] \in Says(d2) => w \in Fits(d2)
           /\ l \notin Early => /\ w # "null"
                                /\ events[1][1] # "deleted" => w \in Objects
  OBVIOUS
<1> HIDE DEF v, w
<1>4. l \notin Early \cup tooLate => w # "null"
  BY <1>2, <1>3 DEF Right, Timely
<1>5. Right(Tail(events), l, w, dtndLink[l], tooLate)
  BY <1>1, <1>2, <1>3, <1>4, PopRight
<1> QED
  BY <1>5 DEF w

\* The first datagram about a link, and what the router knew of it.
LEMMA HeadHeard ==
  ASSUME TypeOK, Heard, losses = 0, NEW l \in LinkId, NEW type \in LinkEvents,
         Takes(type, l)
  PROVE  /\ events # <<>> /\ events' = Tail(events) /\ events[1] = <<type, l>>
         /\ \A k \in LinkId : About(events, k, 1) <=> k = l
         /\ type = "created" => ~Known(l)
         /\ l \notin Early /\ type # "created" => Known(l)
<1>1. events \in Seq(Event) /\ ended = "no" /\ Head(events) = <<type, l>>
  BY DEF TypeOK, Event, Takes
<1>2. events # <<>> /\ events' = Tail(events) /\ events[1] = <<type, l>>
  BY <1>1 DEF Takes
<1>3. \A k \in LinkId : About(events, k, 1) <=> k = l
  BY <1>2 DEF About
<1>4. /\ Follows(events, l, View(l), dtndLink[l])
      /\ l \notin Early => Informed(events, l, View(l), dtndLink[l])
  BY <1>1 DEF Heard, Right
<1>5. events[1][1] = type /\ events[1][2] = l
  BY <1>2
<1>6. ASSUME type = "created" PROVE ~Known(l)
  <2>1. View(l) \in Fits("none")
    BY <1>1, <1>2, <1>4, <1>5, <1>6, HeadPreceded DEF Follows
  <2> QED
    BY <2>1 DEF View, Fits, Nothing
<1>7. ASSUME l \notin Early, type # "created" PROVE Known(l)
  <2>1. type \in LinkEvents \ {"created"}
    BY <1>7
  <2>2. View(l) \in Objects
    BY <1>1, <1>2, <1>4, <1>5, <1>7, <2>1, HeadPreceded DEF Informed
  <2> QED
    BY <2>2 DEF View, Objects, TypeOK, LinksTyped
<1> QED
  BY <1>2, <1>3, <1>6, <1>7

LEMMA HeardStart == Init => Heard
<1> SUFFICES ASSUME Init, NEW l \in LinkId
             PROVE  Right(events, l, View(l), dtndLink[l], tooLate)
  BY DEF Heard
<1>1. /\ events = <<>> /\ View(l) = "absent"
      /\ dtndLink[l] \in {"none", "down"} /\ (l \notin Early => dtndLink[l] = "none")
  BY DEF Init, View, Known
<1>2. View(l) \in Fits("none") /\ View(l) \in Fits(dtndLink[l])
  BY <1>1 DEF Fits, Nothing
<1> QED
  BY <1>1, <1>2, NothingSaid DEF Right, Follows, Informed, Timely

LEMMA Concatenated ==
  ASSUME NEW s \in Seq(Event), NEW e \in Event, NEW f \in Event, NEW g \in Event
  PROVE  /\ s \o <<e, f>> = Append(Append(s, e), f)
         /\ s \o <<e, f, g>> = Append(Append(Append(s, e), f), g)
OBVIOUS

LEMMA DtndHeard == ASSUME TypeOK, Heard, DtndStep, TypeOK' PROVE Heard'
<1> SUFFICES ASSUME losses' = 0, ended' = "no" PROVE Heard'
  BY DEF Heard
<1> USE DEF Status
<1>t. /\ events \in Seq(Event) /\ losses \in Nat
      /\ dtndLink \in [LinkId -> Status] /\ dtndLink' \in [LinkId -> Status]
  <2>1. losses \in Nat
    <3>1. losses \in 0 .. MaxLosses /\ MaxLosses \in Nat
      BY LinksAssumption DEF TypeOK
    <3> QED
      BY <3>1
  <2>2. events \in Seq(Event)
    BY DEF TypeOK, Event
  <2> QED
    BY <2>1, <2>2 DEF TypeOK
<1>e. \A l \in LinkId, type \in LinkEvents : <<type, l>> \in Event
  BY DEF Event
<1>1. CASE LoseEvent
  BY <1>t, <1>1 DEF LoseEvent
<1> SUFFICES ASSUME ~LoseEvent PROVE Heard'
  BY <1>1
<1>2. /\ UNCHANGED <<linkMap, state, losses, ended, network>>
      /\ losses = 0 /\ ended = "no" /\ tooLate \subseteq tooLate'
  BY DEF DtndStep, DtndHello, DtndBundle, DtndCreate, DtndNotice, DtndOpen,
     DtndClose, DtndDelete, DtndTransmitted, Stops, DtndOnly, linkVars, dtndVars
<1>r. \A l \in LinkId : Right(events, l, View(l), dtndLink[l], tooLate)
  BY <1>2 DEF Heard
<1>3. ASSUME NEW e \in Event, Tells(<<e>>),
             \A l \in LinkId :
               /\ Leads(e, l, dtndLink[l], dtndLink'[l])
               /\ e[1] = "transmitted" /\ e[2] = l
                    => dtndLink[l] # "none" \/ l \in tooLate'
      PROVE  Heard'
  <2>1. events' = Append(events, e)
    BY <1>t, <1>3 DEF Tells
  <2> QED
    BY <1>t, <1>2, <1>3, <2>1, Pushed
\* One datagram about one link.
<1>4. ASSUME NEW l \in LinkId, NEW type \in LinkEvents, Tells(<< <<type, l>> >>),
             type \in Says(dtndLink'[l]), type = "created" <=> dtndLink[l] = "none",
             \A k \in LinkId \ {l} : dtndLink'[k] = dtndLink[k]
      PROVE  Heard'
  <2>1. <<type, l>> \in Event /\ type # "transmitted"
    BY DEF Event, LinkEvents
  <2>2. \A k \in LinkId : Leads(<<type, l>>, k, dtndLink[k], dtndLink'[k])
    BY <1>4 DEF Leads
  <2> QED
    BY <1>3, <1>4, <2>1, <2>2
\* Several about one link l, with which l ends up as d.
<1>5. ASSUME NEW l \in LinkId, NEW t \in Seq(Event), events' = t, tooLate' = tooLate,
             NEW d \in Status, dtndLink' = [dtndLink EXCEPT ![l] = d],
             Right(t, l, View(l), d, tooLate),
             \A k \in LinkId \ {l} : Right(t, k, View(k), dtndLink[k], tooLate)
      PROVE  Heard'
  <2>1. \A k \in LinkId : View(k)' = View(k) /\ Early' = Early
    BY <1>2 DEF View, Known, Early
  <2>2. dtndLink'[l] = d /\ \A k \in LinkId \ {l} : dtndLink'[k] = dtndLink[k]
    BY <1>t, <1>5
  <2> QED
    BY <1>5, <2>1, <2>2 DEF Heard, Right
<1>6. ASSUME NEW e \in Event, e[1] \notin LinkEvents \cup {"transmitted"},
             Tells(<<e>>), UNCHANGED dtndLink
      PROVE  Heard'
  <2>1. \A l \in LinkId : Leads(e, l, dtndLink[l], dtndLink'[l])
    BY <1>6 DEF Leads
  <2> QED
    BY <1>3, <1>6, <2>1
<1>7. CASE DtndHello
  <2>1. /\ <<"hello", NULL>> \in Event
        /\ <<"hello", NULL>>[1] \notin LinkEvents \cup {"transmitted"}
    BY DEF Event, LinkEvents
  <2> QED
    BY <1>6, <1>7, <2>1 DEF DtndHello, dtndVars
<1>8. ASSUME NEW x \in EID, DtndBundle(x) PROVE Heard'
  <2>1. /\ <<"bundle", x>> \in Event
        /\ <<"bundle", x>>[1] \notin LinkEvents \cup {"transmitted"}
    BY DEF Event, LinkEvents
  <2> QED
    BY <1>6, <1>8, <2>1 DEF DtndBundle, dtndVars
<1>9. ASSUME NEW l \in LinkId, DtndCreate(l) \/ DtndNotice(l) \/ DtndOpen(l)
      PROVE  Heard'
  <2>1. CASE DtndCreate(l)
    <3>1. /\ dtndLink[l] = "none" /\ dtndLink'[l] = "down"
          /\ \A k \in LinkId \ {l} : dtndLink'[k] = dtndLink[k]
          /\ Tells(<< <<"created", l>> >>)
      BY <1>t, <2>1 DEF DtndCreate
    <3> QED
      BY <1>4, <3>1 DEF LinkEvents, Says
  <2>2. CASE DtndNotice(l)
    <3>1. dtndLink[l] = "down" /\ dtndLink' = dtndLink
      BY <2>2 DEF DtndNotice, dtndVars
    <3>2. PICK type \in {"available", "unavailable"} : Tells(<< <<type, l>> >>)
      BY <2>2 DEF DtndNotice
    <3>3. type \in LinkEvents /\ type \in Says("down") /\ type # "created"
      BY DEF LinkEvents, Says
    <3> QED
      BY <1>4, <3>1, <3>2, <3>3
  <2>3. CASE DtndOpen(l)
    <3>1. /\ dtndLink[l] = "down" /\ dtndLink'[l] = "open"
          /\ \A k \in LinkId \ {l} : dtndLink'[k] = dtndLink[k]
          /\ Tells(<< <<"opened", l>> >>)
      BY <1>t, <2>3 DEF DtndOpen
    <3> QED
      BY <1>4, <3>1 DEF LinkEvents, Says
  <2> QED
    BY <1>9, <2>1, <2>2, <2>3
\* What an open link leaves: "unavailable" first, perhaps, then "closed".
<1>10. ASSUME NEW l \in LinkId, dtndLink[l] = "open"
       PROVE  LET one == Append(events, <<"unavailable", l>>)
                  two == Append(one, <<"closed", l>>)
              IN  /\ two \in Seq(Event)
                  /\ Right(two, l, View(l), "down", tooLate)
                  /\ \A k \in LinkId \ {l} :
                       Right(two, k, View(k), dtndLink[k], tooLate)
  <2> DEFINE one == Append(events, <<"unavailable", l>>)
  <2>1. Right(events, l, View(l), "open", tooLate)
    BY <1>r, <1>10
  <2>2. /\ "unavailable" \in LinkEvents /\ "closed" \in LinkEvents
        /\ "unavailable" \in Says("down") /\ "closed" \in Says("down")
        /\ "open" \in Status /\ "down" \in Status
        /\ "unavailable" # "created" /\ "closed" # "created"
    BY DEF LinkEvents, Says
  <2>3. /\ one \in Seq(Event)
        /\ Right(one, l, View(l), "down", tooLate)
        /\ \A k \in LinkId \ {l} : Right(one, k, View(k), dtndLink[k], tooLate)
    BY <1>t, <1>r, <2>1, <2>2, PushedMore
  <2> HIDE DEF one
  <2>4. LET two == Append(one, <<"closed", l>>)
        IN  /\ two \in Seq(Event)
            /\ Right(two, l, View(l), "down", tooLate)
            /\ \A k \in LinkId \ {l} : Right(two, k, View(k), dtndLink[k], tooLate)
    BY <2>2, <2>3, PushedMore
  <2> QED
    BY <2>4 DEF one
<1>11. ASSUME NEW l \in LinkId, DtndClose(l) PROVE Heard'
  <2>1. /\ dtndLink[l] = "open" /\ dtndLink' = [dtndLink EXCEPT ![l] = "down"]
        /\ dtndLink'[l] = "down" /\ \A k \in LinkId \ {l} : dtndLink'[k] = dtndLink[k]
        /\ tooLate' = tooLate
    BY <1>t, <1>11 DEF DtndClose, Stops
  <2>2. CASE Tells(<< <<"closed", l>> >>)
    BY <1>4, <2>1, <2>2 DEF LinkEvents, Says
  <2>3. CASE Tells(<< <<"unavailable", l>>, <<"closed", l>> >>)
    <3>1. events' = Append(Append(events, <<"unavailable", l>>), <<"closed", l>>)
      BY <1>t, <1>e, <2>3, Concatenated DEF Tells, LinkEvents
    <3> QED
      BY <1>5, <1>10, <2>1, <3>1
  <2> QED
    BY <1>11, <2>2, <2>3 DEF DtndClose
<1>12. ASSUME NEW l \in LinkId, DtndDelete(l) PROVE Heard'
  <2>1. /\ dtndLink[l] # "none" /\ dtndLink' = [dtndLink EXCEPT ![l] = "none"]
        /\ dtndLink'[l] = "none" /\ \A k \in LinkId \ {l} : dtndLink'[k] = dtndLink[k]
        /\ tooLate' = tooLate
    BY <1>t, <1>12 DEF DtndDelete, Stops
  <2>2. CASE dtndLink[l] # "open"
    <3>1. Tells(<< <<"deleted", l>> >>)
      BY <1>12, <2>2 DEF DtndDelete
    <3> QED
      BY <1>4, <2>1, <3>1 DEF LinkEvents, Says
  <2>3. CASE dtndLink[l] = "open"
    <3> DEFINE two == Append(Append(events, <<"unavailable", l>>), <<"closed", l>>)
               t == Append(two, <<"deleted", l>>)
    <3>1. Tells(<< <<"unavailable", l>>, <<"closed", l>>, <<"deleted", l>> >>)
      BY <1>12, <2>3 DEF DtndDelete
    <3>2. events' = t
      <4>1. /\ <<"unavailable", l>> \in Event /\ <<"closed", l>> \in Event
            /\ <<"deleted", l>> \in Event
        BY <1>e DEF LinkEvents
      <4>2. events' = events \o << <<"unavailable", l>>, <<"closed", l>>,
                                   <<"deleted", l>> >>
        BY <3>1 DEF Tells
      <4> QED
        BY <1>t, <4>1, <4>2, Concatenated
    <3>3. /\ two \in Seq(Event)
          /\ Right(two, l, View(l), "down", tooLate)
          /\ \A k \in LinkId \ {l} : Right(two, k, View(k), dtndLink[k], tooLate)
      BY <1>10, <2>3
    <3>4. /\ "deleted" \in LinkEvents /\ "deleted" \in Says("none")
          /\ "none" \in Status /\ "down" \in Status /\ "deleted" # "created"
      BY DEF LinkEvents, Says
    <3> HIDE DEF two
    <3>5. /\ t \in Seq(Event)
          /\ Right(t, l, View(l), "none", tooLate)
          /\ \A k \in LinkId \ {l} : Right(t, k, View(k), dtndLink[k], tooLate)
      BY <3>3, <3>4, PushedMore
    <3> HIDE DEF t
    <3> QED
      BY <1>5, <2>1, <3>2, <3>4, <3>5
  <2> QED
    BY <2>2, <2>3
<1>13. ASSUME NEW l \in LinkId, DtndTransmitted(l) PROVE Heard'
  <2> DEFINE e == <<"transmitted", l>>
  <2>1. /\ Tells(<<e>>) /\ dtndLink' = dtndLink
        /\ dtndLink[l] # "none" \/ l \in tooLate'
    BY <1>13 DEF DtndTransmitted
  <2>2. e \in Event /\ e[1] \notin LinkEvents /\ e[2] = l
    BY DEF Event, LinkEvents
  <2> HIDE DEF e
  <2>3. \A k \in LinkId : Leads(e, k, dtndLink[k], dtndLink'[k])
    BY <2>1, <2>2 DEF Leads
  <2> QED
    BY <1>3, <2>1, <2>2, <2>3
<1> QED
  BY <1>7, <1>8, <1>9, <1>11, <1>12, <1>13 DEF DtndStep

\* The main thread handles a datagram about the link l.
LEMMA LinkHeard ==
  ASSUME TypeOK, Heard, losses = 0, NEW l \in LinkId, HandleLink(l), ended' = "no"
  PROVE  Heard'
<1> USE DEF STATE_NONEXTANT, STATE_UNAVAILABLE, STATE_AVAILABLE, STATE_CLOSED,
        STATE_OPENING, STATE_OPEN
<1>t. /\ linkMap \in [LinkId -> {"absent", "null", "object"}]
      /\ state \in [LinkId -> 0 .. 5]
  BY DEF TypeOK, LinksTyped
<1>1. UNCHANGED <<dtndLink, tooLate, network>>
  BY DEF HandleLink, HandleUnknown, HandleTransmitted, HandleCreated, HandleAvailable,
     HandleUnavailable, HandleOpened, HandleClosed, HandleDeleted,
     HandleDeletedUnknown, UseFreedNode, MainOnly, dtndVars
<1>2. ASSUME NEW type \in LinkEvents, Takes(type, l),
             \A k \in LinkId \ {l} : linkMap'[k] = linkMap[k] /\ state'[k] = state[k],
             CASE type = "deleted" -> View(l)' = "absent"
               [] type = "opened" -> View(l)' = IF Known(l) THEN "open" ELSE "null"
               [] type = "created" -> View(l)' = IF Known(l) THEN View(l) ELSE "shut"
               [] OTHER -> View(l)' = IF Known(l) THEN "shut" ELSE "null"
      PROVE  Heard'
  <2>1. /\ events # <<>> /\ events' = Tail(events) /\ events[1] = <<type, l>>
        /\ \A k \in LinkId : About(events, k, 1) <=> k = l
        /\ type = "created" => ~Known(l)
        /\ l \notin Early /\ type # "created" => Known(l)
    BY <1>2, HeadHeard
  <2>2. \A k \in LinkId \ {l} : View(k)' = View(k)
    BY <1>2 DEF View, Known
  <2>3. /\ \A d2 \in Status : type \in Says(d2) => View(l)' \in Fits(d2)
        /\ l \notin Early => /\ View(l)' # "null"
                             /\ type # "deleted" => View(l)' \in Objects
    <3>1. CASE type = "deleted"
      BY <1>2, <3>1 DEF Status, Says, Fits, Nothing
    <3>2. CASE type = "opened"
      BY <1>2, <2>1, <3>2 DEF Status, Says, Fits, Nothing, Objects
    <3>3. CASE type = "created"
      BY <1>2, <2>1, <3>3 DEF Status, Says, Fits, Nothing, Objects
    <3>4. CASE type \notin {"created", "opened", "deleted"}
      BY <1>2, <2>1, <3>4 DEF Status, Says, Fits, Nothing, Objects
    <3> QED
      BY <3>1, <3>2, <3>3, <3>4
  <2>4. events[1][1] = type /\ ended = "no"
    BY <1>2, <2>1 DEF Takes
  <2> QED
    BY <1>1, <2>1, <2>2, <2>3, <2>4, Popped DEF LeftAs
\* A transmission finds the link in the map, or nothing, and leaves that.
<1>8. CASE HandleTransmitted(l)
  <2>1. events \in Seq(Event) /\ Head(events) = <<"transmitted", l>>
    BY <1>8 DEF TypeOK, Event, HandleTransmitted, Takes
  <2>2. /\ ended = "no" /\ events # <<>> /\ events' = Tail(events)
        /\ events[1] = <<"transmitted", l>>
    BY <1>8, <2>1 DEF HandleTransmitted, Takes
  <2>3. \A k \in LinkId : ~About(events, k, 1)
    BY <2>2 DEF About, LinkEvents
  <2>4. ASSUME l \notin Early \cup tooLate PROVE Known(l)
    <3>1. Timely(events, l, View(l))
      BY <2>2, <2>4 DEF Heard, Right
    <3>2. events[1][2] = l /\ events[1][1] \in {"transmitted"}
      BY <2>2
    <3>3. View(l) \in Objects
      BY <2>1, <2>2, <3>1, <3>2, HeadPreceded DEF Timely
    <3> QED
      BY <1>t, <3>3 DEF View, Objects
  <2>5. state' = state /\ linkMap' = LookedUp(l)
    BY <1>8 DEF HandleTransmitted
  <2>6. \A k \in LinkId \ {l} : View(k)' = View(k)
    BY <1>t, <2>5 DEF View, Known, LookedUp
  <2>7. CASE Known(l)
    BY <1>1, <2>2, <2>3, <2>5, <2>6, <2>7, Popped DEF LeftAs, View, Known, LookedUp
  <2>8. CASE ~Known(l)
    <3>1. View(l) \in Nothing /\ View(l)' \in Nothing
      BY <1>t, <2>5, <2>8 DEF View, Known, LookedUp, Nothing
    <3> QED
      BY <1>1, <2>2, <2>3, <2>4, <2>6, <2>8, <3>1, Popped DEF LeftAs
  <2> QED
    BY <2>7, <2>8
<1>3. CASE HandleUnknown(l)
  <2>1. PICK type \in LinkEvents \ {"created", "deleted"} : Takes(type, l)
    BY <1>3 DEF HandleUnknown
  <2>2. /\ ~Known(l) /\ linkMap'[l] = "null" /\ state' = state
        /\ \A k \in LinkId \ {l} : linkMap'[k] = linkMap[k]
    BY <1>t, <1>3 DEF HandleUnknown, LookedUp
  <2>3. View(l)' = "null"
    BY <2>2 DEF View, Known
  <2> QED
    BY <1>2, <2>1, <2>2, <2>3
<1>4. CASE HandleCreated(l)
  <2>1. Takes("created", l) /\ "created" \in LinkEvents
    BY <1>4 DEF HandleCreated, LinkEvents
  <2>2. ~Known(l)
    BY <2>1, HeadHeard
  <2>3. /\ linkMap'[l] = "object" /\ state'[l] \in {1, 2, 4}
        /\ \A k \in LinkId \ {l} : linkMap'[k] = linkMap[k] /\ state'[k] = state[k]
    BY <1>t, <1>4, <2>2 DEF HandleCreated, NewState
  <2>4. View(l)' = "shut"
    BY <2>3 DEF View, Known
  <2> QED
    BY <1>2, <2>1, <2>2, <2>3, <2>4
<1>5. CASE HandleAvailable(l) \/ HandleUnavailable(l) \/ HandleClosed(l)
  <2>1. PICK type \in {"available", "unavailable", "closed"}, s \in {1, 2, 3} :
          Takes(type, l) /\ state' = [state EXCEPT ![l] = s] /\ linkMap' = linkMap
    BY <1>5 DEF HandleAvailable, HandleUnavailable, HandleClosed, StateChange, NewState
  <2>2. Known(l) /\ type \in LinkEvents
    BY <1>5 DEF HandleAvailable, HandleUnavailable, HandleClosed, LinkEvents
  <2>3. View(l)' = "shut" /\ \A k \in LinkId \ {l} : state'[k] = state[k]
    BY <1>t, <2>1, <2>2 DEF View, Known
  <2> QED
    BY <1>2, <2>1, <2>2, <2>3
<1>6. CASE HandleOpened(l)
  <2>1. /\ Takes("opened", l) /\ "opened" \in LinkEvents /\ Known(l)
        /\ linkMap' = linkMap /\ state'[l] = 5
        /\ \A k \in LinkId \ {l} : state'[k] = state[k]
    BY <1>t, <1>6 DEF HandleOpened, NewState, LinkEvents
  <2>2. View(l)' = "open"
    BY <2>1 DEF View, Known
  <2> QED
    BY <1>2, <2>1, <2>2
<1>7. CASE HandleDeleted(l)
  <2>1. /\ Takes("deleted", l) /\ "deleted" \in LinkEvents
        /\ linkMap'[l] = "absent"
        /\ \A k \in LinkId \ {l} : linkMap'[k] = linkMap[k] /\ state'[k] = state[k]
    BY <1>t, <1>7 DEF HandleDeleted, Removed, NewState, LinkEvents
  <2>2. View(l)' = "absent"
    BY <2>1 DEF View, Known
  <2> QED
    BY <1>2, <2>1, <2>2
<1> QED
  BY <1>3, <1>4, <1>5, <1>6, <1>7, <1>8
  DEF HandleLink, HandleDeletedUnknown, UseFreedNode

LEMMA MainHeard == ASSUME TypeOK, Heard, MainStep PROVE Heard'
<1> SUFFICES ASSUME losses' = 0, ended' = "no" PROVE Heard'
  BY DEF Heard
<1>1. losses' = losses /\ ended = "no"
  BY DEF MainStep, HandleLink, HandleUnknown, HandleTransmitted, HandleCreated, HandleAvailable,
     HandleUnavailable, HandleOpened, HandleClosed, HandleDeleted, HandleHello,
     HandleDeletedUnknown, UseFreedNode, HandleBundle, MainOnly, Takes
<1>2. ASSUME NEW type, NEW subject, Takes(type, subject), type \notin LinkEvents,
             UNCHANGED <<linkMap, state, dtndLink, tooLate, network>>
      PROVE  Heard'
  <2>1. events \in Seq(Event) /\ Head(events) = <<type, subject>>
    BY <1>2 DEF TypeOK, Event, Takes
  <2>2. events # <<>> /\ events' = Tail(events) /\ events[1] = <<type, subject>>
    BY <1>2, <2>1 DEF Takes
  <2>3. \A l \in LinkId : ~About(events, l, 1) /\ View(l)' = View(l)
    BY <1>2, <2>2 DEF About, View, Known
  <2> QED
    BY <1>1, <1>2, <2>2, <2>3, Popped DEF LeftAs
<1>3. CASE HandleHello
  BY <1>2, <1>3 DEF HandleHello, MainOnly, linkVars, dtndVars, LinkEvents
<1>4. ASSUME NEW e \in EID, HandleBundle(e) PROVE Heard'
  BY <1>2, <1>4 DEF HandleBundle, MainOnly, dtndVars, LinkEvents
<1> QED
  BY <1>1, <1>3, <1>4, LinkHeard DEF MainStep

\* Losses are only counted.
LEMMA LossesCount ==
  ASSUME TypeOK, [Next]_vars
  PROVE  losses \in Nat /\ (losses' = losses + 1 \/ losses' = losses)
<1>1. losses \in 0 .. MaxLosses /\ MaxLosses \in Nat
  BY LinksAssumption DEF TypeOK
<1>2. losses' = losses + 1 \/ losses' = losses
  BY DEF Next, MainStep, HandleLink, HandleUnknown, HandleTransmitted, HandleCreated,
     HandleAvailable, HandleUnavailable, HandleOpened, HandleClosed,
     HandleDeleted, HandleDeletedUnknown, UseFreedNode, HandleHello,
     HandleBundle, MainOnly, PeerStep, PeerFindNode, PeerGetLink, PeerUse,
     DtndStep, DtndHello, DtndBundle, DtndCreate, DtndNotice, DtndOpen,
     DtndClose, DtndDelete, DtndTransmitted, LoseEvent, vars
<1> QED
  BY <1>1, <1>2

\* After the end nothing is taken or told.
LEMMA AfterTheEnd ==
  ASSUME [Next]_vars, ended # "no"
  PROVE  UNCHANGED <<ended, linkMap, tooLate, losses>> \/ losses' # losses
BY DEF Next, MainStep, HandleLink, HandleUnknown, HandleTransmitted, HandleCreated,
   HandleAvailable, HandleUnavailable, HandleOpened, HandleClosed, HandleDeleted,
   HandleDeletedUnknown, UseFreedNode, HandleHello, HandleBundle, Takes, PeerStep,
   PeerFindNode, PeerGetLink, PeerUse, DtndStep, DtndHello, DtndBundle, DtndCreate,
   DtndNotice, DtndOpen, DtndClose, DtndDelete, DtndTransmitted, LoseEvent, Tells,
   DtndOnly, linkVars, dtndVars, vars

LEMMA EndStep ==
  ASSUME TypeOK, Heard, EndsOnlyUninformed, [Next]_vars
  PROVE  EndsOnlyUninformed'
<1>l. losses \in Nat /\ (losses' = losses + 1 \/ losses' = losses)
  BY LossesCount
<1>n. losses' = 0 => losses = 0
  BY <1>l
<1>1. network' = network /\ Early' = Early
  BY NetworkFixed DEF Early
<1> SUFFICES ASSUME ended' \in {"null entry", "unknown deleted"}, losses = 0,
                    losses' = losses
             PROVE  EndsOnlyUninformed'
  BY <1>n DEF EndsOnlyUninformed
<1>2. CASE ended # "no"
  <2>1. UNCHANGED <<ended, linkMap, tooLate>>
    BY <1>2, AfterTheEnd
  <2> QED
    BY <1>1, <2>1 DEF EndsOnlyUninformed
<1>3. CASE ended = "no"
  <2>1. (\E l \in LinkId : HandleDeletedUnknown(l)) \/ HandleHello
    BY <1>3 DEF Next, MainStep, HandleLink, HandleUnknown, HandleTransmitted,
       HandleCreated, HandleAvailable, HandleUnavailable, HandleOpened,
       HandleClosed, HandleDeleted, UseFreedNode, HandleBundle, PeerStep,
       PeerFindNode, PeerGetLink, PeerUse, DtndStep, DtndHello, DtndBundle,
       DtndCreate, DtndNotice, DtndOpen, DtndClose, DtndDelete, DtndTransmitted,
       LoseEvent, DtndOnly, vars
  <2>2. ASSUME NEW l \in LinkId, HandleDeletedUnknown(l)
        PROVE  ended' = "unknown deleted" /\ l \in Early
    <3>1. Takes("deleted", l) /\ ~Known(l) /\ "deleted" \in LinkEvents
      BY <2>2 DEF HandleDeletedUnknown, LinkEvents
    <3> QED
      BY <2>2, <3>1, HeadHeard DEF HandleDeletedUnknown
  <2>3. CASE HandleHello
    <3>1. PICK l \in LinkId : linkMap[l] = "null"
      BY <1>3, <2>3 DEF HandleHello
    <3>2. View(l) = "null"
      BY <3>1 DEF View, Known
    <3>3. l \in Early \cup tooLate
      BY <1>3, <3>2 DEF Heard, Right, Timely
    <3>4. UNCHANGED <<linkMap, tooLate>> /\ ended' = "null entry"
      BY <2>3, <3>1 DEF HandleHello, MainOnly, linkVars, dtndVars
    <3> QED
      BY <1>1, <3>1, <3>3, <3>4 DEF EndsOnlyUninformed
  <2> QED
    BY <1>1, <2>1, <2>2, <2>3 DEF EndsOnlyUninformed
<1> QED
  BY <1>2, <1>3

LEMMA HeardStep == TypeOK /\ TypeOK' /\ Heard /\ [Next]_vars => Heard'
<1> SUFFICES ASSUME TypeOK, TypeOK', Heard, [Next]_vars PROVE Heard'
  OBVIOUS
<1>1. CASE PeerStep \/ UNCHANGED vars
  <2>1. /\ UNCHANGED <<events, linkMap, state, dtndLink, tooLate, losses, network>>
        /\ ended = "no" \/ ended' = ended
    BY <1>1 DEF PeerStep, PeerFindNode, PeerGetLink, PeerUse, vars, linkVars, dtndVars
  <2> QED
    BY <2>1 DEF Heard, Right, View, Known, Early
<1> QED
  BY <1>1, DtndHeard, MainHeard DEF Next

\* What the router has seen and what waits for it is what dtnd did.
THEOREM HeardInvariance == Spec => [](Heard /\ EndsOnlyUninformed)
<1>1. Init => Heard /\ EndsOnlyUninformed
  BY HeardStart DEF Init, EndsOnlyUninformed
<1>2. TypeOK /\ TypeOK' /\ Heard /\ EndsOnlyUninformed /\ [Next]_vars
        => (Heard /\ EndsOnlyUninformed)'
  BY HeardStep, EndStep
<1> QED
  BY <1>1, <1>2, TypeCorrect, PTL DEF Spec

\* handler_link_*_event: as soon as every event about a link is handled, and
\* none was lost, the router's state of the link is dtnd's, in whatever order
\* dtnd's queue put "unavailable" and "closed".
THEOREM RouterInSync == Spec => []InSync
<1>1. ASSUME TypeOK, Heard PROVE InSync
  <2> SUFFICES ASSUME losses = 0, ended = "no", NEW l \in LinkId, NothingPending(l)
               PROVE  /\ l \notin Early => (Known(l) <=> dtndLink[l] # "none")
                      /\ Known(l) => (state[l] = STATE_OPEN <=> dtndLink[l] = "open")
    BY DEF InSync
  <2>1. \A i \in 1 .. Len(events) : ~About(events, l, i)
    BY <1>1 DEF NothingPending, TypeOK, About
  <2>2. /\ View(l) \in Fits(dtndLink[l])
        /\ l \notin Early /\ dtndLink[l] # "none" => View(l) \in Objects
    BY <1>1, <2>1 DEF Heard, Right, Follows, Informed, After
  <2>3. dtndLink[l] \in Status /\ linkMap[l] \in {"absent", "null", "object"}
    BY <1>1 DEF TypeOK, LinksTyped, Status
  <2> QED
    BY <2>2, <2>3 DEF View, Known, Fits, Nothing, Objects, Status
<1> QED
  BY <1>1, HeardInvariance, TypeCorrect, PTL

\* deleteEvt and the hello loop dereference no missing Link unless a datagram
\* was lost, dtnd had links before the router, or it told of a transmission over
\* a link after its deletion: nothing else brings it about.
THEOREM EndsUninformed == Spec => []EndsOnlyUninformed
BY HeardInvariance, PTL
=============================================================================
