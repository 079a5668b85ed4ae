------------------------------- MODULE Gateway -------------------------------
(***************************************************************************)
(* How one HBSD router starts (main.cpp, HBSD.cpp), and how it serves a    *)
(* MeDeHa gateway meanwhile and afterwards (MeDeHaInterface.cpp) from the  *)
(* one list of nodes (Nodes.cpp) that three threads read and write.        *)
(*                                                                         *)
(*   main:    setupSAX starts the MeDeHa thread, setupMulticast binds the  *)
(*            socket and makes the requester, then come dtnd's events; the *)
(*            first datagram tells the router its own name                 *)
(*   MeDeHa:  one request after the other: inject a bundle, list the       *)
(*            nodes, find a node                                           *)
(*   peer:    looks the sender of each summary vector up, and hands the    *)
(*            bundles for the gateway on                                   *)
(*                                                                         *)
(* nodesList is a map whose operator[] makes a null entry for whoever is   *)
(* looked up: nodes tells such an entry from a Node and from no entry.     *)
(***************************************************************************)
EXTENDS Integers, Sequences

CONSTANTS
  LinkId,       \* dtnd's links
  EID,          \* other nodes
  Self,         \* the router's own node
  PeerOf,       \* [LinkId -> EID], the node a link leads to
  Greater,      \* the nodes with a greater EID than this one's
  Configured,   \* what HBSD.conf may say
  MayCarry,     \* bound: the configurations in which bundles go over links
  QueueBound,   \* bound: datagrams in the router's socket
  MaxRequests,  \* bound: requests of the gateway
  MaxSockets,   \* descriptors the process may have for sockets to the gateway
  NONE

Name == EID \cup {Self}

ASSUME GatewayAssumption ==
  /\ Self \notin EID /\ NONE \notin Name
  /\ PeerOf \in [LinkId -> EID] /\ Greater \subseteq EID
  /\ Configured \subseteq [medeha : BOOLEAN, optimization : BOOLEAN,
                           terminateWithDTN : BOOLEAN]
  /\ MayCarry \subseteq Configured
  /\ QueueBound \in Nat /\ MaxRequests \in Nat
  /\ MaxSockets \in Nat

VARIABLES
  conf,
  mainPc,      \* the main thread's place
  localEID,    \* "empty", "half" (hbsdRegistration is not yet set) or "set"
  nodes,       \* [Name -> "absent", "null" or "node"]
  view,        \* [LinkId -> what the router knows of it]; "null": an entry of
               \* linkMap without a Link
  events,      \* the datagrams in the router's socket, in order
  msgQueue,    \* the senders of the vectors in it, and NONE for gateway data
  sockets,     \* descriptors that data handed on has used
  gwPc,        \* the MeDeHa thread's place
  gwFor,       \* the destination of its injection, or NONE
  gwSource,    \* the source it gave the bundle: "none", "bare" or "named"
  idAvailability, \* the answer to the gateway's last request
  asked,       \* the destinations of the injections dtnd has to do
  requests,    \* the gateway's requests so far
  lateBare,    \* injections without a name sent by a router that had one
  stopInterfaceThread,
  dtndLink,    \* [LinkId -> "none", "down" or "open"]
  early,       \* dtnd made a link before the router listened
  unsent,      \* links closed in the middle of a bundle, of which dtnd has
               \* still to tell that it was transmitted
  tooLate,     \* history: links of which it told that when they were deleted
  forgotten,   \* nodes removed since a link to them was last opened
  ended        \* "no", or why the process ended

gwVars   == <<gwPc, gwFor, gwSource, idAvailability, asked, requests, lateBare>>
mainVars == <<mainPc, localEID>>
dtndVars == <<dtndLink, early, unsent, tooLate>>
vars == <<conf, mainVars, nodes, view, events, msgQueue, sockets, gwVars,
          stopInterfaceThread, dtndVars, forgotten, ended>>

LinkEvents == {"created", "opened", "closed", "deleted"}

Event == (LinkEvents \X LinkId) \cup ({"transmitted"} \X LinkId)
           \cup ({"received", "injected"} \X Name)
           \cup ({"vector"} \X EID) \cup ({"hello", "shutdown", "data"} \X {NONE})

Directory == INSTANCE NodeDirectory WITH
  Node <- Name, members <- {e \in Name : nodes[e] = "node"},
  answer <- idAvailability

TypeOK ==
  /\ conf \in Configured
  /\ mainPc \in {"setupSAX", "setupMulticast", "new Requester", "init",
                 "initialized", "loop", "named", "stopping"}
  /\ localEID \in {"empty", "half", "set"}
  /\ nodes \in [Name -> {"absent", "null", "node"}]
  /\ view \in [LinkId -> {"absent", "null", "new", "open", "closed"}]
  /\ events \in Seq(Event) /\ Len(events) <= QueueBound
  /\ msgQueue \subseteq EID \cup {NONE} /\ sockets \in 0 .. MaxSockets
  /\ gwPc \in {"none", "start", "check", "wait", "inject", "send", "done"}
  /\ gwFor \in Name \cup {NONE} /\ gwSource \in {"none", "bare", "named"}
  /\ idAvailability \in Directory!Answer
  /\ asked \subseteq Name /\ requests \in 0 .. MaxRequests
  /\ lateBare \in 0 .. MaxRequests
  /\ stopInterfaceThread \in BOOLEAN
  /\ dtndLink \in [LinkId -> {"none", "down", "open"}]
  /\ early \in BOOLEAN /\ forgotten \subseteq EID
  /\ unsent \subseteq LinkId /\ tooLate \subseteq LinkId
  /\ ended \in {"no", "no requester", "bad socket", "no nodes", "null entry",
                "unknown deleted", "no socket", "terminated"}

Init ==
  /\ conf \in Configured
  /\ mainPc = "setupSAX" /\ localEID = "empty"
  /\ nodes = [e \in Name |-> "absent"]
  /\ view = [l \in LinkId |-> "absent"]
  /\ events = <<>> /\ msgQueue = {} /\ sockets = 0
  /\ gwPc = "none" /\ gwFor = NONE /\ gwSource = "none"
  /\ idAvailability = Directory!Silent
  /\ asked = {} /\ requests = 0 /\ lateBare = 0
  /\ stopInterfaceThread = FALSE
  /\ dtndLink = [l \in LinkId |-> "none"] /\ early = FALSE /\ forgotten = {}
  /\ unsent = {} /\ tooLate = {}
  /\ ended = "no"

------------------------------------------------------------------------------
(* The list of nodes *)

\* Mutant of ConditionalAdd: an entry, even a null one, counts as a node.
ConditionalAdd_AnyEntry(map, e) ==
  IF e = Self /\ localEID # "empty" THEN map
  ELSE IF map[e] = "absent" THEN [map EXCEPT ![e] = "node"] ELSE map

\* A node for e, if e is not the router's own name, as far as it knows it.
ConditionalAdd(map, e) ==
  IF e = Self /\ localEID # "empty" THEN map ELSE [map EXCEPT ![e] = "node"]

\* What a lookup leaves: a null entry for whom it did not find.
FindNode(map, e) ==
  IF map[e] = "absent" THEN [map EXCEPT ![e] = "null"] ELSE map

RemoveNode(map, e) == [map EXCEPT ![e] = "absent"]

Listed == {e \in Name : nodes[e] # "absent"}

------------------------------------------------------------------------------
(* The main thread starts *)

Running == ended = "no"

MainGoes(from, to) ==
  /\ Running /\ mainPc = from /\ mainPc' = to
  /\ UNCHANGED <<conf, localEID, nodes, view, msgQueue, sockets,
                 stopInterfaceThread, dtndVars, forgotten, ended>>

\* The HBSD_Routing constructor starts the gateway's thread, if there is one.
SetupSAX ==
  /\ MainGoes("setupSAX", "setupMulticast")
  /\ gwPc' = IF conf.medeha THEN "start" ELSE "none"
  /\ UNCHANGED <<events, gwFor, gwSource, idAvailability, asked, requests,
                 lateBare>>

StartUp ==
  /\ \/ MainGoes("setupMulticast", "new Requester")   \* bind
     \/ MainGoes("new Requester", "init")
     \/ MainGoes("init", "initialized")
     \/ MainGoes("initialized", "loop")
  /\ UNCHANGED <<events, gwVars>>

Listening == mainPc \notin {"setupSAX", "setupMulticast"}

------------------------------------------------------------------------------
(* dtnd *)

\* dtnd sends these; before bind, nobody gets them.  A router that stops with
\* dtnd has had its alert, after which dtnd only ends (handle_shutdown_request).
Tells(news) ==
  /\ Running /\ mainPc # "stopping" /\ Len(events) + Len(news) <= QueueBound
  /\ events' = IF Listening THEN events \o news ELSE events

DtndOnly == UNCHANGED <<conf, mainVars, nodes, view, msgQueue, sockets, gwPc,
                        gwFor, gwSource, idAvailability, requests, lateBare,
                        stopInterfaceThread, forgotten, ended>>

DtndCreate(l) ==
  /\ dtndLink[l] = "none" /\ dtndLink' = [dtndLink EXCEPT ![l] = "down"]
  /\ early' = (early \/ ~Listening)
  /\ Tells(<< <<"created", l>> >>)
  /\ DtndOnly /\ UNCHANGED <<unsent, tooLate, asked>>

DtndOpen(l) ==
  /\ dtndLink[l] = "down" /\ dtndLink' = [dtndLink EXCEPT ![l] = "open"]
  /\ Tells(<< <<"opened", l>> >>)
  /\ DtndOnly /\ UNCHANGED <<early, unsent, tooLate, asked>>

\* The link stops being open, perhaps in the middle of a bundle: close_contact
\* then posts a transmission at the tail of dtnd's queue.
Stops(l) ==
  /\ \/ UNCHANGED unsent
     \/ conf \in MayCarry /\ unsent' = unsent \cup {l}
  /\ UNCHANGED tooLate

DtndClose(l) ==
  /\ dtndLink[l] = "open" /\ dtndLink' = [dtndLink EXCEPT ![l] = "down"]
  /\ Tells(<< <<"closed", l>> >>)
  /\ Stops(l)
  /\ DtndOnly /\ UNCHANGED <<early, asked>>

DtndDelete(l) ==
  /\ dtndLink[l] # "none" /\ dtndLink' = [dtndLink EXCEPT ![l] = "none"]
  /\ IF dtndLink[l] = "open"
       THEN Tells(<< <<"closed", l>>, <<"deleted", l>> >>) /\ Stops(l)
       ELSE Tells(<< <<"deleted", l>> >>) /\ UNCHANGED <<unsent, tooLate>>
  /\ DtndOnly /\ UNCHANGED <<early, asked>>

\* A bundle is sent over the open link, or dtnd comes to the transmission that
\* the end of the contact left: the link may be gone by then.
DtndTransmitted(l) ==
  /\ \/ dtndLink[l] = "open" /\ conf \in MayCarry /\ UNCHANGED unsent
     \/ l \in unsent /\ unsent' = unsent \ {l}
  /\ tooLate' = IF dtndLink[l] = "none" THEN tooLate \cup {l} ELSE tooLate
  /\ Tells(<< <<"transmitted", l>> >>)
  /\ DtndOnly /\ UNCHANGED <<dtndLink, early, asked>>

\* A bundle arrives for some node, or a vector from one, or data for the
\* gateway, or it is time for a hello, or dtnd shuts down.  Bound: nothing else
\* is on its way.
DtndTraffic ==
  /\ events = <<>> /\ msgQueue = {}
  /\ \/ \E e \in Name : Tells(<< <<"received", e>> >>)
     \/ \E e \in EID : Tells(<< <<"vector", e>> >>)
     \/ \E alert \in {"data", "hello", "shutdown"} : Tells(<< <<alert, NONE>> >>)
  /\ DtndOnly /\ UNCHANGED <<dtndVars, asked>>

\* Only a request with a valid source is in asked.
DtndInject(e) ==
  /\ e \in asked /\ asked' = asked \ {e}
  /\ Tells(<< <<"injected", e>> >>)
  /\ DtndOnly /\ UNCHANGED dtndVars

------------------------------------------------------------------------------
(* The main thread handles dtnd's datagrams *)

MainOnly == UNCHANGED <<conf, msgQueue, sockets, gwVars, stopInterfaceThread,
                        dtndVars>>

\* firstMessage: any datagram names this node; setLocalEID makes two strings of
\* it, while the MeDeHa thread may be reading the second.
FirstMessage ==
  /\ Running /\ mainPc = "loop" /\ events # <<>> /\ localEID = "empty"
  /\ mainPc' = "named" /\ localEID' = "half"
  /\ MainOnly /\ UNCHANGED <<nodes, view, events, forgotten, ended>>

SetRegistration ==
  /\ Running /\ mainPc = "named"
  /\ mainPc' = "loop" /\ localEID' = "set"
  /\ MainOnly /\ UNCHANGED <<nodes, view, events, forgotten, ended>>

\* Mutant of Named: a handler that does without firstMessage.
Named_Anyway == TRUE

\* Each handler calls firstMessage before anything else.
Named == localEID = "set"

Takes(type, subject) ==
  /\ Running /\ mainPc = "loop" /\ Named
  /\ events # <<>> /\ Head(events) = <<type, subject>>
  /\ events' = Tail(events)
  /\ UNCHANGED localEID

Known(l) == view[l] \notin {"absent", "null"}

\* getById of an unknown link makes an entry without a Link.
HandleUnknown(l) ==
  /\ \E type \in {"opened", "closed"} : Takes(type, l)
  /\ ~Known(l) /\ view' = [view EXCEPT ![l] = "null"]
  /\ MainOnly /\ UNCHANGED <<mainPc, nodes, forgotten, ended>>

\* handler_data_transmitted_event only looks the link up: one that is unknown it
\* means to report, and getById leaves its entry.
HandleTransmitted(l) ==
  /\ Takes("transmitted", l)
  /\ view' = IF Known(l) THEN view ELSE [view EXCEPT ![l] = "null"]
  /\ MainOnly /\ UNCHANGED <<mainPc, nodes, forgotten, ended>>

HandleCreated(l) ==
  /\ Takes("created", l)
  /\ view' = IF Known(l) THEN view ELSE [view EXCEPT ![l] = "new"]
  /\ MainOnly /\ UNCHANGED <<mainPc, nodes, forgotten, ended>>

HandleOpened(l) ==
  /\ Takes("opened", l) /\ Known(l)
  /\ view' = [view EXCEPT ![l] = "open"]
  /\ nodes' = ConditionalAdd(nodes, PeerOf[l])
  /\ forgotten' = forgotten \ {PeerOf[l]}
  /\ MainOnly /\ UNCHANGED <<mainPc, ended>>

\* Mutant of HandleClosed: the link is taken out.
HandleClosed_Removes(l) ==
  /\ Takes("closed", l) /\ Known(l)
  /\ view' = [view EXCEPT ![l] = "absent"]
  /\ MainOnly /\ UNCHANGED <<mainPc, nodes, forgotten, ended>>

HandleClosed(l) ==
  /\ Takes("closed", l) /\ Known(l)
  /\ view' = [view EXCEPT ![l] = "closed"]
  /\ MainOnly /\ UNCHANGED <<mainPc, nodes, forgotten, ended>>

\* The node of the link goes, if the link ever told its remoteEID.
HandleDeleted(l) ==
  /\ Takes("deleted", l) /\ Known(l)
  /\ view' = [view EXCEPT ![l] = "absent"]
  /\ IF view[l] = "new"
       THEN UNCHANGED <<nodes, forgotten>>
       ELSE /\ nodes' = RemoveNode(nodes, PeerOf[l])
            /\ forgotten' = forgotten \cup {PeerOf[l]}
  /\ MainOnly /\ UNCHANGED <<mainPc, ended>>

\* link->deleted() on the NULL that remove returned.
HandleDeletedUnknown(l) ==
  /\ Takes("deleted", l) /\ ~Known(l)
  /\ ended' = "unknown deleted"
  /\ MainOnly /\ UNCHANGED <<mainPc, nodes, view, forgotten>>

\* A bundle that came, or that dtnd injected for the gateway: addDestNode.
HandleBundle(e) ==
  /\ \E type \in {"received", "injected"} : Takes(type, e)
  /\ nodes' = ConditionalAdd(nodes, e)
  /\ MainOnly /\ UNCHANGED <<mainPc, view, forgotten, ended>>

\* eventDelivery: the vector of e, or the gateway's data, is put into msgQueue.
HandleDelivery(e) ==
  /\ Takes(IF e = NONE THEN "data" ELSE "vector", e)
  /\ msgQueue' = msgQueue \cup {e}
  /\ UNCHANGED <<conf, mainPc, nodes, view, sockets, gwVars,
                 stopInterfaceThread, dtndVars, forgotten, ended>>

\* InitiateESWithAvailableLinks looks the node of each open link up, and
\* dereferences every entry of linkMap.
HandleHello ==
  /\ Takes("hello", NONE)
  /\ LET met == {PeerOf[l] : l \in {k \in LinkId : view[k] = "open"}}
     IN  IF \E l \in LinkId : view[l] = "null"
           THEN ended' = "null entry" /\ UNCHANGED nodes
           ELSE /\ nodes' = [e \in Name |-> IF e \in met \cap Greater
                                            THEN FindNode(nodes, e)[e]
                                            ELSE nodes[e]]
                /\ UNCHANGED ended
  /\ MainOnly /\ UNCHANGED <<mainPc, view, forgotten>>

\* The alert that dtnd is shutting down: the gateway's thread is told to stop
\* and the process exits, or nothing happens.
HandleShutdown ==
  /\ Takes("shutdown", NONE)
  /\ IF conf.terminateWithDTN
       THEN mainPc' = "stopping" /\ stopInterfaceThread' = conf.medeha
       ELSE UNCHANGED <<mainPc, stopInterfaceThread>>
  /\ UNCHANGED <<conf, nodes, view, msgQueue, sockets, gwVars, dtndVars,
                 forgotten, ended>>

Exit ==
  /\ Running /\ mainPc = "stopping" /\ ended' = "terminated"
  /\ MainOnly /\ UNCHANGED <<mainVars, nodes, view, events, forgotten>>

------------------------------------------------------------------------------
(* The PeerListener *)

PeerOnly == UNCHANGED <<conf, mainVars, view, events, gwVars,
                        stopInterfaceThread, dtndVars, forgotten>>

\* metaDataReceived begins with findNode.
PeerLookup(e) ==
  /\ Running /\ e \in msgQueue
  /\ msgQueue' = msgQueue \ {e} /\ nodes' = FindNode(nodes, e)
  /\ PeerOnly /\ UNCHANGED <<sockets, ended>>

\* sendBackDataToMeDeHaDaemon opens a socket for each bundle and closes none.
PeerHandOn ==
  /\ Running /\ NONE \in msgQueue
  /\ msgQueue' = msgQueue \ {NONE}
  /\ IF sockets = MaxSockets
       THEN ended' = "no socket" /\ UNCHANGED sockets
       ELSE sockets' = sockets + 1 /\ UNCHANGED ended
  /\ PeerOnly /\ UNCHANGED nodes

------------------------------------------------------------------------------
(* The MeDeHa thread *)

GwGoes(from, to) ==
  /\ Running /\ gwPc = from /\ gwPc' = to
  /\ UNCHANGED <<conf, mainVars, view, events, msgQueue, sockets,
                 stopInterfaceThread, dtndVars, forgotten>>

GwBind ==
  /\ GwGoes("start", "check")
  /\ UNCHANGED <<nodes, gwFor, gwSource, idAvailability, asked, requests,
                 lateBare, ended>>

\* The request before is answered, and interfaceThreadStatus asked.
GwCheck ==
  /\ IF stopInterfaceThread THEN GwGoes("check", "done")
     ELSE GwGoes("check", "wait")
  /\ idAvailability' = Directory!Silent
  /\ UNCHANGED <<nodes, gwFor, gwSource, asked, requests, lateBare, ended>>

Request == requests < MaxRequests /\ requests' = requests + 1

\* Mutant of SourceNow: the registration is copied when the thread starts.
SourceNow_Copied == {"bare"}

\* The source that hbsdRegistration gives.  A string that is being assigned may
\* be read as either.
SourceNow ==
  CASE localEID = "empty" -> {"bare"}
    [] localEID = "half"  -> {"bare", "named"}
    [] localEID = "set"   -> {"named"}

\* INJECTBUNDLE: the file gets a number from the requester, if there is one;
\* the source is made of the registration as it is at this moment.
GwInject(e) ==
  /\ Request /\ GwGoes("wait", "inject")
  /\ IF mainPc \in {"setupSAX", "setupMulticast", "new Requester"}
       THEN ended' = "no requester" /\ UNCHANGED <<gwFor, gwSource>>
       ELSE /\ gwFor' = e
            /\ gwSource' \in SourceNow
            /\ UNCHANGED ended
  /\ UNCHANGED <<nodes, idAvailability, asked, lateBare>>

\* Mutant of DtndTakes: a bundle without a name is taken, for no destination.
DtndTakes_Bare == asked \cup {IF gwSource = "named" THEN gwFor ELSE NONE}

\* dtnd injects a bundle whose source is valid.
DtndTakes == IF gwSource = "named" THEN asked \cup {gwFor} ELSE asked

\* requestInjectMeDeHaBundle.  Before Requester::init the socket is whatever
\* number was there: the request fails, which ends the router, or goes nowhere.
GwSend ==
  /\ GwGoes("inject", "check")
  /\ gwFor' = NONE /\ gwSource' = "none"
  /\ IF mainPc = "init"
       THEN ended' \in {"no", "bad socket"} /\ UNCHANGED <<asked, lateBare>>
       ELSE /\ asked' = DtndTakes
            /\ lateBare' = IF gwSource = "bare" /\ localEID = "set"
                            THEN lateBare + 1 ELSE lateBare
            /\ UNCHANGED ended
  /\ UNCHANGED <<nodes, idAvailability, requests>>

Answered(reply) ==
  /\ idAvailability' = reply
  /\ UNCHANGED <<gwFor, gwSource, asked, lateBare>>

\* GETLISTEID, the same under both configurations.  The empty list is returned
\* as NULL, of which no string can be made; nobody catches the exception.
GwList ==
  /\ Request /\ GwGoes("wait", "check")
  /\ IF Listed = {}
       THEN ended' = "no nodes" /\ Answered(idAvailability)
       ELSE UNCHANGED ended /\ Answered([list |-> Listed])
  /\ UNCHANGED nodes

\* FIND: the statistics, which are asked if optimization is on, know no node.
GwFind(e) ==
  /\ Request /\ GwGoes("wait", "check")
  /\ IF conf.optimization
       THEN Answered([node |-> e, yes |-> FALSE]) /\ UNCHANGED nodes
       ELSE /\ Answered([node |-> e, yes |-> nodes[e] = "node"])
            /\ nodes' = FindNode(nodes, e)
  /\ UNCHANGED ended

\* FIND without an EID: the answer is a variable that was never set.
GwFindNothing ==
  /\ Request /\ GwGoes("wait", "check")
  /\ \E yes \in BOOLEAN : Answered([node |-> NONE, yes |-> yes])
  /\ UNCHANGED <<nodes, ended>>

------------------------------------------------------------------------------
HandleLink(l) ==
  \/ HandleUnknown(l) \/ HandleCreated(l) \/ HandleOpened(l)
  \/ HandleClosed(l) \/ HandleTransmitted(l)
  \/ HandleDeleted(l) \/ HandleDeletedUnknown(l)

MainStep ==
  \/ SetupSAX \/ StartUp
  \/ FirstMessage \/ SetRegistration
  \/ \E l \in LinkId : HandleLink(l)
  \/ \E e \in Name : HandleBundle(e)
  \/ \E e \in EID \cup {NONE} : HandleDelivery(e)
  \/ HandleHello \/ HandleShutdown \/ Exit

GwStep ==
  \/ GwBind \/ GwCheck \/ GwSend \/ GwList \/ GwFindNothing
  \/ \E e \in Name : GwInject(e) \/ GwFind(e)

DtndStep ==
  \/ DtndTraffic
  \/ \E e \in Name : DtndInject(e)
  \/ \E l \in LinkId :
       \/ DtndCreate(l) \/ DtndOpen(l) \/ DtndClose(l) \/ DtndDelete(l)
       \/ DtndTransmitted(l)

PeerStep == PeerHandOn \/ \E e \in EID : PeerLookup(e)

Next == MainStep \/ GwStep \/ DtndStep \/ PeerStep

Spec == Init /\ [][Next]_vars

------------------------------------------------------------------------------
(* Safety *)

\* The open link leads to a node that the gateway is told of, whatever was
\* looked up before by whichever thread; but a deletion takes the node with it
\* although another link to it is open.
NothingPending(l) == \A i \in DOMAIN events : events[i][2] # l
OpenPeersKnown ==
  \A l \in LinkId :
    dtndLink[l] = "open" /\ Known(l) /\ NothingPending(l)
      => nodes[PeerOf[l]] = "node" \/ PeerOf[l] \in forgotten

\* An end has a cause that lies with the hour or with dtnd: the gateway ends the
\* router that is still starting or that knows nobody; dtnd ends one that missed
\* a link made before it listened, or that it told of a transmission over a link
\* which it had deleted and did not make again since.  No other order of
\* requests and datagrams ends a router.
EndsForCause ==
  /\ ended \in {"no requester", "bad socket"} => localEID = "empty"
  /\ ended = "no nodes" =>
       \A l \in LinkId : view[l] = "open" => PeerOf[l] \in forgotten
  /\ ended = "unknown deleted" => early
  /\ ended = "null entry" =>
       early \/ \E l \in tooLate : view[l] = "null"

\* dtnd refuses a bundle without a valid source.  At most one of the gateway's
\* bundles is refused once the router has its name: the one in hand then.
RefusedOnceNamed == lateBare <= 1

\* To the gateway the list of nodes is a directory: see NodeDirectory.
DirectorySpec == Directory!Spec
==============================================================================
