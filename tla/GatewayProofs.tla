----------------------------- MODULE GatewayProofs -----------------------------
(***************************************************************************)
(* One router and its gateway, for any links, nodes, configurations and    *)
(* requests.                                                               *)
(***************************************************************************)
EXTENDS Gateway, TLAPS

\* What the MeDeHa thread has in hand.
InHand == gwPc = "inject" => requests >= 1 /\ (Running => gwFor \in Name)

\* A bundle without a name is made only before the router has one, and the
\* thread has one bundle at a time.
OneLate ==
  \/ lateBare = 0
  \/ lateBare = 1 /\ requests >= 1 /\ localEID = "set" /\ gwSource # "bare"

IInv == TypeOK /\ InHand /\ OneLate

------------------------------------------------------------------------------
(* Types *)

LEMMA Bounds ==
  /\ QueueBound \in Nat /\ MaxRequests \in Nat /\ MaxSockets \in Nat
  /\ PeerOf \in [LinkId -> EID] /\ NONE \notin Name /\ Self \notin EID
BY GatewayAssumption

\* The parts of TypeOK.
Places ==
  /\ mainPc \in {"setupSAX", "setupMulticast", "new Requester", "init",
                 "initialized", "loop", "named", "stopping"}
  /\ localEID \in {"empty", "half", "set"}
  /\ ended \in {"no", "no requester", "bad socket", "no nodes", "null entry",
                "unknown deleted", "no socket", "terminated"}

Lists ==
  /\ nodes \in [Name -> {"absent", "null", "node"}]
  /\ view \in [LinkId -> {"absent", "null", "new", "open", "closed"}]
  /\ forgotten \subseteq EID

Queues ==
  /\ events \in Seq(Event) /\ Len(events) <= QueueBound
  /\ msgQueue \subseteq EID \cup {NONE} /\ sockets \in 0 .. MaxSockets

Requests ==
  /\ gwPc \in {"none", "start", "check", "wait", "inject", "send", "done"}
  /\ gwFor \in Name \cup {NONE} /\ gwSource \in {"none", "bare", "named"}
  /\ idAvailability \in Directory!Answer
  /\ asked \subseteq Name /\ requests \in 0 .. MaxRequests
  /\ lateBare \in 0 .. MaxRequests
  /\ stopInterfaceThread \in BOOLEAN

Dtnd ==
  /\ dtndLink \in [LinkId -> {"none", "down", "open"}]
  /\ early \in BOOLEAN
  /\ unsent \subseteq LinkId /\ tooLate \subseteq LinkId

LEMMA Parts ==
  /\ TypeOK <=> conf \in Configured /\ Places /\ Lists /\ Queues /\ Requests /\ Dtnd
  /\ TypeOK' <=> conf' \in Configured /\ Places' /\ Lists' /\ Queues' /\ Requests' /\ Dtnd'
BY DEF TypeOK, Places, Lists, Queues, Requests, Dtnd

LEMMA Events ==
  /\ \A type \in LinkEvents \cup {"transmitted"}, l \in LinkId : <<type, l>> \in Event
  /\ \A type \in {"received", "injected"}, e \in Name : <<type, e>> \in Event
  /\ \A e \in EID : <<"vector", e>> \in Event
  /\ \A type \in {"hello", "shutdown", "data"} : <<type, NONE>> \in Event
BY DEF Event

LEMMA TellsType ==
  ASSUME Queues, NEW news \in Seq(Event), Tells(news), UNCHANGED <<msgQueue, sockets>>
  PROVE  Queues'
<1>1. events \o news \in Seq(Event) /\ Len(events \o news) = Len(events) + Len(news)
  BY DEF Queues
<1>2. events' \in Seq(Event)
  BY <1>1 DEF Tells, Queues
<1>3. Len(events') <= QueueBound
  BY <1>1 DEF Tells, Queues
<1> QED
  BY <1>2, <1>3 DEF Queues

LEMMA TakesType ==
  ASSUME Queues, NEW type, NEW subject, Takes(type, subject)
  PROVE  events' \in Seq(Event) /\ Len(events') <= QueueBound
<1>1. events \in Seq(Event) /\ events # <<>> /\ events' = Tail(events)
  BY DEF Queues, Takes
<1>2. /\ Tail(events) \in Seq(Event) /\ Len(Tail(events)) = Len(events) - 1
      /\ Len(events) \in Nat
  BY <1>1
<1>3. QueueBound \in Nat
  BY Bounds
<1> QED
  BY <1>1, <1>2, <1>3 DEF Queues

LEMMA InitParts == Init => IInv
<1> SUFFICES ASSUME Init PROVE IInv
  OBVIOUS
<1>1. Directory!Silent \in Directory!Answer
  BY DEF Directory!Silent, Directory!Answer
<1>2. Queues
  BY Bounds DEF Init, Queues
<1>3. Requests
  <2>1. 0 \in 0 .. MaxRequests
    BY Bounds
  <2> QED
    BY <1>1, <2>1 DEF Init, Requests
<1>4. Places /\ Lists /\ Dtnd /\ conf \in Configured
  BY DEF Init, Places, Lists, Dtnd
<1>5. InHand /\ OneLate
  BY DEF Init, InHand, OneLate
<1> QED
  BY <1>2, <1>3, <1>4, <1>5, Parts DEF IInv

\* What dtnd does.
LEMMA DtndType ==
  ASSUME TypeOK, DtndStep PROVE TypeOK'
<1> USE Parts
<1>1. ASSUME NEW news \in Seq(Event), Tells(news), DtndOnly, asked' \subseteq asked,
             Dtnd'
      PROVE  TypeOK'
  <2>1. Queues'
    BY <1>1, TellsType DEF DtndOnly
  <2>2. Requests'
    BY <1>1 DEF DtndOnly, Requests
  <2>3. Places' /\ Lists' /\ conf' \in Configured
    BY <1>1 DEF DtndOnly, Places, Lists, mainVars
  <2> QED
    BY <1>1, <2>1, <2>2, <2>3
<1>2. CASE DtndTraffic
  <2>1. PICK event \in Event : Tells(<<event>>)
    BY <1>2, Events DEF DtndTraffic
  <2>2. <<event>> \in Seq(Event) /\ Dtnd'
    BY <1>2 DEF DtndTraffic, dtndVars, Dtnd
  <2> QED
    BY <1>1, <1>2, <2>1, <2>2 DEF DtndTraffic
<1>3. ASSUME NEW e \in Name, DtndInject(e) PROVE TypeOK'
  <2>1. << <<"injected", e>> >> \in Seq(Event)
    BY Events
  <2>2. Dtnd' /\ asked' \subseteq asked
    BY <1>3 DEF DtndInject, dtndVars, Dtnd
  <2> QED
    BY <1>1, <1>3, <2>1, <2>2 DEF DtndInject
<1>4. ASSUME NEW l \in LinkId,
             DtndCreate(l) \/ DtndOpen(l) \/ DtndClose(l) \/ DtndDelete(l)
      PROVE  TypeOK'
  <2>1. /\ << <<"created", l>> >> \in Seq(Event) /\ << <<"opened", l>> >> \in Seq(Event)
        /\ << <<"closed", l>> >> \in Seq(Event) /\ << <<"deleted", l>> >> \in Seq(Event)
        /\ << <<"closed", l>>, <<"deleted", l>> >> \in Seq(Event)
    <3>1. \A type \in LinkEvents : <<type, l>> \in Event
      BY Events
    <3>2. {"created", "opened", "closed", "deleted"} = LinkEvents
      BY DEF LinkEvents
    <3> QED
      BY <3>1, <3>2
  <2>2. PICK status \in {"none", "down", "open"} :
          dtndLink' = [dtndLink EXCEPT ![l] = status]
    BY <1>4 DEF DtndCreate, DtndOpen, DtndClose, DtndDelete
  <2>3. early' \in BOOLEAN /\ unsent' \subseteq LinkId /\ tooLate' \subseteq LinkId
    BY <1>4 DEF DtndCreate, DtndOpen, DtndClose, DtndDelete, Stops, Dtnd
  <2>4. Dtnd'
    BY <2>2, <2>3 DEF Dtnd
  <2> QED
    BY <1>1, <1>4, <2>1, <2>4 DEF DtndCreate, DtndOpen, DtndClose, DtndDelete
<1>5. ASSUME NEW l \in LinkId, DtndTransmitted(l) PROVE TypeOK'
  <2>1. << <<"transmitted", l>> >> \in Seq(Event)
    BY Events
  <2>2. Dtnd'
    BY <1>5 DEF DtndTransmitted, Dtnd
  <2> QED
    BY <1>1, <1>5, <2>1, <2>2 DEF DtndTransmitted
<1> QED
  BY <1>2, <1>3, <1>4, <1>5 DEF DtndStep

\* What the main thread does.
LEMMA MainType ==
  ASSUME TypeOK, MainStep PROVE TypeOK'
<1> USE Parts
<1>1. CASE SetupSAX \/ StartUp
  <2>1. Places' /\ Lists' /\ Queues' /\ Dtnd' /\ conf' \in Configured
    BY <1>1 DEF SetupSAX, StartUp, MainGoes, Places, Lists, Queues, Dtnd, gwVars, dtndVars
  <2>2. Requests'
    BY <1>1 DEF SetupSAX, StartUp, MainGoes, Requests, gwVars
  <2> QED
    BY <2>1, <2>2
<1>2. CASE FirstMessage \/ SetRegistration
  <2>1. MainOnly /\ UNCHANGED <<nodes, view, events, forgotten, ended>>
    BY <1>2 DEF FirstMessage, SetRegistration
  <2>2. Places'
    BY <1>2 DEF FirstMessage, SetRegistration, Places
  <2> QED
    BY <2>1, <2>2 DEF MainOnly, Lists, Queues, Requests, Dtnd, gwVars, dtndVars
<1>3. ASSUME MainOnly, NEW type, NEW subject, Takes(type, subject), UNCHANGED mainPc,
             Lists', ended' \in {"no", "null entry", "unknown deleted"} \/ ended' = ended
      PROVE  TypeOK'
  <2>1. Queues'
    BY <1>3, TakesType DEF MainOnly, Queues
  <2>2. Places'
    BY <1>3 DEF Places, Takes
  <2> QED
    BY <1>3, <2>1, <2>2 DEF MainOnly, Requests, Dtnd, gwVars, dtndVars
<1>4. ASSUME NEW l \in LinkId, HandleLink(l) PROVE TypeOK'
  <2>1. PeerOf[l] \in EID /\ PeerOf[l] \in Name
    BY Bounds DEF Name
  <2>2. CASE HandleUnknown(l)
    <3>1. Lists'
      BY <2>2 DEF HandleUnknown, Lists
    <3> QED
      BY <1>3, <2>2, <3>1 DEF HandleUnknown
  <2>3. CASE HandleCreated(l)
    <3>1. Lists'
      BY <2>3 DEF HandleCreated, Lists
    <3> QED
      BY <1>3, <2>3, <3>1 DEF HandleCreated
  <2>4. CASE HandleOpened(l)
    <3>1. nodes' \in [Name -> {"absent", "null", "node"}]
      BY <2>1, <2>4 DEF HandleOpened, ConditionalAdd, Lists
    <3>2. Lists'
      BY <2>4, <3>1 DEF HandleOpened, Lists
    <3> QED
      BY <1>3, <2>4, <3>2 DEF HandleOpened
  <2>5. CASE HandleClosed(l)
    <3>1. Lists'
      BY <2>5 DEF HandleClosed, Lists
    <3> QED
      BY <1>3, <2>5, <3>1 DEF HandleClosed
  <2>6. CASE HandleDeleted(l)
    <3>1. /\ nodes' \in [Name -> {"absent", "null", "node"}]
          /\ forgotten' \subseteq EID
      BY <2>1, <2>6 DEF HandleDeleted, RemoveNode, Lists
    <3>2. Lists'
      BY <2>6, <3>1 DEF HandleDeleted, Lists
    <3> QED
      BY <1>3, <2>6, <3>2 DEF HandleDeleted
  <2>7. CASE HandleDeletedUnknown(l)
    <3>1. Lists'
      BY <2>7 DEF HandleDeletedUnknown, Lists
    <3> QED
      BY <1>3, <2>7, <3>1 DEF HandleDeletedUnknown
  <2>8. CASE HandleTransmitted(l)
    <3>1. Lists'
      BY <2>8 DEF HandleTransmitted, Lists
    <3> QED
      BY <1>3, <2>8, <3>1 DEF HandleTransmitted
  <2> QED
    BY <1>4, <2>2, <2>3, <2>4, <2>5, <2>6, <2>7, <2>8 DEF HandleLink
<1>5. ASSUME NEW e \in Name, HandleBundle(e) PROVE TypeOK'
  <2>1. Lists'
    BY <1>5 DEF HandleBundle, ConditionalAdd, Lists
  <2> QED
    BY <1>3, <1>5, <2>1 DEF HandleBundle
<1>6. ASSUME NEW e \in EID \cup {NONE}, HandleDelivery(e) PROVE TypeOK'
  <2>1. Queues'
    BY <1>6, TakesType DEF HandleDelivery, Queues
  <2>2. Places'
    BY <1>6 DEF HandleDelivery, Takes, Places
  <2> QED
    BY <1>6, <2>1, <2>2
       DEF HandleDelivery, Lists, Requests, Dtnd, gwVars, dtndVars
<1>7. CASE HandleHello
  <2>1. nodes' \in [Name -> {"absent", "null", "node"}]
    <3>1. \A e \in Name : FindNode(nodes, e) \in [Name -> {"absent", "null", "node"}]
      BY DEF FindNode, Lists
    <3> QED
      BY <1>7, <3>1 DEF HandleHello, Lists
  <2>2. Lists'
    BY <1>7, <2>1 DEF HandleHello, Lists
  <2>3. ended' = "null entry" \/ ended' = ended
    BY <1>7 DEF HandleHello
  <2> QED
    BY <1>3, <1>7, <2>2, <2>3 DEF HandleHello
<1>8. CASE HandleShutdown
  <2>1. Queues'
    BY <1>8, TakesType DEF HandleShutdown, Queues
  <2>2. stopInterfaceThread' \in BOOLEAN
    BY <1>8, GatewayAssumption DEF HandleShutdown, Requests
  <2>3. Requests'
    BY <1>8, <2>2 DEF HandleShutdown, Requests, gwVars
  <2>4. Places' /\ Lists' /\ Dtnd' /\ conf' \in Configured
    BY <1>8 DEF HandleShutdown, Takes, Places, Lists, Dtnd, dtndVars
  <2> QED
    BY <2>1, <2>3, <2>4
<1>9. CASE Exit
  <2>1. Places'
    BY <1>9 DEF Exit, Places, mainVars
  <2> QED
    BY <1>9, <2>1 DEF Exit, MainOnly, Lists, Queues, Requests, Dtnd, gwVars, dtndVars
<1> QED
  BY <1>1, <1>2, <1>4, <1>5, <1>6, <1>7, <1>8, <1>9 DEF MainStep

\* What the PeerListener does.
LEMMA PeerType ==
  ASSUME TypeOK, PeerStep PROVE TypeOK'
<1> USE Parts
<1>1. Requests' /\ Dtnd' /\ conf' \in Configured
  BY DEF PeerStep, PeerHandOn, PeerLookup, PeerOnly, Requests, Dtnd, gwVars, dtndVars
<1>2. ASSUME NEW e \in EID, PeerLookup(e) PROVE TypeOK'
  <2>1. Lists'
    BY <1>2 DEF PeerLookup, PeerOnly, FindNode, Lists
  <2>2. Queues' /\ Places'
    BY <1>2 DEF PeerLookup, PeerOnly, Queues, Places, mainVars
  <2> QED
    BY <1>1, <2>1, <2>2
<1>3. CASE PeerHandOn
  <2>1. Lists' /\ Places'
    BY <1>3 DEF PeerHandOn, PeerOnly, Lists, Places, mainVars
  <2>2. sockets' \in 0 .. MaxSockets
    <3>1. sockets \in 0 .. MaxSockets /\ MaxSockets \in Nat
      BY Bounds DEF Queues
    <3>2. \/ sockets' = sockets
          \/ sockets # MaxSockets /\ sockets' = sockets + 1
      BY <1>3 DEF PeerHandOn
    <3> QED
      BY <3>1, <3>2
  <2>3. Queues'
    BY <1>3, <2>2 DEF PeerHandOn, PeerOnly, Queues
  <2> QED
    BY <1>1, <2>1, <2>3
<1> QED
  BY <1>2, <1>3 DEF PeerStep

\* What the MeDeHa thread does: with OneLate, lateBare stays below the bound of
\* the requests.
GwOnly == UNCHANGED <<conf, mainVars, view, events, msgQueue, sockets,
                      stopInterfaceThread, dtndVars, forgotten>>

LEMMA GwType ==
  ASSUME IInv, GwStep PROVE TypeOK'
<1>1. /\ Places /\ Lists /\ Queues /\ Requests /\ Dtnd /\ conf \in Configured
      /\ InHand /\ OneLate /\ Running
  BY Parts DEF IInv, GwStep, GwBind, GwCheck, GwSend, GwList, GwFindNothing,
               GwInject, GwFind, GwGoes
<1>2. GwOnly /\ Dtnd' /\ conf' \in Configured
  BY <1>1 DEF GwStep, GwBind, GwCheck, GwSend, GwList, GwFindNothing, GwInject,
              GwFind, GwGoes, GwOnly, Dtnd, dtndVars
<1>3. Queues'
  BY <1>1, <1>2 DEF GwOnly, Queues
<1>4. Places'
  <2>1. ended' \in {ended, "no", "no requester", "bad socket", "no nodes"}
    BY DEF GwStep, GwBind, GwCheck, GwSend, GwList, GwFindNothing, GwInject, GwFind
  <2> QED
    BY <1>1, <1>2, <2>1 DEF GwOnly, Places, mainVars
<1>5. Lists'
  <2>1. nodes' = nodes \/ \E e \in Name : nodes' = FindNode(nodes, e)
    BY DEF GwStep, GwBind, GwCheck, GwSend, GwList, GwFindNothing, GwInject, GwFind
  <2> QED
    BY <1>1, <1>2, <2>1 DEF GwOnly, FindNode, Lists
<1>6. ASSUME gwPc' \in {"check", "wait", "inject", "done"},
             gwFor' \in Name \cup {NONE}, gwSource' \in {"none", "bare", "named"},
             idAvailability' \in Directory!Answer, asked' \subseteq Name,
             requests' \in 0 .. MaxRequests, lateBare' \in 0 .. MaxRequests
      PROVE  Requests'
  BY <1>1, <1>2, <1>6 DEF GwOnly, Requests
<1>7. ASSUME GwBind PROVE Requests'
  BY <1>1, <1>6, <1>7 DEF GwBind, GwGoes, Requests
<1>8. ASSUME GwCheck PROVE Requests'
  <2>1. Directory!Silent \in Directory!Answer
    BY DEF Directory!Silent, Directory!Answer
  <2>2. gwPc' \in {"done", "wait"}
    BY <1>8 DEF GwCheck, GwGoes
  <2> QED
    BY <1>1, <1>6, <1>8, <2>1, <2>2 DEF GwCheck, Requests
<1>9. ASSUME GwSend PROVE Requests'
  <2>1. gwPc = "inject" /\ gwPc' = "check" /\ requests' = requests
    BY <1>9 DEF GwSend, GwGoes
  <2>2. gwFor \in Name /\ requests >= 1
    BY <1>1, <2>1 DEF InHand
  <2>3. asked' \subseteq Name
    BY <1>1, <1>9, <2>2 DEF GwSend, DtndTakes, Requests
  <2>4. requests \in 0 .. MaxRequests /\ MaxRequests \in Nat
    BY <1>1, Bounds DEF Requests
  <2>5. lateBare' \in {0, 1}
    <3>1. CASE lateBare' = lateBare
      BY <1>1, <3>1 DEF OneLate
    <3>2. CASE lateBare' # lateBare
      <4>1. gwSource = "bare" /\ lateBare' = lateBare + 1
        BY <1>9, <3>2 DEF GwSend
      <4> QED
        BY <1>1, <4>1 DEF OneLate
    <3> QED
      BY <3>1, <3>2
  <2>6. lateBare' \in 0 .. MaxRequests
    BY <2>2, <2>4, <2>5
  <2> QED
    BY <1>1, <1>6, <1>9, <2>1, <2>3, <2>6 DEF GwSend, Requests
<1>10. ASSUME Request PROVE requests' \in 0 .. MaxRequests
  <2>1. requests \in 0 .. MaxRequests /\ MaxRequests \in Nat
    BY <1>1, Bounds DEF Requests
  <2> QED
    BY <1>10, <2>1 DEF Request
<1>11. ASSUME NEW e \in Name, GwInject(e) PROVE Requests'
  <2>1. gwSource' \in {"none", "bare", "named"}
    BY <1>1, <1>11 DEF GwInject, SourceNow, Places, Requests
  <2> QED
    BY <1>1, <1>6, <1>10, <1>11, <2>1 DEF GwInject, GwGoes, Requests
<1>12. ASSUME Request, NEW reply \in Directory!Answer, Answered(reply), gwPc' = "check"
       PROVE  Requests'
  BY <1>1, <1>6, <1>10, <1>12 DEF Answered, Requests
<1>13. ASSUME GwList PROVE Requests'
  <2>1. [list |-> Listed] \in Directory!Answer
    BY DEF Listed, Directory!Answer
  <2>2. idAvailability \in Directory!Answer
    BY <1>1 DEF Requests
  <2> QED
    BY <1>12, <1>13, <2>1, <2>2 DEF GwList, GwGoes
<1>14. ASSUME NEW e \in Name, GwFind(e) PROVE Requests'
  <2>1. \A yes \in BOOLEAN : [node |-> e, yes |-> yes] \in Directory!Answer
    BY DEF Directory!Answer
  <2>2. PICK yes \in BOOLEAN : Answered([node |-> e, yes |-> yes])
    BY <1>14 DEF GwFind
  <2> QED
    BY <1>12, <1>14, <2>1, <2>2 DEF GwFind, GwGoes
<1>15. ASSUME GwFindNothing PROVE Requests'
  <2>1. \A yes \in BOOLEAN : [node |-> NONE, yes |-> yes] \in Directory!Answer
    BY DEF Directory!Answer
  <2>2. PICK yes \in BOOLEAN : Answered([node |-> NONE, yes |-> yes])
    BY <1>15 DEF GwFindNothing
  <2> QED
    BY <1>12, <1>15, <2>1, <2>2 DEF GwFindNothing, GwGoes
<1>16. Requests'
  BY <1>7, <1>8, <1>9, <1>11, <1>13, <1>14, <1>15 DEF GwStep
<1> QED
  BY <1>2, <1>3, <1>4, <1>5, <1>16, Parts

------------------------------------------------------------------------------
(* The bundle in hand *)

LEMMA InHandStep == IInv /\ [Next]_vars => InHand'
<1> SUFFICES ASSUME IInv, [Next]_vars, gwPc' = "inject"
    PROVE requests' >= 1 /\ (Running' => gwFor' \in Name)
  BY DEF InHand
<1>1. InHand /\ requests \in Nat
  <2>1. requests \in 0 .. MaxRequests
    BY DEF IInv, TypeOK
  <2> QED
    BY <2>1, Bounds DEF IInv
<1>2. CASE UNCHANGED <<gwPc, requests, gwFor>> /\ (Running' => Running)
  BY <1>1, <1>2 DEF InHand
<1>3. CASE MainStep
  <2>1. UNCHANGED <<gwPc, requests, gwFor>> \/ SetupSAX
    BY <1>3 DEF MainStep, StartUp, FirstMessage, SetRegistration, HandleLink,
       HandleUnknown, HandleTransmitted, HandleCreated, HandleOpened, HandleClosed,
       HandleDeleted,
       HandleDeletedUnknown, HandleBundle, HandleDelivery, HandleHello,
       HandleShutdown, Exit, MainOnly, gwVars
  <2>2. ~SetupSAX
    BY DEF SetupSAX
  <2>3. Running
    BY <1>3 DEF MainStep, StartUp, FirstMessage, SetRegistration, HandleLink,
       HandleUnknown, HandleTransmitted, HandleCreated, HandleOpened, HandleClosed,
       HandleDeleted,
       HandleDeletedUnknown, HandleBundle, HandleDelivery, HandleHello,
       HandleShutdown, Exit, MainGoes, SetupSAX, Takes
  <2> QED
    BY <1>2, <2>1, <2>2, <2>3
<1>4. CASE PeerStep
  BY <1>2, <1>4 DEF PeerStep, PeerLookup, PeerHandOn, PeerOnly, gwVars
<1>5. CASE DtndStep
  BY <1>2, <1>5 DEF DtndStep, DtndTraffic, DtndInject, DtndCreate, DtndOpen,
     DtndClose, DtndDelete, DtndTransmitted, DtndOnly, Tells
<1>6. CASE GwStep
  <2>1. PICK e \in Name : GwInject(e)
    BY <1>6 DEF GwStep, GwBind, GwCheck, GwSend, GwList, GwFindNothing, GwFind,
                GwGoes
  <2>2. requests' >= 1
    <3>1. requests' = requests + 1
      BY <2>1 DEF GwInject, Request
    <3> QED
      BY <1>1, <3>1
  <2>3. Running' => gwFor' \in Name
    BY <2>1 DEF GwInject, Running
  <2> QED
    BY <2>2, <2>3
<1>7. CASE UNCHANGED vars
  BY <1>2, <1>7 DEF vars, gwVars, Running
<1> QED
  BY <1>3, <1>4, <1>5, <1>6, <1>7 DEF Next

LEMMA OneLateStep == IInv /\ [Next]_vars => OneLate'
<1> SUFFICES ASSUME IInv, [Next]_vars PROVE OneLate'
  OBVIOUS
<1>1. /\ OneLate /\ InHand /\ requests \in Nat
      /\ localEID \in {"empty", "half", "set"}
  <2>1. requests \in 0 .. MaxRequests /\ MaxRequests \in Nat
    BY Bounds DEF IInv, TypeOK
  <2>2. requests \in Nat
    BY <2>1
  <2> QED
    BY <2>2 DEF IInv, TypeOK
<1>2. CASE /\ UNCHANGED <<lateBare, requests, gwSource>>
           /\ localEID = "set" => localEID' = "set"
  BY <1>1, <1>2 DEF OneLate
<1>3. CASE MainStep
  <2>1. UNCHANGED <<lateBare, requests, gwSource>>
    BY <1>3 DEF MainStep, SetupSAX, StartUp, FirstMessage, SetRegistration, HandleLink,
       HandleUnknown, HandleTransmitted, HandleCreated, HandleOpened, HandleClosed,
       HandleDeleted,
       HandleDeletedUnknown, HandleBundle, HandleDelivery, HandleHello,
       HandleShutdown, Exit, MainOnly, gwVars
  <2>2. localEID = "set" => localEID' = "set"
    BY <1>3 DEF MainStep, SetupSAX, StartUp, FirstMessage, SetRegistration, HandleLink,
       HandleUnknown, HandleTransmitted, HandleCreated, HandleOpened, HandleClosed,
       HandleDeleted,
       HandleDeletedUnknown, HandleBundle, HandleDelivery, HandleHello,
       HandleShutdown, Exit, MainGoes, Takes, mainVars
  <2> QED
    BY <1>2, <2>1, <2>2
<1>4. CASE PeerStep
  BY <1>2, <1>4 DEF PeerStep, PeerLookup, PeerHandOn, PeerOnly, gwVars, mainVars
<1>5. CASE DtndStep
  BY <1>2, <1>5 DEF DtndStep, DtndTraffic, DtndInject, DtndCreate, DtndOpen,
     DtndClose, DtndDelete, DtndTransmitted, DtndOnly, mainVars
<1>6. CASE UNCHANGED vars
  BY <1>2, <1>6 DEF vars, gwVars, mainVars
<1>7. ASSUME GwStep PROVE localEID' = localEID
  BY <1>7 DEF GwStep, GwBind, GwCheck, GwSend, GwList, GwFindNothing, GwInject,
              GwFind, GwGoes, mainVars
<1>8. CASE GwBind \/ GwCheck
  BY <1>2, <1>7, <1>8 DEF GwStep, GwBind, GwCheck
<1>9. CASE GwSend
  <2>1. localEID' = localEID
    BY <1>7, <1>9 DEF GwStep
  <2>2. gwSource' = "none" /\ requests' = requests /\ gwPc = "inject"
    BY <1>9 DEF GwSend, GwGoes
  <2>3. requests >= 1
    BY <1>1, <2>2 DEF InHand
  <2>4. CASE lateBare' = lateBare
    BY <1>1, <2>1, <2>2, <2>4 DEF OneLate
  <2>5. CASE lateBare' # lateBare
    <3>1. gwSource = "bare" /\ localEID = "set" /\ lateBare' = lateBare + 1
      BY <1>9, <2>5 DEF GwSend
    <3>2. lateBare = 0
      BY <1>1, <3>1 DEF OneLate
    <3> QED
      BY <2>1, <2>2, <2>3, <3>1, <3>2 DEF OneLate
  <2> QED
    BY <2>4, <2>5
<1>10. ASSUME Request, UNCHANGED <<lateBare, localEID>>,
              localEID = "set" => gwSource' \in {gwSource, "named"}
       PROVE  OneLate'
  <2>1. requests' = requests + 1
    BY <1>10 DEF Request
  <2> QED
    BY <1>1, <1>10, <2>1 DEF OneLate
<1>11. CASE GwList \/ GwFindNothing \/ \E e \in Name : GwFind(e)
  <2>1. GwStep /\ Request /\ UNCHANGED <<lateBare, gwSource>>
    BY <1>11 DEF GwStep, GwList, GwFindNothing, GwFind, Answered
  <2> QED
    BY <1>7, <1>10, <2>1
<1>12. ASSUME NEW e \in Name, GwInject(e) PROVE OneLate'
  <2>1. localEID = "set" => gwSource' \in {gwSource, "named"}
    BY <1>12 DEF GwInject, SourceNow
  <2>2. GwStep /\ Request /\ UNCHANGED lateBare
    BY <1>12 DEF GwStep, GwInject
  <2> QED
    BY <1>7, <1>10, <2>1, <2>2
<1>13. CASE GwStep
  BY <1>8, <1>9, <1>11, <1>12, <1>13 DEF GwStep
<1> QED
  BY <1>3, <1>4, <1>5, <1>6, <1>13 DEF Next

------------------------------------------------------------------------------
(* The theorems *)

THEOREM Invariance == Spec => []IInv
<1>1. IInv /\ [Next]_vars => IInv'
  <2> SUFFICES ASSUME IInv, [Next]_vars PROVE IInv'
    OBVIOUS
  <2>1. CASE UNCHANGED vars
    <3>1. TypeOK'
      <4>1. Places /\ Lists /\ Queues /\ Requests /\ Dtnd /\ conf \in Configured
        BY Parts DEF IInv
      <4>2. Places' /\ Lists' /\ Queues' /\ Dtnd' /\ conf' \in Configured
        BY <2>1, <4>1 DEF vars, mainVars, dtndVars, Places, Lists, Queues, Dtnd
      <4>3. Requests'
        BY <2>1, <4>1 DEF vars, gwVars, Requests
      <4> QED
        BY <4>2, <4>3, Parts
    <3> QED
      BY <3>1, InHandStep, OneLateStep DEF IInv
  <2>2. CASE Next
    <3>1. TypeOK'
      BY <2>2, MainType, GwType, DtndType, PeerType DEF IInv, Next
    <3> QED
      BY <3>1, InHandStep, OneLateStep DEF IInv
  <2> QED
    BY <2>1, <2>2
<1> QED
  BY InitParts, <1>1, PTL DEF Spec

\* Every variable keeps its type, whatever the gateway asks for and whenever:
\* the bounds on what is under way included.
THEOREM TypeCorrect == Spec => []TypeOK
<1>1. IInv => TypeOK
  BY DEF IInv
<1> QED
  BY Invariance, <1>1, PTL

\* The MeDeHa thread reads hbsdRegistration for each injection (processData),
\* so only the bundle it has in hand when firstMessage sets the name goes to
\* dtnd without one.
THEOREM RefusedOnce == Spec => []RefusedOnceNamed
<1>1. IInv => RefusedOnceNamed
  BY DEF IInv, OneLate, RefusedOnceNamed
<1> QED
  BY Invariance, <1>1, PTL
------------------------------------------------------------------------------
(* The list of nodes is a directory *)

Members == {e \in Name : nodes[e] = "node"}

LEMMA LookupAdds ==
  ASSUME TypeOK, NEW e \in Name
  PROVE  \A n \in Name : FindNode(nodes, e)[n] = "node" <=> nodes[n] = "node"
<1>1. nodes \in [Name -> {"absent", "null", "node"}]
  BY DEF TypeOK
<1> QED
  BY <1>1 DEF FindNode

LEMMA AddLearns ==
  ASSUME TypeOK, NEW e \in Name, e = Self => localEID # "empty",
         nodes' = ConditionalAdd(nodes, e), UNCHANGED idAvailability
  PROVE  \/ Directory!Learn(e)
         \/ Members' = Members /\ UNCHANGED idAvailability
<1>1. nodes \in [Name -> {"absent", "null", "node"}]
  BY DEF TypeOK
<1>2. CASE e = Self
  BY <1>2 DEF ConditionalAdd, Members
<1>3. CASE e # Self
  <2>1. nodes' = [nodes EXCEPT ![e] = "node"]
    BY <1>3 DEF ConditionalAdd
  <2>2. Members' = Members \cup {e}
    BY <1>1, <2>1 DEF Members
  <2> QED
    BY <1>3, <2>2 DEF Directory!Learn, Members
<1> QED
  BY <1>2, <1>3

\* No thread makes the gateway's directory lie: null entries that lookups of the
\* PeerListener and of FIND leave are nobody's node, and a router never lists
\* itself as one.
THEOREM Refinement == Spec => DirectorySpec
<1> DEFINE Same == Members' = Members /\ UNCHANGED idAvailability
<1>1. Init => Directory!Init
  BY DEF Init, Directory!Init
<1>2. ASSUME TypeOK, [Next]_vars PROVE Directory!Next \/ Same
  <2>1. /\ nodes \in [Name -> {"absent", "null", "node"}]
        /\ PeerOf \in [LinkId -> EID] /\ Self \notin EID
    BY <1>2, Bounds DEF TypeOK
  <2>2. ASSUME UNCHANGED <<nodes, idAvailability>> PROVE Same
    BY <2>2 DEF Members
  <2>3. ASSUME NEW l \in LinkId, HandleLink(l) PROVE Directory!Next \/ Same
    <3>1. PeerOf[l] \in Name /\ PeerOf[l] # Self
      BY <2>1 DEF Name
    <3>2. CASE HandleOpened(l)
      <4>1. UNCHANGED idAvailability /\ nodes' = ConditionalAdd(nodes, PeerOf[l])
        BY <3>2 DEF HandleOpened, MainOnly, gwVars
      <4>2. Directory!Learn(PeerOf[l]) \/ Same
        BY <1>2, <3>1, <4>1, AddLearns
      <4> QED
        BY <3>1, <4>2 DEF Directory!Next
    <3>3. CASE HandleDeleted(l)
      <4>1. /\ UNCHANGED idAvailability
            /\ nodes' = nodes \/ nodes' = RemoveNode(nodes, PeerOf[l])
        BY <3>3 DEF HandleDeleted, MainOnly, gwVars
      <4>2. CASE nodes' = RemoveNode(nodes, PeerOf[l])
        <5>1. Members' = Members \ {PeerOf[l]}
          BY <2>1, <4>2 DEF RemoveNode, Members
        <5>2. Directory!Forget(PeerOf[l])
          BY <4>1, <5>1 DEF Directory!Forget, Members
        <5> QED
          BY <3>1, <5>2 DEF Directory!Next
      <4> QED
        BY <2>2, <4>1, <4>2
    <3>4. CASE \/ HandleUnknown(l) \/ HandleCreated(l) \/ HandleClosed(l)
               \/ HandleTransmitted(l) \/ HandleDeletedUnknown(l)
      BY <2>2, <3>4 DEF HandleUnknown, HandleTransmitted, HandleCreated, HandleClosed,
         HandleDeletedUnknown, MainOnly, gwVars
    <3> QED
      BY <2>3, <3>2, <3>3, <3>4 DEF HandleLink
  <2>4. ASSUME NEW e \in Name, HandleBundle(e) PROVE Directory!Next \/ Same
    <3>1. /\ nodes' = ConditionalAdd(nodes, e) /\ UNCHANGED idAvailability
          /\ localEID = "set"
      BY <2>4 DEF HandleBundle, MainOnly, gwVars, Takes, Named
    <3>2. Directory!Learn(e) \/ Same
      BY <1>2, <3>1, AddLearns
    <3> QED
      BY <3>2 DEF Directory!Next
  <2>5. ASSUME HandleHello PROVE Same
    <3>1. \A e \in Name : nodes'[e] = nodes[e] \/ nodes'[e] = FindNode(nodes, e)[e]
      BY <2>5 DEF HandleHello
    <3>2. \A e \in Name : nodes'[e] = "node" <=> nodes[e] = "node"
      BY <1>2, <3>1, LookupAdds
    <3> QED
      BY <2>5, <3>2 DEF HandleHello, MainOnly, gwVars, Members
  <2>6. ASSUME MainStep, ~HandleHello, \A l \in LinkId : ~HandleLink(l),
               \A e \in Name : ~HandleBundle(e)
        PROVE  Same
    BY <2>2, <2>6 DEF MainStep, SetupSAX, StartUp, MainGoes, FirstMessage,
       SetRegistration, HandleDelivery, HandleShutdown, Exit, MainOnly, gwVars
  <2>7. ASSUME NEW e \in Name, nodes' = FindNode(nodes, e) PROVE Members' = Members
    BY <1>2, <2>7, LookupAdds DEF Members
  <2>8. ASSUME PeerStep PROVE Same
    <3>1. UNCHANGED idAvailability
      BY <2>8 DEF PeerStep, PeerHandOn, PeerLookup, PeerOnly, gwVars
    <3>2. nodes' = nodes \/ \E e \in Name : nodes' = FindNode(nodes, e)
      BY <2>8 DEF PeerStep, PeerHandOn, PeerLookup, Name
    <3> QED
      BY <2>2, <2>7, <3>1, <3>2
  <2>9. ASSUME DtndStep \/ UNCHANGED vars PROVE Same
    BY <2>2, <2>9 DEF DtndStep, DtndTraffic, DtndInject, DtndCreate, DtndOpen,
       DtndClose, DtndDelete, DtndTransmitted, DtndOnly, vars, gwVars
  <2>10. CASE GwStep
    <3>1. CASE GwBind \/ GwSend \/ \E e \in Name : GwInject(e)
      BY <2>2, <3>1 DEF GwBind, GwSend, GwInject
    <3>2. CASE GwCheck
      <4>1. Directory!Send
        BY <3>2 DEF GwCheck, Directory!Send
      <4> QED
        BY <4>1 DEF Directory!Next
    <3>3. CASE GwList
      <4>1. CASE Answered(idAvailability)
        BY <2>2, <3>3, <4>1 DEF GwList, Answered
      <4>2. CASE Answered([list |-> Listed])
        <5>1. Listed \in SUBSET Name /\ Members \subseteq Listed
          BY DEF Listed, Members
        <5>2. Directory!AnswerList
          BY <3>3, <4>2, <5>1 DEF GwList, Answered, Directory!AnswerList, Members
        <5> QED
          BY <5>2 DEF Directory!Next
      <4> QED
        BY <3>3, <4>1, <4>2 DEF GwList
    <3>4. ASSUME NEW e \in Name, GwFind(e) PROVE Directory!Next
      <4>1. PICK yes \in BOOLEAN : /\ Answered([node |-> e, yes |-> yes])
                                   /\ yes => e \in Members
        BY <3>4 DEF GwFind, Members
      <4>2. Members' = Members
        BY <2>7, <3>4 DEF GwFind, Members
      <4>3. Directory!AnswerFind(e, yes)
        BY <4>1, <4>2 DEF Answered, Directory!AnswerFind, Members
      <4> QED
        BY <4>3 DEF Directory!Next
    <3>5. CASE GwFindNothing
      <4>1. Directory!AnswerNothing
        BY <3>5 DEF GwFindNothing, Answered, Directory!AnswerNothing
      <4> QED
        BY <4>1 DEF Directory!Next
    <3> QED
      BY <2>10, <3>1, <3>2, <3>3, <3>4, <3>5 DEF GwStep
  <2> QED
    BY <1>2, <2>3, <2>4, <2>5, <2>6, <2>8, <2>9, <2>10 DEF Next
<1>3. ASSUME TypeOK, [Next]_vars PROVE [Directory!Next]_(Directory!vars)
  BY <1>2, <1>3 DEF Directory!vars, Members
<1> QED
  BY <1>1, <1>3, TypeCorrect, PTL DEF Spec, DirectorySpec, Directory!Spec

------------------------------------------------------------------------------
(* What a router knows of dtnd's links: what it saw so far and the datagrams *)
(* that wait, in their order, are what dtnd did since the router listens     *)

INSTANCE Datagrams

KnownViews == {"new", "open", "closed"}

\* What dtnd says of a link that it has.
Lives == {"created", "opened", "closed"}

\* v is the router's view of the link l after the datagrams before s, d is what
\* dtnd has.  A datagram about l comes after l's creation and before its end; so
\* does a transmission, unless l is one of those that dtnd told of too late.
InOrder(s, l, v, d, late) ==
  /\ Preceded(s, l, v, LinkEvents \ {"created"}, Lives, KnownViews)
  /\ d # "none" => After(s, l, v, Len(s), Lives, KnownViews)
  /\ l \notin late =>
       v # "null" /\ Preceded(s, l, v, {"transmitted"}, Lives, KnownViews)

\* The last that dtnd told of the link is that it opened, or it is open here.
SaidOpen(s, l, v) ==
  After(s, l, v, Len(s), {"opened"}, {"absent", "null", "open"})

LEMMA StartInOrder ==
  ASSUME NEW l, NEW late
  PROVE  InOrder(<<>>, l, "absent", "none", late) /\ SaidOpen(<<>>, l, "absent")
BY NothingSaid DEF InOrder, SaidOpen

LEMMA PushInOrder ==
  ASSUME NEW s \in Seq(Event), NEW e \in Event, NEW l, NEW v, NEW d, NEW d2,
         NEW late, NEW late2, InOrder(s, l, v, d, late), late \subseteq late2,
         e[2] = l /\ e[1] \in LinkEvents
           => (e[1] # "created" => d # "none") /\ (e[1] = "deleted" => d2 = "none"),
         ~(e[2] = l /\ e[1] \in LinkEvents) => d2 = d,
         e[2] = l /\ e[1] = "transmitted" => d # "none" \/ l \in late2
  PROVE  InOrder(Append(s, e), l, v, d2, late2)
<1>1. Preceded(Append(s, e), l, v, LinkEvents \ {"created"}, Lives, KnownViews)
  BY AppendPreceded DEF InOrder
<1>2. ASSUME d2 # "none"
      PROVE  After(Append(s, e), l, v, Len(Append(s, e)), Lives, KnownViews)
  <2>1. CASE e[2] = l /\ e[1] \in LinkEvents
    <3>1. e[1] \in Lives
      BY <1>2, <2>1 DEF LinkEvents, Lives
    <3> QED
      BY <2>1, <3>1, AppendLast
  <2>2. CASE ~(e[2] = l /\ e[1] \in LinkEvents)
    <3>1. After(s, l, v, Len(s), Lives, KnownViews)
      BY <1>2, <2>2 DEF InOrder
    <3> QED
      BY <2>2, <3>1, AppendLast
  <2> QED
    BY <2>1, <2>2
<1>3. ASSUME l \notin late2
      PROVE  v # "null" /\ Preceded(Append(s, e), l, v, {"transmitted"}, Lives, KnownViews)
  <2>1. v # "null" /\ Preceded(s, l, v, {"transmitted"}, Lives, KnownViews)
    BY <1>3 DEF InOrder
  <2>2. e[2] = l /\ e[1] \in {"transmitted"}
          => After(s, l, v, Len(s), Lives, KnownViews)
    BY <1>3 DEF InOrder
  <2> QED
    BY <2>1, <2>2, AppendPreceded
<1> QED
  BY <1>1, <1>2, <1>3 DEF InOrder

LEMMA PopInOrder ==
  ASSUME NEW s \in Seq(Event), s # <<>>, NEW l, NEW v, NEW w, NEW d,
         NEW late, InOrder(s, l, v, d, late), l \notin late => w # "null",
         About(s, l, 1) /\ s[1][1] \in Lives => w \in KnownViews,
         ~About(s, l, 1) /\ v \in KnownViews => w \in KnownViews
  PROVE  InOrder(Tail(s), l, w, d, late)
BY TailPreceded, TailLast DEF InOrder

LEMMA PushOpen ==
  ASSUME NEW s \in Seq(Event), NEW e \in Event, NEW l, NEW v,
         IF e[2] = l /\ e[1] \in LinkEvents THEN e[1] = "opened"
         ELSE SaidOpen(s, l, v)
  PROVE  SaidOpen(Append(s, e), l, v)
BY AppendLast DEF SaidOpen

LEMMA PopOpen ==
  ASSUME NEW s \in Seq(Event), s # <<>>, NEW l, NEW v, NEW w, SaidOpen(s, l, v),
         About(s, l, 1) /\ s[1][1] = "opened" => w \in {"absent", "null", "open"},
         ~About(s, l, 1) /\ v \in {"absent", "null", "open"}
           => w \in {"absent", "null", "open"}
  PROVE  SaidOpen(Tail(s), l, w)
BY TailLast DEF SaidOpen

------------------------------------------------------------------------------
(* The invariant *)

\* A router that does not listen yet has heard of nothing.
Quiet ==
  ~Listening =>
    /\ events = <<>> /\ \A l \in LinkId : view[l] = "absent"
    /\ ~early => \A l \in LinkId : dtndLink[l] = "none"

\* The router has no name before it handles datagrams.
Unnamed ==
  mainPc \in {"setupSAX", "setupMulticast", "new Requester", "init", "initialized"}
    => localEID = "empty"

ToldOf ==
  ~early => \A l \in LinkId : InOrder(events, l, view[l], dtndLink[l], tooLate)

OpenSaid == \A l \in LinkId : dtndLink[l] = "open" => SaidOpen(events, l, view[l])

PeerKnown ==
  \A l \in LinkId :
    view[l] = "open" => nodes[PeerOf[l]] = "node" \/ PeerOf[l] \in forgotten

LinkInv ==
  Quiet /\ Unnamed /\ ToldOf /\ OpenSaid /\ PeerKnown /\ EndsForCause

\* A process that has ended does nothing.
LEMMA Over == ~Running /\ [Next]_vars => UNCHANGED vars
<1> SUFFICES ASSUME Next PROVE Running
  OBVIOUS
<1>1. CASE MainStep
  BY <1>1 DEF MainStep, StartUp, FirstMessage, SetRegistration, HandleLink,
     HandleUnknown, HandleTransmitted, HandleCreated, HandleOpened, HandleClosed,
       HandleDeleted,
     HandleDeletedUnknown, HandleBundle, HandleDelivery, HandleHello,
     HandleShutdown, Exit, MainGoes, SetupSAX, Takes
<1>2. CASE GwStep
  BY <1>2 DEF GwStep, GwBind, GwCheck, GwSend, GwList, GwFindNothing, GwInject,
     GwFind, GwGoes
<1>3. CASE DtndStep
  BY <1>3 DEF DtndStep, DtndTraffic, DtndInject, DtndCreate, DtndOpen,
     DtndClose, DtndDelete, DtndTransmitted, Tells
<1>4. CASE PeerStep
  BY <1>4 DEF PeerStep, PeerLookup, PeerHandOn
<1> QED
  BY <1>1, <1>2, <1>3, <1>4 DEF Next

LEMMA LinkStart == Init => LinkInv
<1> SUFFICES ASSUME Init PROVE LinkInv
  OBVIOUS
<1>1. /\ events = <<>> /\ mainPc = "setupSAX" /\ localEID = "empty" /\ ended = "no"
      /\ \A l \in LinkId : view[l] = "absent" /\ dtndLink[l] = "none"
  BY DEF Init
<1>2. Quiet /\ Unnamed /\ PeerKnown /\ EndsForCause
  BY <1>1 DEF Quiet, Unnamed, PeerKnown, EndsForCause
<1>3. ToldOf /\ OpenSaid
  BY <1>1, StartInOrder DEF ToldOf, OpenSaid
<1> QED
  BY <1>2, <1>3 DEF LinkInv

\* Steps that leave the links alone.
LEMMA LinksSame ==
  ASSUME Quiet, ToldOf, OpenSaid, UNCHANGED <<events, view, dtndLink, early, tooLate>>,
         Listening => Listening'
  PROVE  Quiet' /\ ToldOf' /\ OpenSaid'
<1>1. Quiet'
  BY DEF Quiet
<1>2. ToldOf' /\ OpenSaid'
  BY DEF ToldOf, OpenSaid
<1> QED
  BY <1>1, <1>2

\* What dtnd does to a link l, with one datagram about it.
LEMMA Pushed ==
  ASSUME TypeOK, NEW e \in Event, events' = Append(events, e), UNCHANGED view,
         ToldOf, OpenSaid, early' = early, tooLate \subseteq tooLate',
         \A l \in LinkId :
           e[2] = l /\ e[1] = "transmitted" => dtndLink[l] # "none" \/ l \in tooLate',
         \A l \in LinkId :
           IF e[2] = l /\ e[1] \in LinkEvents
             THEN /\ e[1] # "created" => dtndLink[l] # "none"
                  /\ e[1] = "deleted" => dtndLink'[l] = "none"
                  /\ dtndLink'[l] = "open" => e[1] = "opened"
             ELSE dtndLink'[l] = dtndLink[l]
  PROVE  ToldOf' /\ OpenSaid'
<1>1. events \in Seq(Event)
  BY DEF TypeOK
<1>2. ASSUME NEW l \in LinkId, ~early
      PROVE  InOrder(events', l, view[l], dtndLink'[l], tooLate')
  <2>1. InOrder(events, l, view[l], dtndLink[l], tooLate)
    BY <1>2 DEF ToldOf
  <2>2. InOrder(Append(events, e), l, view[l], dtndLink'[l], tooLate')
    BY <1>1, <2>1, PushInOrder
  <2> QED
    BY <2>2
<1>3. ASSUME NEW l \in LinkId, dtndLink'[l] = "open"
      PROVE  SaidOpen(events', l, view[l])
  <2>1. IF e[2] = l /\ e[1] \in LinkEvents THEN e[1] = "opened"
        ELSE SaidOpen(events, l, view[l])
    BY <1>3 DEF OpenSaid
  <2>2. SaidOpen(Append(events, e), l, view[l])
    BY <1>1, <2>1, PushOpen
  <2> QED
    BY <2>2
<1> QED
  BY <1>2, <1>3 DEF ToldOf, OpenSaid

\* The deletion of an open link comes with two.
LEMMA PushedTwo ==
  ASSUME TypeOK, NEW l \in LinkId, dtndLink[l] = "open",
         events' = Append(Append(events, <<"closed", l>>), <<"deleted", l>>),
         dtndLink' = [dtndLink EXCEPT ![l] = "none"], UNCHANGED <<view, early, tooLate>>,
         ToldOf, OpenSaid
  PROVE  ToldOf' /\ OpenSaid'
<1> DEFINE one == Append(events, <<"closed", l>>)
<1>1. /\ events \in Seq(Event) /\ <<"closed", l>> \in Event /\ <<"deleted", l>> \in Event
      /\ "closed" \in LinkEvents /\ "deleted" \in LinkEvents
  BY Events DEF TypeOK, LinkEvents
<1>2. one \in Seq(Event) /\ events' = Append(one, <<"deleted", l>>)
  BY <1>1
<1>3. /\ dtndLink'[l] = "none"
      /\ \A m \in LinkId \ {l} : dtndLink'[m] = dtndLink[m]
  BY DEF TypeOK
<1>4. ASSUME NEW m \in LinkId, ~early
      PROVE  InOrder(events', m, view[m], dtndLink'[m], tooLate)
  <2>1. InOrder(events, m, view[m], dtndLink[m], tooLate)
    BY <1>4 DEF ToldOf
  <2>2. InOrder(one, m, view[m], dtndLink[m], tooLate)
    BY <1>1, <2>1, PushInOrder
  <2> HIDE DEF one
  <2>3. InOrder(Append(one, <<"deleted", l>>), m, view[m], dtndLink'[m], tooLate)
    <3>1. CASE m = l
      BY <1>1, <1>2, <1>3, <2>2, <3>1, PushInOrder
    <3>2. CASE m # l
      BY <1>1, <1>2, <1>3, <2>2, <3>2, PushInOrder
    <3> QED
      BY <3>1, <3>2
  <2> QED
    BY <1>2, <2>3
<1>5. ASSUME NEW m \in LinkId, dtndLink'[m] = "open" PROVE SaidOpen(events', m, view[m])
  <2>1. m # l /\ SaidOpen(events, m, view[m])
    BY <1>3, <1>5 DEF OpenSaid
  <2>2. SaidOpen(one, m, view[m])
    BY <1>1, <2>1, PushOpen
  <2> HIDE DEF one
  <2>3. SaidOpen(Append(one, <<"deleted", l>>), m, view[m])
    BY <1>1, <1>2, <2>1, <2>2, PushOpen
  <2> QED
    BY <1>2, <2>3
<1> QED
  BY <1>4, <1>5 DEF ToldOf, OpenSaid

LEMMA Popped ==
  ASSUME TypeOK, ToldOf, OpenSaid, events # <<>>, events' = Tail(events),
         UNCHANGED <<dtndLink, early, tooLate>>,
         \A l \in LinkId :
           /\ ~About(events, l, 1) => \/ view'[l] = view[l]
                                     \/ /\ view[l] \in {"absent", "null"}
                                        /\ view'[l] = "null"
                                        /\ early \/ l \in tooLate
           /\ About(events, l, 1) /\ events[1][1] = "opened"
                => view'[l] \in {"absent", "null", "open"}
           /\ ~early /\ About(events, l, 1) =>
                /\ view'[l] # "null"
                /\ events[1][1] \in Lives
                     => view'[l] \in KnownViews
  PROVE  ToldOf' /\ OpenSaid'
<1>1. events \in Seq(Event)
  BY DEF TypeOK
<1>2. ASSUME NEW l \in LinkId, ~early
      PROVE  InOrder(events', l, view'[l], dtndLink[l], tooLate)
  <2>1. InOrder(events, l, view[l], dtndLink[l], tooLate)
    BY <1>2 DEF ToldOf
  <2>2. /\ l \notin tooLate => view'[l] # "null"
        /\ ~About(events, l, 1) /\ view[l] \in KnownViews => view'[l] \in KnownViews
    BY <1>2, <2>1 DEF InOrder, KnownViews
  <2>3. InOrder(Tail(events), l, view'[l], dtndLink[l], tooLate)
    BY <1>1, <1>2, <2>1, <2>2, PopInOrder
  <2> QED
    BY <2>3
<1>3. ASSUME NEW l \in LinkId, dtndLink[l] = "open"
      PROVE  SaidOpen(events', l, view'[l])
  <2>1. SaidOpen(events, l, view[l])
    BY <1>3 DEF OpenSaid
  <2>2. SaidOpen(Tail(events), l, view'[l])
    BY <1>1, <2>1, PopOpen
  <2> QED
    BY <2>2
<1> QED
  BY <1>2, <1>3 DEF ToldOf, OpenSaid

\* The first datagram about a link that dtnd told of finds it, except "created".
LEMMA HeadKnown ==
  ASSUME TypeOK, ToldOf, ~early, NEW l \in LinkId, NEW type \in LinkEvents,
         Takes(type, l), type # "created"
  PROVE  Known(l)
<1>1. /\ events \in Seq(Event) /\ events # <<>> /\ Head(events) = <<type, l>>
      /\ Preceded(events, l, view[l], LinkEvents \ {"created"}, Lives, KnownViews)
  BY DEF TypeOK, Takes, ToldOf, InOrder
<1>2. events[1] = <<type, l>>
  BY <1>1
<1>3. events[1][2] = l /\ events[1][1] \in LinkEvents \ {"created"}
  BY <1>2
<1>4. view[l] \in KnownViews
  BY <1>1, <1>3, HeadPreceded
<1> QED
  BY <1>4 DEF Known, KnownViews

LEMMA TakesTail ==
  ASSUME TypeOK, NEW type, NEW subject, Takes(type, subject)
  PROVE  /\ events # <<>> /\ events' = Tail(events) /\ events[1] = <<type, subject>>
         /\ \A l \in LinkId : About(events, l, 1) <=> l = subject /\ type \in LinkEvents
<1>1. events \in Seq(Event)
  BY DEF TypeOK
<1>2. events # <<>> /\ events' = Tail(events) /\ events[1] = <<type, subject>>
  BY <1>1 DEF Takes
<1> QED
  BY <1>2 DEF About

LEMMA HandleOther ==
  ASSUME TypeOK, ToldOf, OpenSaid, NEW type, NEW subject, Takes(type, subject),
         type \notin LinkEvents, UNCHANGED <<view, dtndLink, early, tooLate>>
  PROVE  ToldOf' /\ OpenSaid'
BY TakesTail, Popped

LEMMA HandleLinkStep ==
  ASSUME TypeOK, ToldOf, OpenSaid, NEW l \in LinkId, HandleLink(l)
  PROVE  ToldOf' /\ OpenSaid'
<1>1. /\ UNCHANGED <<dtndLink, early, tooLate>>
      /\ view \in [LinkId -> {"absent", "null", "new", "open", "closed"}]
  BY DEF HandleLink, HandleUnknown, HandleTransmitted, HandleCreated, HandleOpened, HandleClosed,
         HandleDeleted, HandleDeletedUnknown, MainOnly, dtndVars, TypeOK
<1>2. ASSUME NEW type \in LinkEvents, Takes(type, l),
             \A m \in LinkId \ {l} : view'[m] = view[m],
             type = "opened" => view'[l] \in {"absent", "null", "open"},
             ~early => /\ view'[l] # "null"
                       /\ type # "deleted" => view'[l] \in KnownViews
      PROVE  ToldOf' /\ OpenSaid'
  <2>1. /\ events # <<>> /\ events' = Tail(events) /\ events[1] = <<type, l>>
        /\ \A m \in LinkId : About(events, m, 1) <=> m = l
    BY <1>2, TakesTail
  <2>2. events[1][1] = type
    BY <2>1
  <2> QED
    BY <1>1, <1>2, <2>1, <2>2, Popped DEF Lives
<1>3. {"created", "opened", "closed", "deleted"} = LinkEvents
  BY DEF LinkEvents
<1>4. CASE HandleUnknown(l)
  <2>1. PICK type \in {"opened", "closed"} : Takes(type, l)
    BY <1>4 DEF HandleUnknown
  <2>2. early
    BY <1>3, <1>4, <2>1, HeadKnown DEF HandleUnknown
  <2>3. view'[l] = "null" /\ \A m \in LinkId \ {l} : view'[m] = view[m]
    BY <1>1, <1>4 DEF HandleUnknown
  <2> QED
    BY <1>2, <1>3, <2>1, <2>2, <2>3
<1>5. CASE HandleCreated(l)
  <2>1. Takes("created", l) /\ \A m \in LinkId \ {l} : view'[m] = view[m]
    BY <1>1, <1>5 DEF HandleCreated
  <2>2. view'[l] \in KnownViews /\ view'[l] # "null"
    BY <1>1, <1>5 DEF HandleCreated, Known, KnownViews
  <2> QED
    BY <1>2, <1>3, <2>1, <2>2
<1>6. CASE HandleOpened(l) \/ HandleClosed(l)
  <2>1. PICK type \in {"opened", "closed"} :
          Takes(type, l) /\ view' = [view EXCEPT ![l] = IF type = "opened" THEN "open"
                                                      ELSE "closed"]
    BY <1>6 DEF HandleOpened, HandleClosed
  <2>2. /\ view'[l] = IF type = "opened" THEN "open" ELSE "closed"
        /\ \A m \in LinkId \ {l} : view'[m] = view[m]
    BY <1>1, <2>1
  <2>3. view'[l] \in KnownViews /\ view'[l] # "null"
    BY <2>2 DEF KnownViews
  <2> QED
    BY <1>2, <1>3, <2>1, <2>2, <2>3
<1>7. CASE HandleDeleted(l)
  <2>1. /\ Takes("deleted", l) /\ view'[l] = "absent"
        /\ \A m \in LinkId \ {l} : view'[m] = view[m]
    BY <1>1, <1>7 DEF HandleDeleted
  <2> QED
    BY <1>2, <1>3, <2>1
<1>8. CASE HandleDeletedUnknown(l)
  <2>1. Takes("deleted", l) /\ view' = view /\ ~Known(l)
    BY <1>8 DEF HandleDeletedUnknown
  <2>2. early
    BY <1>3, <2>1, HeadKnown
  <2> QED
    BY <1>2, <1>3, <2>1, <2>2
<1>9. CASE HandleTransmitted(l)
  <2>1. /\ events # <<>> /\ events' = Tail(events) /\ events[1] = <<"transmitted", l>>
        /\ \A m \in LinkId : ~About(events, m, 1)
    BY <1>9, TakesTail DEF HandleTransmitted, LinkEvents
  <2>2. /\ \A m \in LinkId \ {l} : view'[m] = view[m]
        /\ view'[l] = IF Known(l) THEN view[l] ELSE "null"
    BY <1>1, <1>9 DEF HandleTransmitted
  <2>3. ASSUME ~early, l \notin tooLate PROVE Known(l)
    <3>1. /\ Preceded(events, l, view[l], {"transmitted"}, Lives, KnownViews)
          /\ events \in Seq(Event)
      BY <2>3 DEF TypeOK, ToldOf, InOrder
    <3>2. events[1][2] = l /\ events[1][1] \in {"transmitted"}
      BY <2>1
    <3>3. view[l] \in KnownViews
      BY <2>1, <3>1, <3>2, HeadPreceded
    <3> QED
      BY <3>3 DEF Known, KnownViews
  <2>4. ASSUME NEW m \in LinkId
        PROVE  \/ view'[m] = view[m]
               \/ /\ view[m] \in {"absent", "null"} /\ view'[m] = "null"
                  /\ early \/ m \in tooLate
    <3>1. CASE m = l
      BY <2>2, <2>3, <3>1 DEF Known
    <3> QED
      BY <2>2, <3>1
  <2> QED
    BY <1>1, <2>1, <2>4, Popped
<1> QED
  BY <1>4, <1>5, <1>6, <1>7, <1>8, <1>9 DEF HandleLink

LEMMA Concatenated ==
  ASSUME NEW s \in Seq(Event), NEW e \in Event, NEW f \in Event
  PROVE  s \o <<e>> = Append(s, e) /\ s \o <<e, f>> = Append(Append(s, e), f)
OBVIOUS

\* Before the router listens, dtnd's links change and nothing is heard.
LEMMA Unheard ==
  ASSUME Quiet, ~Listening, UNCHANGED <<view, mainPc>>, events' = events,
         ~early' => /\ ~early
                    /\ \A l \in LinkId : dtndLink[l] = "none" => dtndLink'[l] = "none"
  PROVE  Quiet' /\ ToldOf' /\ OpenSaid'
<1>1. ~Listening' /\ events' = <<>> /\ \A l \in LinkId : view'[l] = "absent"
  BY DEF Quiet, Listening
<1>2. ~early' => \A l \in LinkId : dtndLink'[l] = "none"
  BY DEF Quiet
<1>3. Quiet'
  BY <1>1, <1>2 DEF Quiet
<1>4. ToldOf' /\ OpenSaid'
  BY <1>1, <1>2, StartInOrder DEF ToldOf, OpenSaid
<1> QED
  BY <1>3, <1>4

LEMMA DtndLinksStep ==
  ASSUME TypeOK, Quiet, ToldOf, OpenSaid, DtndStep
  PROVE  Quiet' /\ ToldOf' /\ OpenSaid'
<1>1. /\ events \in Seq(Event) /\ early \in BOOLEAN
      /\ dtndLink \in [LinkId -> {"none", "down", "open"}]
  BY DEF TypeOK
<1>2. UNCHANGED <<view, mainPc>>
  BY DEF DtndStep, DtndTraffic, DtndInject, DtndCreate, DtndOpen, DtndClose,
         DtndDelete, DtndTransmitted, DtndOnly, mainVars
<1>3. ASSUME Listening, ToldOf', OpenSaid' PROVE Quiet' /\ ToldOf' /\ OpenSaid'
  BY <1>2, <1>3 DEF Quiet, Listening
<1>4. ASSUME NEW e \in Event, Tells(<<e>>), e[1] \notin LinkEvents,
             UNCHANGED <<dtndLink, early>>, tooLate \subseteq tooLate',
             e[1] = "transmitted" => dtndLink[e[2]] # "none" \/ e[2] \in tooLate'
      PROVE  Quiet' /\ ToldOf' /\ OpenSaid'
  <2>1. CASE Listening
    <3>1. events' = Append(events, e)
      BY <1>1, <1>4, <2>1, Concatenated DEF Tells
    <3>2. ToldOf' /\ OpenSaid'
      BY <1>2, <1>4, <3>1, Pushed
    <3> QED
      BY <1>3, <2>1, <3>2
  <2>2. CASE ~Listening
    <3>1. events' = events
      BY <1>4, <2>2 DEF Tells
    <3> QED
      BY <1>2, <1>4, <2>2, <3>1, Unheard
  <2> QED
    BY <2>1, <2>2
<1>5. CASE DtndTraffic
  <2> DEFINE Others == LinkEvents \cup {"transmitted"}
  <2>1. PICK e \in Event : Tells(<<e>>) /\ e[1] \notin Others
    <3>1. ASSUME NEW n \in Name
          PROVE  <<"received", n>> \in Event /\ <<"received", n>>[1] \notin Others
      BY Events DEF LinkEvents
    <3>2. ASSUME NEW n \in EID
          PROVE  <<"vector", n>> \in Event /\ <<"vector", n>>[1] \notin Others
      BY Events DEF LinkEvents
    <3>3. ASSUME NEW alert \in {"data", "hello", "shutdown"}
          PROVE  <<alert, NONE>> \in Event /\ <<alert, NONE>>[1] \notin Others
      BY Events DEF LinkEvents
    <3> QED
      BY <1>5, <3>1, <3>2, <3>3 DEF DtndTraffic
  <2> QED
    BY <1>4, <1>5, <2>1 DEF DtndTraffic, dtndVars
<1>6. ASSUME NEW n \in Name, DtndInject(n) PROVE Quiet' /\ ToldOf' /\ OpenSaid'
  <2>1. /\ <<"injected", n>> \in Event /\ <<"injected", n>>[1] # "transmitted"
        /\ <<"injected", n>>[1] \notin LinkEvents
    BY Events DEF LinkEvents
  <2> QED
    BY <1>4, <1>6, <2>1 DEF DtndInject, dtndVars
<1>7. ASSUME NEW l \in LinkId, NEW type \in {"created", "opened", "closed", "deleted"},
             NEW d \in {"none", "down", "open"}, Tells(<< <<type, l>> >>),
             dtndLink' = [dtndLink EXCEPT ![l] = d],
             IF type = "created" THEN d = "down" /\ early' = (early \/ ~Listening)
             ELSE dtndLink[l] # "none" /\ early' = early,
             type = "deleted" => d = "none", d = "open" => type = "opened",
             UNCHANGED tooLate
      PROVE  Quiet' /\ ToldOf' /\ OpenSaid'
  <2>1. <<type, l>> \in Event /\ {"created", "opened", "closed", "deleted"} = LinkEvents
    BY Events DEF LinkEvents
  <2>2. dtndLink'[l] = d /\ \A m \in LinkId \ {l} : dtndLink'[m] = dtndLink[m]
    BY <1>1, <1>7
  <2>3. CASE Listening
    <3>1. events' = Append(events, <<type, l>>)
      BY <1>1, <1>7, <2>1, <2>3, Concatenated DEF Tells
    <3>2. early' = early
      BY <1>1, <1>7, <2>3
    <3>3. ASSUME NEW m \in LinkId
          PROVE  IF <<type, l>>[2] = m /\ <<type, l>>[1] \in LinkEvents
                   THEN /\ <<type, l>>[1] # "created" => dtndLink[m] # "none"
                        /\ <<type, l>>[1] = "deleted" => dtndLink'[m] = "none"
                        /\ dtndLink'[m] = "open" => <<type, l>>[1] = "opened"
                   ELSE dtndLink'[m] = dtndLink[m]
      BY <1>7, <2>1, <2>2
    <3>4. ToldOf' /\ OpenSaid'
      <4>1. tooLate \subseteq tooLate' /\ <<type, l>>[1] # "transmitted"
        BY <1>7
      <4> QED
        BY <1>2, <2>1, <3>1, <3>2, <3>3, <4>1, Pushed
    <3> QED
      BY <1>3, <2>3, <3>4
  <2>4. CASE ~Listening
    <3>1. events' = events
      BY <1>7, <2>4 DEF Tells
    <3>2. ~early' => /\ ~early
                     /\ \A m \in LinkId : dtndLink[m] = "none" => dtndLink'[m] = "none"
      BY <1>7, <2>2, <2>4
    <3> QED
      BY <1>2, <2>4, <3>1, <3>2, Unheard
  <2> QED
    BY <2>3, <2>4
<1>8. ASSUME NEW l \in LinkId, DtndCreate(l) PROVE Quiet' /\ ToldOf' /\ OpenSaid'
  BY <1>7, <1>8 DEF DtndCreate
<1>9. ASSUME NEW l \in LinkId, DtndOpen(l) PROVE Quiet' /\ ToldOf' /\ OpenSaid'
  BY <1>7, <1>9 DEF DtndOpen
<1>10. ASSUME NEW l \in LinkId, DtndClose(l) PROVE Quiet' /\ ToldOf' /\ OpenSaid'
  BY <1>7, <1>10 DEF DtndClose, Stops
<1>11. ASSUME NEW l \in LinkId, DtndDelete(l) PROVE Quiet' /\ ToldOf' /\ OpenSaid'
  <2>1. CASE dtndLink[l] # "open"
    BY <1>7, <1>11, <2>1 DEF DtndDelete
  <2>2. CASE dtndLink[l] = "open"
    <3>1. /\ Tells(<< <<"closed", l>>, <<"deleted", l>> >>)
          /\ UNCHANGED <<early, tooLate>>
          /\ dtndLink' = [dtndLink EXCEPT ![l] = "none"]
      BY <1>11, <2>2 DEF DtndDelete, Stops
    <3>2. CASE Listening
      <4>1. <<"closed", l>> \in Event /\ <<"deleted", l>> \in Event
        BY Events DEF LinkEvents
      <4>2. events' = Append(Append(events, <<"closed", l>>), <<"deleted", l>>)
        BY <1>1, <3>1, <3>2, <4>1, Concatenated DEF Tells
      <4>3. ToldOf' /\ OpenSaid'
        BY <1>2, <2>2, <3>1, <4>2, PushedTwo
      <4> QED
        BY <1>3, <3>2, <4>3
    <3>3. CASE ~Listening
      <4>1. events' = events
        BY <3>1, <3>3 DEF Tells
      <4>2. \A m \in LinkId : dtndLink[m] = "none" => dtndLink'[m] = "none"
        BY <1>1, <3>1
      <4> QED
        BY <1>2, <3>1, <3>3, <4>1, <4>2, Unheard
    <3> QED
      BY <3>2, <3>3
  <2> QED
    BY <2>1, <2>2
<1>12. ASSUME NEW l \in LinkId, DtndTransmitted(l) PROVE Quiet' /\ ToldOf' /\ OpenSaid'
  <2>1. /\ <<"transmitted", l>> \in Event /\ <<"transmitted", l>>[2] = l
        /\ <<"transmitted", l>>[1] \notin LinkEvents
    BY Events DEF LinkEvents
  <2>2. /\ tooLate \subseteq tooLate' /\ UNCHANGED <<dtndLink, early>>
        /\ dtndLink[l] # "none" \/ l \in tooLate'
    BY <1>12 DEF DtndTransmitted
  <2> QED
    BY <1>4, <1>12, <2>1, <2>2 DEF DtndTransmitted
<1> QED
  BY <1>5, <1>6, <1>8, <1>9, <1>10, <1>11, <1>12 DEF DtndStep

\* The handler that takes a datagram runs in a router that listens.
LEMMA MainLinksStep ==
  ASSUME TypeOK, Quiet, ToldOf, OpenSaid, MainStep
  PROVE  Quiet' /\ ToldOf' /\ OpenSaid'
<1>1. ASSUME mainPc = "loop", mainPc' \in {"loop", "stopping"}, ToldOf', OpenSaid'
      PROVE  Quiet' /\ ToldOf' /\ OpenSaid'
  BY <1>1 DEF Quiet, Listening
<1>2. ASSUME NEW type, NEW subject, Takes(type, subject), type \notin LinkEvents,
             mainPc' \in {"loop", "stopping"},
             UNCHANGED <<view, dtndLink, early, tooLate>>
      PROVE  Quiet' /\ ToldOf' /\ OpenSaid'
  <2>1. mainPc = "loop"
    BY <1>2 DEF Takes
  <2>2. ToldOf' /\ OpenSaid'
    BY <1>2, HandleOther
  <2> QED
    BY <1>1, <1>2, <2>1, <2>2
<1>3. CASE SetupSAX \/ StartUp \/ FirstMessage \/ SetRegistration \/ Exit
  <2>1. UNCHANGED <<events, view, dtndLink, early, tooLate>>
    BY <1>3 DEF SetupSAX, StartUp, FirstMessage, SetRegistration, Exit, MainGoes,
                MainOnly, mainVars, dtndVars
  <2>2. Listening => Listening'
    BY <1>3 DEF SetupSAX, StartUp, FirstMessage, SetRegistration, Exit, MainGoes,
                mainVars, Listening
  <2> QED
    BY <2>1, <2>2, LinksSame
<1>4. ASSUME NEW l \in LinkId, HandleLink(l) PROVE Quiet' /\ ToldOf' /\ OpenSaid'
  <2>1. mainPc = "loop" /\ mainPc' = mainPc
    BY <1>4 DEF HandleLink, HandleUnknown, HandleTransmitted, HandleCreated, HandleOpened, HandleClosed,
                HandleDeleted, HandleDeletedUnknown, Takes
  <2>2. ToldOf' /\ OpenSaid'
    BY <1>4, HandleLinkStep
  <2> QED
    BY <1>1, <2>1, <2>2
<1>5. ASSUME NEW e \in Name, HandleBundle(e) PROVE Quiet' /\ ToldOf' /\ OpenSaid'
  <2>1. PICK type \in {"received", "injected"} : Takes(type, e)
    BY <1>5 DEF HandleBundle
  <2>2. type \notin LinkEvents /\ mainPc = "loop"
    BY <2>1 DEF LinkEvents, Takes
  <2> QED
    BY <1>2, <1>5, <2>1, <2>2 DEF HandleBundle, MainOnly, dtndVars
<1>6. ASSUME NEW e \in EID \cup {NONE}, HandleDelivery(e)
      PROVE  Quiet' /\ ToldOf' /\ OpenSaid'
  <2>1. PICK type \in {"vector", "data"} : Takes(type, e)
    BY <1>6 DEF HandleDelivery
  <2>2. type \notin LinkEvents /\ mainPc = "loop"
    BY <2>1 DEF LinkEvents, Takes
  <2> QED
    BY <1>2, <1>6, <2>1, <2>2 DEF HandleDelivery, dtndVars
<1>7. CASE HandleHello \/ HandleShutdown
  <2>1. PICK type \in {"hello", "shutdown"} : Takes(type, NONE)
    BY <1>7 DEF HandleHello, HandleShutdown
  <2>2. type \notin LinkEvents /\ mainPc = "loop"
    BY <2>1 DEF LinkEvents, Takes
  <2>3. /\ mainPc' \in {"loop", "stopping"}
        /\ UNCHANGED <<view, dtndLink, early, tooLate>>
    BY <1>7, <2>2 DEF HandleHello, HandleShutdown, MainOnly, dtndVars
  <2> QED
    BY <1>2, <2>1, <2>2, <2>3
<1> QED
  BY <1>3, <1>4, <1>5, <1>6, <1>7 DEF MainStep

LEMMA LinksStep ==
  ASSUME TypeOK, Quiet, ToldOf, OpenSaid, [Next]_vars
  PROVE  Quiet' /\ ToldOf' /\ OpenSaid'
<1>1. CASE GwStep \/ PeerStep \/ UNCHANGED vars
  <2>1. UNCHANGED <<events, view, dtndLink, early, tooLate, mainPc>>
    BY <1>1 DEF GwStep, GwBind, GwCheck, GwSend, GwList, GwFindNothing, GwInject,
                GwFind, GwGoes, PeerStep, PeerLookup, PeerHandOn, PeerOnly, vars,
                mainVars, dtndVars
  <2> QED
    BY <2>1, LinksSame DEF Listening
<1> QED
  BY <1>1, MainLinksStep, DtndLinksStep DEF Next

------------------------------------------------------------------------------
(* Names, nodes and ends *)

LEMMA UnnamedStep == ASSUME Unnamed, [Next]_vars PROVE Unnamed'
<1>1. CASE SetupSAX \/ StartUp
  BY <1>1 DEF SetupSAX, StartUp, MainGoes, Unnamed
<1>2. CASE FirstMessage \/ SetRegistration \/ HandleShutdown
  BY <1>2 DEF FirstMessage, SetRegistration, HandleShutdown, Takes, Unnamed
<1>3. CASE \/ \E l \in LinkId : HandleLink(l)
           \/ \E e \in Name : HandleBundle(e)
           \/ \E e \in EID \cup {NONE} : HandleDelivery(e)
           \/ HandleHello \/ Exit
  <2>1. UNCHANGED <<mainPc, localEID>>
    BY <1>3 DEF HandleLink, HandleUnknown, HandleTransmitted, HandleCreated, HandleOpened, HandleClosed,
                HandleDeleted, HandleDeletedUnknown, HandleBundle, HandleDelivery,
                HandleHello, Exit, Takes, mainVars
  <2> QED
    BY <2>1 DEF Unnamed
<1>4. CASE GwStep \/ DtndStep \/ PeerStep \/ UNCHANGED vars
  <2>1. UNCHANGED <<mainPc, localEID>>
    BY <1>4 DEF GwStep, GwBind, GwCheck, GwSend, GwList, GwFindNothing, GwInject,
                GwFind, GwGoes, PeerStep, PeerLookup, PeerHandOn, PeerOnly, vars,
                DtndStep, DtndTraffic, DtndInject, DtndCreate, DtndOpen, DtndClose,
                DtndDelete, DtndTransmitted, DtndOnly, mainVars
  <2> QED
    BY <2>1 DEF Unnamed
<1> QED
  BY <1>1, <1>2, <1>3, <1>4 DEF Next, MainStep

\* No lookup and no other node's deletion takes a node away.
LEMMA KeepsNodes ==
  ASSUME PeerKnown, UNCHANGED <<view, forgotten>>,
         \A l \in LinkId : nodes[PeerOf[l]] = "node" => nodes'[PeerOf[l]] = "node"
  PROVE  PeerKnown'
BY DEF PeerKnown

LEMMA Kept ==
  ASSUME TypeOK, NEW e \in Name
  PROVE  \A p \in Name :
           nodes[p] = "node" => /\ ConditionalAdd(nodes, e)[p] = "node"
                                /\ FindNode(nodes, e)[p] = "node"
BY DEF TypeOK, ConditionalAdd, FindNode

LEMMA PeerLinkStep ==
  ASSUME TypeOK, PeerKnown, NEW l \in LinkId, HandleLink(l) PROVE PeerKnown'
<1>1. /\ view \in [LinkId -> {"absent", "null", "new", "open", "closed"}]
      /\ nodes \in [Name -> {"absent", "null", "node"}]
      /\ \A m \in LinkId : PeerOf[m] \in Name /\ PeerOf[m] # Self
  BY Bounds DEF TypeOK, Name
<1>2. CASE \/ HandleUnknown(l) \/ HandleTransmitted(l) \/ HandleCreated(l)
           \/ HandleClosed(l) \/ HandleDeletedUnknown(l)
  <2>1. UNCHANGED <<nodes, forgotten>>
    BY <1>2 DEF HandleUnknown, HandleTransmitted, HandleCreated, HandleClosed, HandleDeletedUnknown
  <2>2. \A m \in LinkId : view'[m] = "open" => view[m] = "open"
    BY <1>1, <1>2 DEF HandleUnknown, HandleTransmitted, HandleCreated, HandleClosed, HandleDeletedUnknown
  <2> QED
    BY <2>1, <2>2 DEF PeerKnown
<1>3. CASE HandleOpened(l)
  <2>1. /\ view' = [view EXCEPT ![l] = "open"]
        /\ nodes' = [nodes EXCEPT ![PeerOf[l]] = "node"]
        /\ forgotten' = forgotten \ {PeerOf[l]}
    BY <1>1, <1>3 DEF HandleOpened, ConditionalAdd
  <2>2. ASSUME NEW m \in LinkId, view'[m] = "open"
        PROVE  nodes'[PeerOf[m]] = "node" \/ PeerOf[m] \in forgotten'
    <3>1. CASE PeerOf[m] = PeerOf[l]
      BY <1>1, <2>1, <3>1
    <3>2. CASE PeerOf[m] # PeerOf[l]
      <4>1. view[m] = "open" /\ nodes'[PeerOf[m]] = nodes[PeerOf[m]]
        BY <1>1, <2>1, <2>2, <3>2
      <4> QED
        BY <2>1, <3>2, <4>1 DEF PeerKnown
    <3> QED
      BY <3>1, <3>2
  <2> QED
    BY <2>2 DEF PeerKnown
<1>4. CASE HandleDeleted(l)
  <2>1. /\ view' = [view EXCEPT ![l] = "absent"]
        /\ \/ UNCHANGED <<nodes, forgotten>>
           \/ /\ nodes' = [nodes EXCEPT ![PeerOf[l]] = "absent"]
              /\ forgotten' = forgotten \cup {PeerOf[l]}
    BY <1>4 DEF HandleDeleted, RemoveNode
  <2>2. ASSUME NEW m \in LinkId, view'[m] = "open"
        PROVE  nodes'[PeerOf[m]] = "node" \/ PeerOf[m] \in forgotten'
    <3>1. view[m] = "open"
      BY <1>1, <2>1, <2>2
    <3>2. nodes[PeerOf[m]] = "node" \/ PeerOf[m] \in forgotten
      BY <3>1 DEF PeerKnown
    <3>3. nodes'[PeerOf[m]] = nodes[PeerOf[m]] \/ PeerOf[m] \in forgotten'
      BY <1>1, <2>1
    <3> QED
      BY <2>1, <3>2, <3>3
  <2> QED
    BY <2>2 DEF PeerKnown
<1> QED
  BY <1>2, <1>3, <1>4 DEF HandleLink

LEMMA PeerKnownStep ==
  ASSUME TypeOK, PeerKnown, [Next]_vars PROVE PeerKnown'
<1>1. \A l \in LinkId : PeerOf[l] \in Name
  BY Bounds DEF Name
<1>2. CASE \E l \in LinkId : HandleLink(l)
  BY <1>2, PeerLinkStep
<1>3. ASSUME NEW e \in Name, HandleBundle(e) PROVE PeerKnown'
  <2>1. UNCHANGED <<view, forgotten>> /\ nodes' = ConditionalAdd(nodes, e)
    BY <1>3 DEF HandleBundle
  <2> QED
    BY <1>1, <2>1, Kept, KeepsNodes
<1>4. ASSUME NEW e \in Name, nodes' \in {nodes, FindNode(nodes, e)},
             UNCHANGED <<view, forgotten>>
      PROVE  PeerKnown'
  BY <1>1, <1>4, Kept, KeepsNodes
<1>5. CASE HandleHello
  <2>1. UNCHANGED <<view, forgotten>>
    BY <1>5 DEF HandleHello
  <2>2. \A p \in Name : nodes[p] = "node" => nodes'[p] = "node"
    BY <1>5, Kept DEF HandleHello
  <2> QED
    BY <1>1, <2>1, <2>2, KeepsNodes
<1>6. CASE \/ SetupSAX \/ StartUp \/ FirstMessage \/ SetRegistration
           \/ \E e \in EID \cup {NONE} : HandleDelivery(e)
           \/ HandleShutdown \/ Exit \/ DtndStep \/ PeerHandOn \/ UNCHANGED vars
  <2>1. UNCHANGED <<view, nodes, forgotten>>
    BY <1>6 DEF SetupSAX, StartUp, FirstMessage, SetRegistration, HandleDelivery,
                HandleShutdown, Exit, MainGoes, DtndStep, DtndTraffic, DtndInject,
                DtndCreate, DtndOpen, DtndClose, DtndDelete, DtndTransmitted, DtndOnly, PeerHandOn,
                PeerOnly, vars
  <2> QED
    BY <2>1 DEF PeerKnown
<1>7. CASE GwBind \/ GwCheck \/ GwSend \/ GwList \/ GwFindNothing
           \/ \E e \in Name : GwInject(e)
  <2>1. UNCHANGED <<view, nodes, forgotten>>
    BY <1>7 DEF GwBind, GwCheck, GwSend, GwList, GwFindNothing, GwInject, GwGoes
  <2> QED
    BY <2>1 DEF PeerKnown
<1>8. ASSUME NEW e \in Name, GwFind(e) PROVE PeerKnown'
  BY <1>4, <1>8 DEF GwFind, GwGoes
<1>9. ASSUME NEW e \in EID, PeerLookup(e) PROVE PeerKnown'
  <2>1. e \in Name
    BY DEF Name
  <2> QED
    BY <1>4, <1>9, <2>1 DEF PeerLookup, PeerOnly
<1> QED
  BY <1>2, <1>3, <1>5, <1>6, <1>7, <1>8, <1>9 DEF Next, MainStep, GwStep, PeerStep
\* Each way to end, at the step that ends the process.
LEMMA EndsStep ==
  ASSUME TypeOK, LinkInv, [Next]_vars PROVE EndsForCause'
<1>1. CASE ~Running
  <2>1. UNCHANGED <<ended, localEID, view, forgotten, early, tooLate>>
    BY <1>1, Over DEF vars, mainVars, dtndVars
  <2> QED
    BY <2>1 DEF LinkInv, EndsForCause
<1>2. ASSUME ended' \in {"no", "no socket", "terminated"} PROVE EndsForCause'
  BY <1>2 DEF EndsForCause
<1>3. CASE Running /\ UNCHANGED ended
  BY <1>2, <1>3 DEF Running
<1>4. ASSUME NEW l \in LinkId, HandleDeletedUnknown(l) PROVE EndsForCause'
  <2>1. Takes("deleted", l) /\ ~Known(l) /\ ended' = "unknown deleted" /\ early' = early
    BY <1>4 DEF HandleDeletedUnknown, MainOnly, dtndVars
  <2>2. "deleted" \in LinkEvents
    BY DEF LinkEvents
  <2>3. early
    BY <2>1, <2>2, HeadKnown DEF LinkInv
  <2> QED
    BY <2>1, <2>3 DEF EndsForCause
<1>5. CASE HandleHello /\ ended' # ended
  <2>1. ended' = "null entry" /\ UNCHANGED <<early, tooLate, view>>
    BY <1>5 DEF HandleHello, MainOnly, dtndVars
  <2>2. PICK l \in LinkId : view[l] = "null"
    BY <1>5 DEF HandleHello
  <2>3. early \/ l \in tooLate
    BY <2>2 DEF LinkInv, ToldOf, InOrder
  <2> QED
    BY <2>1, <2>2, <2>3 DEF EndsForCause
<1>6. CASE GwStep /\ ended' # ended
  <2>1. UNCHANGED <<localEID, view, forgotten>>
    BY <1>6 DEF GwStep, GwBind, GwCheck, GwSend, GwList, GwFindNothing, GwInject,
                GwFind, GwGoes, mainVars
  <2>2. CASE GwList
    <3>1. ended' = "no nodes" /\ Listed = {}
      BY <1>6, <2>2 DEF GwList
    <3>2. \A l \in LinkId : PeerOf[l] \in Name
      BY Bounds DEF Name
    <3>3. \A l \in LinkId : nodes[PeerOf[l]] # "node"
      BY <3>1, <3>2 DEF Listed
    <3> QED
      BY <2>1, <3>1, <3>3 DEF LinkInv, PeerKnown, EndsForCause
  <2>3. ASSUME NEW e \in Name, GwInject(e) PROVE EndsForCause'
    <3>1. /\ ended' = "no requester"
          /\ mainPc \in {"setupSAX", "setupMulticast", "new Requester"}
      BY <1>6, <2>3 DEF GwInject
    <3>2. localEID = "empty"
      BY <3>1 DEF LinkInv, Unnamed
    <3> QED
      BY <2>1, <3>1, <3>2 DEF EndsForCause
  <2>4. CASE GwSend
    <3>1. mainPc = "init" /\ ended' \in {"no", "bad socket"}
      BY <1>6, <2>4 DEF GwSend
    <3>2. localEID = "empty"
      BY <3>1 DEF LinkInv, Unnamed
    <3> QED
      BY <2>1, <3>1, <3>2 DEF EndsForCause
  <2> QED
    BY <1>6, <2>2, <2>3, <2>4 DEF GwStep, GwBind, GwCheck, GwFindNothing, GwFind
<1>7. CASE Exit \/ PeerHandOn
  <2>1. ended' \in {"no", "no socket", "terminated"}
    BY <1>7 DEF Exit, PeerHandOn, Running
  <2> QED
    BY <1>2, <2>1
<1>8. CASE \/ SetupSAX \/ StartUp \/ FirstMessage \/ SetRegistration
           \/ \E l \in LinkId : \/ HandleUnknown(l) \/ HandleCreated(l) \/ HandleOpened(l)
                                \/ HandleClosed(l) \/ HandleDeleted(l)
                                \/ HandleTransmitted(l)
           \/ \E e \in Name : HandleBundle(e)
           \/ \E e \in EID \cup {NONE} : HandleDelivery(e)
           \/ HandleShutdown \/ DtndStep \/ \E e \in EID : PeerLookup(e)
           \/ UNCHANGED vars
  <2>1. UNCHANGED ended
    BY <1>8 DEF SetupSAX, StartUp, MainGoes, FirstMessage, SetRegistration,
       HandleUnknown, HandleTransmitted, HandleCreated, HandleOpened, HandleClosed,
       HandleDeleted,
       HandleBundle, HandleDelivery, HandleShutdown, DtndStep, DtndTraffic,
       DtndInject, DtndCreate, DtndOpen, DtndClose, DtndDelete, DtndTransmitted, DtndOnly,
       PeerLookup, vars
  <2> QED
    BY <1>1, <1>3, <2>1
<1> QED
  BY <1>1, <1>3, <1>4, <1>5, <1>6, <1>7, <1>8 DEF Next, MainStep, HandleLink, PeerStep

------------------------------------------------------------------------------
(* Theorems *)

\* What the router saw of dtnd's links, followed by the datagrams that wait for
\* it, is what dtnd did since the router listens (handleEvents of HBSD.cpp takes
\* them in order); and no lookup of a node undoes the list (Nodes.cpp).
THEOREM LinkInvariance == Spec => []LinkInv
<1>1. Init => LinkInv
  BY LinkStart
<1>2. TypeOK /\ LinkInv /\ [Next]_vars => LinkInv'
  <2> SUFFICES ASSUME TypeOK, LinkInv, [Next]_vars PROVE LinkInv'
    OBVIOUS
  <2>1. Quiet' /\ ToldOf' /\ OpenSaid'
    BY LinksStep DEF LinkInv
  <2>2. Unnamed' /\ PeerKnown'
    BY UnnamedStep, PeerKnownStep DEF LinkInv
  <2>3. EndsForCause'
    BY EndsStep
  <2> QED
    BY <2>1, <2>2, <2>3 DEF LinkInv
<1>3. Spec => []TypeOK
  BY TypeCorrect
<1> QED
  BY <1>1, <1>2, <1>3, PTL DEF Spec

\* OpenPeersKnown: the gateway that lists or looks for the nodes finds the one at
\* the end of an open link that the router knows of, unless it was removed since.
THEOREM OpenPeers == Spec => []OpenPeersKnown
<1>1. TypeOK /\ LinkInv => OpenPeersKnown
  <2> SUFFICES ASSUME TypeOK, LinkInv, NEW l \in LinkId, dtndLink[l] = "open",
                      Known(l), NothingPending(l)
               PROVE  nodes[PeerOf[l]] = "node" \/ PeerOf[l] \in forgotten
    BY DEF OpenPeersKnown
  <2>1. \A i \in 1 .. Len(events) : ~About(events, l, i)
    <3>1. events \in Seq(Event)
      BY DEF TypeOK
    <3>2. DOMAIN events = 1 .. Len(events)
      BY <3>1
    <3> QED
      BY <3>2 DEF NothingPending, About
  <2>2. SaidOpen(events, l, view[l])
    BY DEF LinkInv, OpenSaid
  <2>3. view[l] = "open"
    BY <2>1, <2>2 DEF SaidOpen, After, Known
  <2> QED
    BY <2>3 DEF LinkInv, PeerKnown
<1> QED
  BY <1>1, TypeCorrect, LinkInvariance, PTL

\* EndsForCause: the router that has its name, listened when dtnd made its links,
\* and has an open link, is ended by no order of requests and datagrams, save by
\* dtnd's word of a transmission over a link that it deleted before.
THEOREM EndCauses == Spec => []EndsForCause
<1>1. LinkInv => EndsForCause
  BY DEF LinkInv
<1> QED
  BY <1>1, LinkInvariance, PTL
===============================================================================
