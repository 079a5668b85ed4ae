---------------------------- MODULE BundlesProofs ----------------------------
(***************************************************************************)
(* The safety of the bundle store for every set of bundles, every capacity *)
(* and every configuration.  IInv, at the end of the first part, is the    *)
(* inductive invariant; its parts say what the two threads know between    *)
(* two steps of theirs.  The later parts say why the lock may be lost, who *)
(* has it otherwise, and that the maps implement the abstract store.       *)
(***************************************************************************)
EXTENDS Bundles, FiniteSetTheorems, SequenceTheorems, TLAPS

\* What dtnd has said about so far, and what it has let go of.
Announced == {lid \in LocalId : dtnd[lid] # "new"}
Retired   == {lid \in LocalId : dtnd[lid] = "gone"}

\* The events that can be on their way: about announced bundles, an expiry only
\* about a retired one, a delivery only of a summary vector, and "delivered"
\* only about what dtnd delivers to this node.
Happened ==
  {e \in EventTypes \X (LocalId \cup {NONE}) :
     /\ e[2] # NONE => e[2] \in Announced
     /\ e[1] = "expired" => e[2] \in Retired
     /\ e[1] = "delivery" => e[2] \in SummaryVector
     /\ e[1] = "delivered" => e[2] \in Delivered}

\* The events that dtnd sends of a bundle before it retires it.
EventsOf(lid) ==
  {e \in EventTypes \X {lid} :
     /\ e[1] # "expired"
     /\ e[1] = "delivery" => lid \in SummaryVector
     /\ e[1] = "delivered" => lid \in Delivered}

\* Everything on its way, or in a thread's hands, has been announced.
Known ==
  /\ events \in Seq(Happened)
  /\ msgQueue \in Seq(Announced)
  /\ deleteReq \subseteq Announced
  /\ mainPc = "add" => mainId \in Announced
  /\ peerPc # "idle" => peerId \in SummaryVector /\ peerId \in Announced

\* An entry of localidGBOFMap is the key of its own bundle.
MapsToOwnKey ==
  \A lid \in LocalId :
    localidGBOFMap[lid] \in Gbof => localidGBOFMap[lid] = GbofOf[lid]

\* A whole bundle on its way into the store is not in it.
AddIsNew ==
  mainPc = "add" /\ mainId \notin Unchecked => GbofOf[mainId] \notin Buffered

\* Without optimization, what the PeerListener's vector does not name of the
\* buffer is still listed, or dtnd was asked to send it.
SentOrListed ==
  peerPc = "send" /\ ~enableOptimization =>
    \A g \in Missing(peerId) : g \in toSend \/ <<peerId, g>> \in sent

IInv ==
  /\ TypeOK
  /\ Known
  /\ WithinCapacity
  /\ MapsToOwnKey
  /\ SummaryVectorExact
  /\ AddIsNew
  /\ OneIdPerStored
  /\ ListedAreStored
  /\ StatisticsCoverBuffer
  /\ SentOrListed

------------------------------------------------------------------------------
(* The initial state *)

\* The router and dtnd start with nothing announced and an empty store.
LEMMA InitIInv == Init => IInv
<1> SUFFICES ASSUME Init PROVE IInv
  OBVIOUS
<1> USE BundlesAssumption DEF Init
<1>1. Buffered = {}
  BY DEF Buffered
<1>2. TypeOK
  <2>1. <<>> \in Seq(SummaryVector) /\ <<>> \in Seq(EventTypes \X (LocalId \cup {NONE}))
    BY EmptySeq
  <2>2. 0 \in 0 .. MaxLosses /\ 0 \in 0 .. MaxRestarts
    OBVIOUS
  <2>3. QED
    BY <2>1, <2>2 DEF TypeOK
<1>3. Known
  BY DEF Known
<1>4. WithinCapacity
  BY <1>1, FS_EmptySet DEF WithinCapacity
<1>5. MapsToOwnKey /\ OneIdPerStored
  BY DEF MapsToOwnKey, OneIdPerStored
<1>6. SummaryVectorExact /\ AddIsNew /\ ListedAreStored
  BY <1>1 DEF SummaryVectorExact, AddIsNew, ListedAreStored
<1>7. StatisticsCoverBuffer /\ SentOrListed
  BY <1>1 DEF StatisticsCoverBuffer, SentOrListed
<1>8. QED
  BY <1>2, <1>3, <1>4, <1>5, <1>6, <1>7 DEF IInv

------------------------------------------------------------------------------
(* What is on its way *)

\* A bundle is announced by events that can happen before it is retired.
LEMMA AnnouncementType ==
  ASSUME NEW lid \in LocalId
  PROVE  Announcement(lid) \in Seq(EventsOf(lid))
<1>1. Kind[lid] \in Kinds
  BY BundlesAssumption
<1>2. \A type \in EventTypes \ {"expired", "delivery", "delivered"} :
        <<type, lid>> \in EventsOf(lid)
  BY DEF EventsOf
<1>3. <<"received", lid>> \in EventsOf(lid) /\ <<"injected", lid>> \in EventsOf(lid)
  BY <1>2 DEF EventTypes
<1>4. CASE lid \in Delivered
  <2>1. <<"delivered", lid>> \in EventsOf(lid)
    BY <1>4 DEF EventsOf, EventTypes
  <2>2. CASE Kind[lid] = "sv"
    <3>1. <<"delivery", lid>> \in EventsOf(lid)
      BY <2>2 DEF EventsOf, EventTypes, SummaryVector
    <3>2. <<<<"delivery", lid>>, <<"received", lid>>, <<"delivered", lid>>>>
            \in Seq(EventsOf(lid))
      BY <1>3, <2>1, <3>1
    <3>3. QED
      BY <2>2, <3>2 DEF Announcement
  <2>3. CASE Kind[lid] \in {"app", "group"}
    <3>1. <<<<"received", lid>>, <<"delivered", lid>>>> \in Seq(EventsOf(lid))
      BY <1>3, <2>1
    <3>2. QED
      BY <2>3, <3>1 DEF Announcement
  <2>4. QED
    BY <1>4, <2>2, <2>3 DEF Delivered
<1>5. CASE lid \notin Delivered
  <2>1. /\ <<<<"received", lid>>>> \in Seq(EventsOf(lid))
        /\ <<<<"injected", lid>>>> \in Seq(EventsOf(lid))
    BY <1>3
  <2>2. Kind[lid] \in {"transit", "injected", "medeha"}
    BY <1>1, <1>5 DEF Kinds, Delivered
  <2>3. QED
    BY <2>1, <2>2 DEF Announcement
<1>6. QED
  BY <1>4, <1>5

\* What dtnd has announced or retired stays so, and the events on their way
\* stay possible.
LEMMA KnownGrows ==
  ASSUME Announced \subseteq Announced', Retired \subseteq Retired'
  PROVE  /\ \A seq \in Seq(Happened) : seq \in Seq(Happened')
         /\ \A seq \in Seq(Announced) : seq \in Seq(Announced')
<1>1. Happened \subseteq Happened'
  BY DEF Happened
<1>2. QED
  BY <1>1, SeqMonotonic

\* A step of dtnd only moves a bundle from "new" to "pending" to "gone".
LEMMA DtndGrows ==
  ASSUME TypeOK, Known, [Next]_vars
  PROVE  /\ Announced \subseteq Announced'
         /\ Retired \subseteq Retired'
<1>1. CASE UNCHANGED dtnd
  BY <1>1 DEF Announced, Retired
<1>2. ASSUME NEW lid \in LocalId, DtndAccept(lid)
      PROVE  Announced \subseteq Announced' /\ Retired \subseteq Retired'
  BY <1>2 DEF DtndAccept, Announced, Retired, TypeOK
<1>3. ASSUME NEW lid \in LocalId, DtndExpire(lid) \/ DtndDelete(lid)
      PROVE  Announced \subseteq Announced' /\ Retired \subseteq Retired'
  BY <1>3 DEF DtndExpire, DtndDelete, Announced, Retired, TypeOK
<1>4. UNCHANGED dtnd \/ \E lid \in LocalId :
        DtndAccept(lid) \/ DtndExpire(lid) \/ DtndDelete(lid)
  <2>1. CASE UNCHANGED vars
    BY <2>1 DEF vars, dtndVars
  <2>2. CASE MainStep
    BY <2>2 DEF MainStep, Add, Expire, AddKnown, AddStored, AddFullDropLast,
       AddFullOptimized, AddFullUnknownPolicy, HandleHello, HandleReceived,
       HandleInjected, ExpireUnknown, ExpireStale, ExpireStored,
       HandleDelivered, HandleDelivery, dtndVars
  <2>3. CASE PeerStep
    BY <2>3 DEF PeerStep, PeerPop, PeerRead, PeerNoNode, PeerNoLink, PeerLock,
       PeerReply, PeerSend, dtndVars
  <2>4. CASE DtndStep
    BY <2>4 DEF DtndStep, DtndHello, LoseEvent, DtndRestart, dtndVars
  <2>5. QED
    BY <2>1, <2>2, <2>3, <2>4 DEF Next
<1>5. QED
  BY <1>1, <1>2, <1>3, <1>4

\* Everything on its way has been announced, after every step.
LEMMA KnownStep ==
  ASSUME TypeOK, Known, [Next]_vars
  PROVE  Known'
<1> USE BundlesAssumption
<1>grow. /\ Announced \subseteq Announced' /\ Retired \subseteq Retired'
         /\ events \in Seq(Happened') /\ msgQueue \in Seq(Announced')
  BY DtndGrows, KnownGrows DEF Known
<1>tail. events # <<>> => Tail(events) \in Seq(Happened')
  BY <1>grow, HeadTailProperties
<1>hands. /\ deleteReq \subseteq Announced'
          /\ mainPc = "add" => mainId \in Announced'
          /\ peerPc # "idle" => peerId \in SummaryVector /\ peerId \in Announced'
  BY <1>grow DEF Known
<1>1. CASE UNCHANGED vars
  BY <1>1, <1>grow, <1>hands
     DEF Known, vars, mainVars, peerVars, dtndVars
<1>2. ASSUME NEW lid \in LocalId, NEW type \in EventTypes, Takes(type, lid)
      PROVE  lid \in Announced' /\ <<type, lid>> \in Happened
  <2>1. events \in Seq(Happened) /\ events # <<>> /\ Head(events) = <<type, lid>>
    BY <1>2 DEF Takes, Known
  <2>2. <<type, lid>> \in Happened
    BY <2>1, HeadTailProperties
  <2>3. lid # NONE
    OBVIOUS
  <2>4. QED
    BY <2>2, <2>3, <1>grow DEF Happened
<1>3. CASE MainStep
  <2>1. CASE Add
    BY <2>1, <1>grow, <1>hands
       DEF Add, AddKnown, AddStored, AddFullDropLast, AddFullOptimized,
           AddFullUnknownPolicy, AddDone, Known, mainVars, peerVars, dtndVars
  <2>2. CASE HandleHello
    BY <2>2, <1>grow, <1>tail, <1>hands
       DEF HandleHello, Takes, Known, mainVars, peerVars, dtndVars
  <2>3. ASSUME NEW lid \in LocalId, HandleReceived(lid) \/ HandleInjected(lid)
        PROVE  Known'
    BY <2>3, <1>2, <1>grow, <1>tail, <1>hands
       DEF HandleReceived, HandleInjected, Takes, EventTypes, Known, mainVars,
           peerVars, dtndVars
  <2>4. ASSUME NEW lid \in LocalId, Expire(lid) \/ HandleDelivered(lid)
        PROVE  Known'
    BY <2>4, <1>grow, <1>tail, <1>hands
       DEF Expire, ExpireUnknown, ExpireStale, ExpireStored, HandleDelivered,
           Takes, Known, mainVars, peerVars, dtndVars
  <2>5. ASSUME NEW lid \in LocalId, HandleDelivery(lid)
        PROVE  Known'
    <3>1. msgQueue' \in Seq(Announced')
      BY <2>5, <1>2, <1>grow, AppendProperties
         DEF HandleDelivery, Takes, EventTypes
    <3>2. QED
      BY <2>5, <3>1, <1>tail, <1>hands
         DEF HandleDelivery, Takes, Known, mainVars, peerVars, dtndVars
  <2>6. QED
    BY <1>3, <2>1, <2>2, <2>3, <2>4, <2>5 DEF MainStep
<1>4. CASE PeerStep
  <2>1. CASE PeerPop
    <3>1. /\ Head(msgQueue) \in SummaryVector
          /\ Head(msgQueue) \in Announced'
          /\ Tail(msgQueue) \in Seq(Announced')
      BY <2>1, <1>grow, HeadTailProperties DEF PeerPop, TypeOK
    <3>2. QED
      BY <2>1, <3>1, <1>grow, <1>hands
         DEF PeerPop, Known, mainVars, dtndVars
  <2>2. CASE PeerRead
    BY <2>2, <1>grow, <1>hands
       DEF PeerRead, Known, mainVars, peerVars
  <2>3. CASE PeerNoNode \/ PeerNoLink
    BY <2>3, <1>grow, <1>hands
       DEF PeerNoNode, PeerNoLink, Known, mainVars, peerVars, dtndVars
  <2>4. CASE PeerLock \/ PeerReply
    BY <2>4, <1>grow, <1>hands
       DEF PeerLock, PeerReply, Known, mainVars, dtndVars
  <2>5. ASSUME NEW g \in Gbof, PeerSend(g)
        PROVE  Known'
    BY <2>5, <1>grow, <1>hands DEF PeerSend, Known, mainVars, dtndVars
  <2>6. QED
    BY <1>4, <2>1, <2>2, <2>3, <2>4, <2>5 DEF PeerStep
<1>5. CASE DtndStep
  <2>1. CASE DtndHello
    BY <2>1, <1>grow, <1>hands
       DEF DtndHello, Known, Happened, EventTypes, mainVars, peerVars, dtndVars
  <2>2. CASE LoseEvent
    BY <2>2, <1>grow, <1>tail, <1>hands
       DEF LoseEvent, Known, mainVars, peerVars
  <2>3. ASSUME NEW lid \in LocalId, DtndAccept(lid) \/ DtndRestart(lid)
        PROVE  Known'
    <3>1. lid \in Announced'
      BY <2>3 DEF DtndAccept, DtndRestart, Announced, TypeOK
    <3>2. EventsOf(lid) \subseteq Happened'
      BY <3>1 DEF EventsOf, Happened
    <3>3. Announcement(lid) \in Seq(Happened')
      BY <3>2, AnnouncementType, SeqMonotonic
    <3>4. events \o Announcement(lid) \in Seq(Happened')
      BY <3>3, <1>grow, ConcatProperties
    <3>5. QED
      BY <2>3, <3>4, <1>grow, <1>hands
         DEF DtndAccept, DtndRestart, Known, mainVars, peerVars
  <2>4. ASSUME NEW lid \in LocalId, DtndExpire(lid)
        PROVE  Known'
    <3>1. <<"expired", lid>> \in Happened'
      BY <2>4 DEF DtndExpire, Happened, Announced, Retired, EventTypes, TypeOK
    <3>2. events' \in Seq(Happened')
      BY <2>4, <3>1, <1>grow, AppendProperties DEF DtndExpire
    <3>3. QED
      BY <2>4, <3>2, <1>grow, <1>hands
         DEF DtndExpire, Known, mainVars, peerVars
  <2>5. ASSUME NEW lid \in LocalId, DtndDelete(lid)
        PROVE  Known'
    BY <2>5, <1>grow, <1>hands DEF DtndDelete, Known, mainVars, peerVars
  <2>6. QED
    BY <1>5, <2>1, <2>2, <2>3, <2>4, <2>5 DEF DtndStep
<1>6. QED
  BY <1>1, <1>3, <1>4, <1>5 DEF Next

------------------------------------------------------------------------------
(* Types *)

LEMMA TypeStep ==
  ASSUME TypeOK, Known, [Next]_vars
  PROVE  TypeOK'
<1> USE BundlesAssumption
<1>events. events' \in Seq(EventTypes \X (LocalId \cup {NONE}))
  <2>1. events' \in Seq(Happened')
    BY KnownStep DEF Known
  <2>2. Happened' \subseteq EventTypes \X (LocalId \cup {NONE})
    BY DEF Happened
  <2>3. QED
    BY <2>1, <2>2, SeqMonotonic
<1>1. CASE UNCHANGED vars
  BY <1>1 DEF TypeOK, vars, store, mainVars, peerVars, dtndVars
<1>2. CASE MainStep
  <2>1. CASE AddKnown \/ AddFullUnknownPolicy
    BY <1>events, <2>1
       DEF TypeOK, AddKnown, AddFullUnknownPolicy, AddDone, WithLock, store,
           peerVars, dtndVars
  <2>2. CASE AddStored
    BY <1>events, <2>2
       DEF TypeOK, Known, Announced, AddStored, Monitor, AddDone, WithLock,
           peerVars, dtndVars
  <2>3. CASE AddFullDropLast
    BY <1>events, <2>3 DEF TypeOK, AddFullDropLast, store, peerVars, dtndVars
  <2>4. CASE AddFullOptimized
    BY <1>events, <2>4
       DEF TypeOK, AddFullOptimized, mainVars, peerVars, dtndVars
  <2>5. CASE HandleHello
    BY <1>events, <2>5
       DEF TypeOK, HandleHello, WithLock, store, mainVars, peerVars, dtndVars
  <2>6. ASSUME NEW lid \in LocalId, HandleReceived(lid) \/ HandleInjected(lid)
        PROVE  TypeOK'
    BY <1>events, <2>6
       DEF TypeOK, HandleReceived, HandleInjected, WithLock, store, mainVars,
           peerVars, dtndVars
  <2>7. ASSUME NEW lid \in LocalId, ExpireUnknown(lid) \/ ExpireStale(lid)
        PROVE  TypeOK'
    BY <1>events, <2>7
       DEF TypeOK, ExpireUnknown, ExpireStale, WithLock, store, mainVars,
           peerVars, dtndVars
  <2>8. ASSUME NEW lid \in LocalId, ExpireStored(lid)
        PROVE  TypeOK'
    BY <1>events, <2>8
       DEF TypeOK, ExpireStored, NoLongerHeld, WithLock, mainVars, peerVars,
           dtndVars
  <2>9. ASSUME NEW lid \in LocalId, HandleDelivered(lid)
        PROVE  TypeOK'
    BY <1>events, <2>9
       DEF TypeOK, HandleDelivered, WithLock, mainVars, peerVars, dtndVars
  <2>10. ASSUME NEW lid \in LocalId, HandleDelivery(lid)
         PROVE  TypeOK'
    <3>1. events \in Seq(Happened) /\ events # <<>> /\ Head(events) = <<"delivery", lid>>
      BY <2>10 DEF HandleDelivery, Takes, Known
    <3>2. Head(events) \in Happened
      BY ONLY <3>1, HeadTailProperties
    <3>3. lid \in SummaryVector
      BY ONLY <3>1, <3>2, SMTT(30) DEF Happened
    <3>4. msgQueue' \in Seq(SummaryVector)
      BY <2>10, <3>3, AppendProperties DEF HandleDelivery, TypeOK
    <3>5. QED
      BY <1>events, <2>10, <3>4
         DEF TypeOK, HandleDelivery, store, mainVars, peerVars, dtndVars
  <2>11. QED
    BY <1>2, <2>1, <2>2, <2>3, <2>4, <2>5, <2>6, <2>7, <2>8, <2>9, <2>10
       DEF MainStep, Add, Expire
<1>3. CASE PeerStep
  <2>1. CASE PeerPop
    <3>1. Head(msgQueue) \in SummaryVector /\ Tail(msgQueue) \in Seq(SummaryVector)
      BY <2>1, HeadTailProperties DEF PeerPop, TypeOK
    <3>2. QED
      BY <1>events, <2>1, <3>1 DEF TypeOK, PeerPop, store, mainVars, dtndVars
  <2>2. CASE PeerRead
    <3>1. deleteReq' \subseteq LocalId
      BY <2>2 DEF TypeOK, Known, SummaryVector, PeerRead, peerVars
    <3>2. peerPc' \in {"idle", "read", "compare", "send"} /\ crashed' \in BOOLEAN
      BY <2>2 DEF TypeOK, PeerRead, peerVars
    <3>3. UNCHANGED <<peerId, toSend, sent, replied>>
      BY <2>2 DEF PeerRead, peerVars
    <3>4. QED
      BY <1>events, <2>2, <3>1, <3>2, <3>3 DEF TypeOK, PeerRead, store,
         mainVars
  <2>3. CASE PeerNoNode \/ PeerNoLink
    BY <1>events, <2>3
       DEF TypeOK, PeerNoNode, PeerNoLink, store, mainVars, peerVars, dtndVars
  <2>4. CASE PeerLock
    <3>1. Missing(peerId) \subseteq Gbof
      BY DEF Missing, Buffered
    <3>2. toSend' \subseteq Gbof
      BY <2>4, <3>1 DEF PeerLock, Scheduled
    <3>3. QED
      BY <1>events, <2>4, <3>2 DEF TypeOK, PeerLock, store, mainVars, dtndVars
  <2>5. ASSUME NEW g \in Gbof, PeerSend(g)
        PROVE  TypeOK'
    <3>1. <<peerId, g>> \in SummaryVector \X Gbof
      BY <2>5 DEF Known, PeerSend
    <3>2. sent' \subseteq SummaryVector \X Gbof /\ toSend' \subseteq Gbof
      BY <2>5, <3>1 DEF TypeOK, PeerSend
    <3>3. crashed' \in BOOLEAN
      BY <2>5 DEF TypeOK, PeerSend
    <3>4. QED
      BY <1>events, <2>5, <3>2, <3>3 DEF TypeOK, PeerSend, store, mainVars,
         dtndVars
  <2>6. CASE PeerReply
    BY <1>events, <2>6
       DEF TypeOK, Known, PeerReply, store, mainVars, dtndVars
  <2>7. QED
    BY <1>3, <2>1, <2>2, <2>3, <2>4, <2>5, <2>6 DEF PeerStep
<1>4. CASE DtndStep
  <2>1. CASE DtndHello \/ LoseEvent
    <3>1. CASE DtndHello
      BY <1>events, <3>1
         DEF TypeOK, DtndHello, store, mainVars, peerVars, dtndVars
    <3>2. CASE LoseEvent
      BY <1>events, <3>2
         DEF TypeOK, LoseEvent, store, mainVars, peerVars, dtndVars
    <3>3. QED
      BY <2>1, <3>1, <3>2
  <2>2. ASSUME NEW lid \in LocalId, DtndRestart(lid)
        PROVE  TypeOK'
    <3>1. restarts' \in 0 .. MaxRestarts
      BY <2>2 DEF TypeOK, DtndRestart
    <3>2. QED
      BY <1>events, <2>2, <3>1 DEF TypeOK, DtndRestart, store, mainVars,
         peerVars
  <2>3. ASSUME NEW lid \in LocalId, DtndAccept(lid) \/ DtndExpire(lid)
        PROVE  TypeOK'
    <3>1. dtnd' \in [LocalId -> {"new", "pending", "gone"}]
      BY <2>3 DEF TypeOK, DtndAccept, DtndExpire
    <3>2. QED
      BY <1>events, <2>3, <3>1 DEF TypeOK, DtndAccept, DtndExpire, store,
         mainVars, peerVars
  <2>4. ASSUME NEW lid \in LocalId, DtndDelete(lid) PROVE TypeOK'
    <3>1. /\ dtnd' \in [LocalId -> {"new", "pending", "gone"}]
          /\ deleteReq' \subseteq LocalId
      BY <2>4 DEF TypeOK, DtndDelete
    <3>2. QED
      BY <1>events, <2>4, <3>1 DEF TypeOK, DtndDelete, store, mainVars,
         peerVars
  <2>5. QED
    BY <1>4, <2>1, <2>2, <2>3, <2>4 DEF DtndStep
<1>5. QED
  BY <1>1, <1>2, <1>3, <1>4 DEF Next

------------------------------------------------------------------------------
(* The store *)

\* Only five of the main thread's steps touch the two maps.
LEMMA StoreChange ==
  ASSUME [Next]_vars
  PROVE  \/ UNCHANGED <<localidGBOFMap, activeBundles, messagesMatrix>>
         \/ AddStored \/ AddFullOptimized
         \/ \E lid \in LocalId :
              ExpireStale(lid) \/ ExpireStored(lid) \/ HandleDelivered(lid)
<1>1. CASE UNCHANGED vars
  BY <1>1 DEF vars, store
<1>2. CASE MainStep
  BY <1>2 DEF MainStep, Add, Expire, AddKnown, AddFullDropLast,
     AddFullUnknownPolicy, HandleHello, HandleReceived, HandleInjected,
     ExpireUnknown, HandleDelivery, store
<1>3. CASE PeerStep
  BY <1>3 DEF PeerStep, PeerPop, PeerRead, PeerNoNode, PeerNoLink, PeerLock,
     PeerReply, PeerSend, store
<1>4. CASE DtndStep
  BY <1>4 DEF DtndStep, DtndHello, LoseEvent, DtndAccept, DtndExpire,
     DtndDelete, DtndRestart, store
<1>5. QED
  BY <1>1, <1>2, <1>3, <1>4 DEF Next

\* What each of the steps that touch the maps does to the buffer.
LEMMA BufferChange ==
  ASSUME TypeOK, Known, [Next]_vars
  PROVE  \/ Buffered' = Buffered
         \/ /\ AddStored /\ HasRoom /\ mainId \in Announced
            /\ Buffered' = Buffered \cup {GbofOf[mainId]}
         \/ \E lid \in LocalId :
              /\ ExpireStored(lid) /\ lid \in Retired
              /\ Buffered' = Buffered \ {localidGBOFMap[lid]}
<1> USE BundlesAssumption
<1>1. CASE UNCHANGED activeBundles
  BY <1>1 DEF Buffered
<1>2. CASE AddStored
  <2>1. mainId \in Announced /\ HasRoom
    BY <1>2 DEF AddStored, Known
  <2>2. mainId # NONE /\ GbofOf[mainId] \in Gbof
    BY <2>1 DEF Announced
  <2>3. activeBundles' = [activeBundles EXCEPT ![GbofOf[mainId]] = mainId]
    BY <1>2 DEF AddStored
  <2>4. Buffered' = Buffered \cup {GbofOf[mainId]}
    BY <2>2, <2>3 DEF TypeOK, Buffered
  <2>5. QED
    BY <1>2, <2>1, <2>4
<1>3. ASSUME NEW lid \in LocalId, ExpireStored(lid)
      PROVE  lid \in Retired /\ Buffered' = Buffered \ {localidGBOFMap[lid]}
  <2>1. events \in Seq(Happened) /\ events # <<>> /\ Head(events) = <<"expired", lid>>
    BY <1>3 DEF ExpireStored, Takes, Known
  <2>2. <<"expired", lid>> \in Happened
    <3>1. Head(events) \in Happened
      BY ONLY <2>1, HeadTailProperties
    <3>2. QED
      BY <2>1, <3>1
  <2>3. lid \in Retired
    BY <2>2 DEF Happened
  <2>4. activeBundles' = [activeBundles EXCEPT ![localidGBOFMap[lid]] = NONE]
    BY <1>3 DEF ExpireStored
  <2>5. QED
    BY <2>3, <2>4 DEF TypeOK, Buffered
<1>4. QED
  BY <1>1, <1>2, <1>3, StoreChange
     DEF AddFullOptimized, ExpireStale, HandleDelivered

\* The buffer and every part of it are finite.
LEMMA BufferFinite == IsFiniteSet(Buffered) /\ Cardinality(Buffered) \in Nat
<1>1. IsFiniteSet(Buffered)
  BY BundlesAssumption, FS_Subset DEF Buffered
<1>2. QED
  BY <1>1, FS_CardinalityType

\* addIfNew adds one bundle, and only to a buffer with room for it.
LEMMA CapacityStep ==
  ASSUME TypeOK, Known, WithinCapacity, [Next]_vars
  PROVE  WithinCapacity'
<1> USE BundlesAssumption
<1>1. CASE Buffered' = Buffered
  BY <1>1 DEF WithinCapacity
<1>2. CASE HasRoom /\ Buffered' = Buffered \cup {GbofOf[mainId]}
  <2>1. Cardinality(Buffered') = IF GbofOf[mainId] \in Buffered
                                   THEN Cardinality(Buffered)
                                   ELSE Cardinality(Buffered) + 1
    BY <1>2, BufferFinite, FS_AddElement, Zenon
  <2>2. Cardinality(Buffered) + 1 <= maxBufferCapacity
    BY <1>2, BufferFinite DEF HasRoom
  <2>3. QED
    BY <2>1, <2>2, BufferFinite DEF WithinCapacity
<1>3. ASSUME NEW g, Buffered' = Buffered \ {g}
      PROVE  WithinCapacity'
  <2>1. Cardinality(Buffered') = IF g \in Buffered
                                   THEN Cardinality(Buffered) - 1
                                   ELSE Cardinality(Buffered)
    BY <1>3, BufferFinite, FS_RemoveElement, Zenon
  <2>2. QED
    BY <2>1, BufferFinite DEF WithinCapacity
<1>4. QED
  BY <1>1, <1>2, <1>3, BufferChange

\* An entry is made with the bundle's own key, or as an empty string.
LEMMA OwnKeyStep ==
  ASSUME TypeOK, Known, MapsToOwnKey, [Next]_vars
  PROVE  MapsToOwnKey'
<1> USE BundlesAssumption DEF MapsToOwnKey
<1>1. CASE UNCHANGED localidGBOFMap
  BY <1>1
<1>2. CASE AddStored
  BY <1>2 DEF AddStored, TypeOK
<1>3. CASE AddFullOptimized
  BY <1>3 DEF AddFullOptimized, TypeOK
<1>4. ASSUME NEW lid \in LocalId, ExpireStale(lid) \/ HandleDelivered(lid)
      PROVE  MapsToOwnKey'
  BY <1>4 DEF ExpireStale, HandleDelivered, TypeOK
<1>5. ASSUME NEW lid \in LocalId, ExpireStored(lid)
      PROVE  MapsToOwnKey'
  BY <1>5 DEF ExpireStored, TypeOK
<1>6. QED
  BY <1>1, <1>2, <1>3, <1>4, <1>5, StoreChange

\* An object and the entry that names it come and go together.
LEMMA VectorStep ==
  ASSUME TypeOK, Known, SummaryVectorExact, [Next]_vars
  PROVE  SummaryVectorExact'
<1> USE BundlesAssumption DEF SummaryVectorExact
<1>1. CASE UNCHANGED <<localidGBOFMap, activeBundles>>
  BY <1>1 DEF Buffered
<1>2. CASE AddStored
  <2>1. mainId \in LocalId /\ GbofOf[mainId] \in Gbof
    BY <1>2 DEF AddStored, Known, Announced
  <2>2. \A g \in Buffered : activeBundles[g] \in LocalId /\ activeBundles[g] # mainId
    BY <1>2 DEF AddStored, Buffered, TypeOK
  <2>3. QED
    BY <1>2, <2>1, <2>2 DEF AddStored, Buffered, TypeOK
<1>3. CASE AddFullOptimized
  BY <1>3 DEF AddFullOptimized, IsFull, Buffered, TypeOK
<1>4. ASSUME NEW lid \in LocalId, ExpireStale(lid) \/ HandleDelivered(lid)
      PROVE  SummaryVectorExact'
  <2>1. \A g \in Buffered : localidGBOFMap'[activeBundles[g]] = g
    BY <1>4 DEF ExpireStale, HandleDelivered, Buffered, TypeOK
  <2>2. UNCHANGED activeBundles
    BY <1>4 DEF ExpireStale, HandleDelivered
  <2>3. QED
    BY <2>1, <2>2 DEF Buffered
<1>5. ASSUME NEW lid \in LocalId, ExpireStored(lid)
      PROVE  SummaryVectorExact'
  <2> DEFINE key == localidGBOFMap[lid]
             object == activeBundles[key]
  <2>1. key \in Buffered /\ key \in Gbof /\ object \in LocalId
    BY <1>5 DEF ExpireStored, Buffered, TypeOK
  <2>2. \A g \in Buffered \ {key} :
          activeBundles[g] \in LocalId \ {lid, object}
    BY <2>1 DEF Buffered, TypeOK
  <2>3. \A other \in LocalId \ {lid, object} :
          localidGBOFMap'[other] = localidGBOFMap[other]
    BY <1>5 DEF ExpireStored, TypeOK
  <2>4. Buffered' = Buffered \ {key} /\ \A g \in Buffered' : activeBundles'[g] = activeBundles[g]
    BY <1>5, <2>1 DEF ExpireStored, Buffered, TypeOK
  <2>5. QED
    BY <2>2, <2>3, <2>4
<1>6. QED
  BY <1>1, <1>2, <1>3, <1>4, <1>5, StoreChange

\* newBundle's check for duplicates and addIfNew are two lock sections, and
\* nothing enters the store between them.
LEMMA AddIsNewStep ==
  ASSUME TypeOK, Known, AddIsNew, [Next]_vars
  PROVE  AddIsNew'
<1> USE BundlesAssumption DEF AddIsNew
<1>1. ASSUME NEW lid \in LocalId, HandleReceived(lid) \/ HandleInjected(lid)
      PROVE  AddIsNew'
  <2>1. Buffered' = Buffered
    BY <1>1 DEF HandleReceived, HandleInjected, store, Buffered
  <2>2. CASE UNCHANGED mainVars
    BY <2>1, <2>2 DEF mainVars
  <2>3. CASE mainId' = lid /\ Kind[lid] = "medeha"
    BY <2>3 DEF Unchecked
  <2>4. CASE mainId' = lid /\ ~AlreadyExists(lid)
    BY <2>1, <2>4 DEF AlreadyExists, Unchecked
  <2>5. QED
    BY <1>1, <2>2, <2>3, <2>4 DEF HandleReceived, HandleInjected
<1>2. CASE UNCHANGED mainVars
  <2>1. mainPc = "idle" \/ Buffered' \subseteq Buffered
    BY <1>2, BufferChange DEF AddStored, AddDone, mainVars
  <2>2. QED
    BY <1>2, <2>1 DEF mainVars
<1>3. CASE mainPc' # "add"
  BY <1>3
<1>4. \/ UNCHANGED mainVars \/ mainPc' # "add"
      \/ \E lid \in LocalId : HandleReceived(lid) \/ HandleInjected(lid)
  <2>1. CASE UNCHANGED vars
    BY <2>1 DEF vars
  <2>2. CASE MainStep
    BY <2>2 DEF MainStep, Add, Expire, AddKnown, AddStored, AddFullDropLast,
       AddFullOptimized, AddFullUnknownPolicy, AddDone, HandleHello,
       ExpireUnknown, ExpireStale, ExpireStored, HandleDelivered,
       HandleDelivery
  <2>3. CASE PeerStep
    BY <2>3 DEF PeerStep, PeerPop, PeerRead, PeerNoNode, PeerNoLink, PeerLock,
       PeerReply, PeerSend
  <2>4. CASE DtndStep
    BY <2>4 DEF DtndStep, DtndHello, LoseEvent, DtndAccept, DtndExpire,
       DtndDelete, DtndRestart
  <2>5. QED
    BY <2>1, <2>2, <2>3, <2>4 DEF Next
<1>5. QED
  BY <1>1, <1>2, <1>3, <1>4

\* Two ids of one key, neither of them unchecked, are never both in the maps.
LEMMA OneIdStep ==
  ASSUME TypeOK, Known, MapsToOwnKey, AddIsNew, OneIdPerStored, [Next]_vars
  PROVE  OneIdPerStored'
<1> USE BundlesAssumption DEF OneIdPerStored
<1>1. CASE UNCHANGED <<localidGBOFMap, activeBundles>>
  BY <1>1
<1>2. CASE AddStored
  <2>1. /\ mainPc = "add" /\ mainId \in LocalId /\ GbofOf[mainId] \in Gbof
        /\ localidGBOFMap' = [localidGBOFMap EXCEPT ![mainId] = GbofOf[mainId]]
        /\ activeBundles' = [activeBundles EXCEPT ![GbofOf[mainId]] = mainId]
    BY <1>2 DEF AddStored, Known, Announced
  <2>2. ASSUME NEW lid \in LocalId, lid # mainId, ~Shared(lid),
               localidGBOFMap[lid] \in Gbof
        PROVE  localidGBOFMap[lid] # GbofOf[mainId]
    <3>1. activeBundles[localidGBOFMap[lid]] = lid /\ lid # NONE
      BY <2>2
    <3>2. localidGBOFMap[lid] \in Buffered /\ localidGBOFMap[lid] = GbofOf[lid]
      BY <2>2, <3>1 DEF Buffered, MapsToOwnKey
    <3>3. GbofOf[lid] = GbofOf[mainId] => mainId \notin Unchecked
      BY <2>1, <2>2 DEF Shared
    <3>4. QED
      BY <2>1, <3>2, <3>3 DEF AddIsNew
  <2>3. QED
    BY <2>1, <2>2 DEF TypeOK
<1>3. CASE AddFullOptimized
  BY <1>3 DEF AddFullOptimized, TypeOK
<1>4. ASSUME NEW lid \in LocalId, ExpireStale(lid) \/ HandleDelivered(lid)
      PROVE  OneIdPerStored'
  <2>1. activeBundles' = activeBundles
    BY <1>4 DEF ExpireStale, HandleDelivered
  <2>2. \A l \in LocalId : \/ localidGBOFMap'[l] = localidGBOFMap[l]
                           \/ localidGBOFMap'[l] \in {NONE, EMPTY}
    BY <1>4, SMTT(30) DEF ExpireStale, HandleDelivered, TypeOK
  <2>3. NONE \notin Gbof /\ EMPTY \notin Gbof
    BY BundlesAssumption
  <2>4. QED
    BY ONLY <2>1, <2>2, <2>3, OneIdPerStored DEF OneIdPerStored, Shared
<1>5. ASSUME NEW gone \in LocalId, ExpireStored(gone)
      PROVE  OneIdPerStored'
  <2> DEFINE key == localidGBOFMap[gone]
  <2>1. /\ key \in Buffered /\ key \in Gbof
        /\ activeBundles' = [activeBundles EXCEPT ![key] = NONE]
    BY <1>5 DEF ExpireStored, Buffered
  <2>2. \A lid \in LocalId : localidGBOFMap'[lid] \in Gbof
          => lid # gone /\ localidGBOFMap'[lid] = localidGBOFMap[lid]
    BY <1>5 DEF ExpireStored, TypeOK
  <2>3. ASSUME NEW lid \in LocalId, lid # gone, ~Shared(lid),
               localidGBOFMap[lid] \in Gbof
        PROVE  localidGBOFMap[lid] # key
    <3>1. SUFFICES ASSUME localidGBOFMap[lid] = key PROVE FALSE
      OBVIOUS
    <3>2. GbofOf[lid] = key /\ GbofOf[gone] = key
      BY <2>1, <2>3, <3>1 DEF MapsToOwnKey
    <3>3. lid \notin Unchecked /\ gone \notin Unchecked
      BY <2>3, <3>2 DEF Shared
    <3>4. ~Shared(gone)
      BY <2>3, <3>2, <3>3 DEF Shared
    <3>5. activeBundles[key] = lid /\ activeBundles[key] = gone
      BY <2>1, <2>3, <3>1, <3>4
    <3>6. QED
      BY <2>3, <3>5
  <2>4. QED
    BY <2>1, <2>2, <2>3 DEF TypeOK
<1>6. QED
  BY <1>1, <1>2, <1>3, <1>4, <1>5, StoreChange

\* While the PeerListener sends, no handler that needs the lock can run.
LEMMA ListedStep ==
  ASSUME TypeOK, Known, ListedAreStored, [Next]_vars
  PROVE  ListedAreStored'
<1> USE DEF ListedAreStored
<1>1. CASE UNCHANGED vars
  BY <1>1 DEF vars, store, peerVars, Buffered
<1>2. CASE MainStep
  <2>1. UNCHANGED peerVars
    BY <1>2 DEF MainStep, Add, Expire, AddKnown, AddStored, AddFullDropLast,
       AddFullOptimized, AddFullUnknownPolicy, HandleHello, HandleReceived,
       HandleInjected, ExpireUnknown, ExpireStale, ExpireStored,
       HandleDelivered, HandleDelivery
  <2>2. bundlesLock = "free" \/ UNCHANGED <<bundlesLock, activeBundles>>
    BY <1>2 DEF MainStep, Add, Expire, AddKnown, AddStored, AddFullDropLast,
       AddFullOptimized, AddFullUnknownPolicy, HandleHello, HandleReceived,
       HandleInjected, ExpireUnknown, ExpireStale, ExpireStored,
       HandleDelivered, HandleDelivery, WithLock, store
  <2>3. QED
    BY <2>1, <2>2 DEF peerVars, Buffered
<1>3. CASE PeerStep
  <2>1. CASE PeerLock
    <3>1. toSend' \subseteq Buffered /\ bundlesLock' = "peer"
      BY <2>1 DEF PeerLock, Scheduled, Missing
    <3>2. UNCHANGED Buffered
      BY <2>1 DEF PeerLock, store, Buffered
    <3>3. QED
      BY <3>1, <3>2
  <2>2. ASSUME NEW g \in Gbof, PeerSend(g)
        PROVE  ListedAreStored'
    BY <2>2 DEF PeerSend, store, Buffered
  <2>3. CASE PeerPop \/ PeerRead \/ PeerNoNode \/ PeerNoLink \/ PeerReply
    BY <2>3 DEF PeerPop, PeerRead, PeerNoNode, PeerNoLink, PeerReply, store,
       peerVars, Buffered
  <2>4. QED
    BY <1>3, <2>1, <2>2, <2>3 DEF PeerStep
<1>4. CASE DtndStep
  BY <1>4 DEF DtndStep, DtndHello, LoseEvent, DtndAccept, DtndExpire,
     DtndDelete, DtndRestart, store, peerVars, Buffered
<1>5. QED
  BY <1>1, <1>2, <1>3, <1>4 DEF Next

\* The statistics never forget a bundle, so that the room they have only shrinks.
LEMMA MonitoredGrows ==
  ASSUME TypeOK, [Next]_vars
  PROVE  Cardinality(Monitored) <= Cardinality(Monitored')
<1>1. Monitored \subseteq Monitored'
  <2>1. CASE UNCHANGED messagesMatrix
    BY <2>1 DEF Monitored
  <2>2. CASE AddStored
    BY <2>2 DEF AddStored, Monitor, Monitored, TypeOK
  <2>3. ASSUME NEW lid \in LocalId, ExpireStored(lid)
        PROVE  Monitored \subseteq Monitored'
    BY <2>3 DEF ExpireStored, NoLongerHeld, Monitored, TypeOK
  <2>4. QED
    BY <2>1, <2>2, <2>3, StoreChange
       DEF AddFullOptimized, ExpireStale, HandleDelivered
<1>2. IsFiniteSet(Monitored')
  BY BundlesAssumption, FS_Subset DEF Monitored
<1>3. QED
  BY <1>1, <1>2, FS_Subset

\* updateBundleStatus is told the key of the object that leaves, or an empty
\* string, never the key of a bundle that stays.
LEMMA CoverStep ==
  ASSUME TypeOK, Known, SummaryVectorExact, StatisticsCoverBuffer, [Next]_vars
  PROVE  StatisticsCoverBuffer'
<1> DEFINE Room == Cardinality(Monitored) < statMessagesNumber
<1> USE BundlesAssumption
<1>1. UNCHANGED conf
  BY DEF Next, MainStep, Add, Expire, AddKnown, AddStored, AddFullDropLast,
     AddFullOptimized, AddFullUnknownPolicy, HandleHello, HandleReceived,
     HandleInjected, ExpireUnknown, ExpireStale, ExpireStored, HandleDelivered,
     HandleDelivery, PeerStep, PeerPop, PeerRead, PeerNoNode, PeerNoLink,
     PeerLock, PeerReply, PeerSend, DtndStep, DtndHello, LoseEvent, DtndAccept,
     DtndExpire, DtndDelete, DtndRestart, vars
<1>2. Cardinality(Monitored) \in Nat /\ Cardinality(Monitored') \in Nat
  <2>1. IsFiniteSet(Monitored) /\ IsFiniteSet(Monitored')
    BY FS_Subset DEF Monitored
  <2>2. QED
    BY <2>1, FS_CardinalityType
<1>3. Room' => Room
  BY <1>2, MonitoredGrows
<1>4. SUFFICES ASSUME enableOptimization, Room', Room
               PROVE  \A g \in Buffered' : messagesMatrix'[g] = "held"
  BY <1>1, <1>3 DEF StatisticsCoverBuffer, enableOptimization
<1> HIDE DEF Room
<1>5. \A g \in Buffered : messagesMatrix[g] = "held"
  BY <1>4 DEF StatisticsCoverBuffer, Room
<1>6. CASE AddStored
  <2>1. mainId \in LocalId /\ GbofOf[mainId] \in Gbof
    BY <1>6 DEF AddStored, Known, Announced
  <2>2. Buffered' = Buffered \cup {GbofOf[mainId]}
    BY <1>6, <2>1 DEF AddStored, Buffered, TypeOK
  <2>3. messagesMatrix' = [messagesMatrix EXCEPT ![GbofOf[mainId]] = "held"]
    BY <1>4, <1>6 DEF AddStored, Monitor, Room
  <2>4. QED
    BY <1>5, <2>1, <2>2, <2>3 DEF TypeOK, Buffered
<1>7. ASSUME NEW lid \in LocalId, ExpireStored(lid)
      PROVE  \A g \in Buffered' : messagesMatrix'[g] = "held"
  <2> DEFINE key == localidGBOFMap[lid]
             object == activeBundles[key]
  <2>1. /\ key \in Buffered /\ key \in Gbof /\ object \in LocalId
        /\ localidGBOFMap[object] = key
    BY <1>7 DEF ExpireStored, Buffered, TypeOK, SummaryVectorExact
  <2>2. localidGBOFMap'[object] \in {key, EMPTY, NONE}
    BY <1>7, <2>1 DEF ExpireStored, TypeOK
  <2>3. Buffered' = Buffered \ {key}
    BY <1>7, <2>1 DEF ExpireStored, Buffered, TypeOK
  <2>4. \A g \in Gbof : messagesMatrix'[g] # messagesMatrix[g]
                          => g = localidGBOFMap'[object]
    BY <1>7 DEF ExpireStored, NoLongerHeld, TypeOK
  <2>5. \A g \in Buffered' : g \in Gbof /\ g # localidGBOFMap'[object]
    BY <2>2, <2>3 DEF Buffered
  <2>6. QED
    BY <1>5, <2>3, <2>4, <2>5
<1>8. CASE UNCHANGED <<activeBundles, messagesMatrix>>
  BY <1>5, <1>8 DEF Buffered
<1>9. QED
  BY <1>6, <1>7, <1>8, StoreChange
     DEF AddFullOptimized, ExpireStale, HandleDelivered

\* The list is made under the lock, of what the tokens do not name; and while the
\* PeerListener has the lock, the buffer stays as it is.
LEMMA SentStep ==
  ASSUME TypeOK, Known, ListedAreStored, SentOrListed, [Next]_vars
  PROVE  SentOrListed'
<1> USE DEF SentOrListed
<1>1. conf' = conf
  BY DEF Next, MainStep, PeerStep, DtndStep, Add, Expire, AddKnown, AddStored,
     AddFullDropLast, AddFullOptimized, AddFullUnknownPolicy, HandleHello,
     HandleReceived, HandleInjected, ExpireUnknown, ExpireStale, ExpireStored,
     HandleDelivered, HandleDelivery, PeerPop, PeerRead, PeerNoNode, PeerNoLink,
     PeerLock, PeerReply, PeerSend, DtndHello, LoseEvent, DtndAccept, DtndExpire,
     DtndDelete, DtndRestart, vars
<1>2. CASE UNCHANGED peerVars
  <2> SUFFICES ASSUME peerPc = "send", ~enableOptimization
               PROVE  \A g \in Missing(peerId)' : g \in toSend \/ <<peerId, g>> \in sent
    BY <1>1, <1>2 DEF peerVars, enableOptimization
  <2>1. bundlesLock = "peer"
    BY DEF ListedAreStored
  <2>2. Buffered' = Buffered
    BY <2>1, BufferChange DEF AddStored, ExpireStored, WithLock
  <2>3. Missing(peerId)' = Missing(peerId)
    BY <1>2, <2>2 DEF Missing, peerVars
  <2> QED
    BY <2>3
<1>3. CASE PeerLock
  <2>1. /\ toSend' \in Scheduled(Missing(peerId)) /\ UNCHANGED <<peerId, sent>>
        /\ Buffered' = Buffered
    BY <1>3 DEF PeerLock, store, Buffered
  <2>2. ~enableOptimization => toSend' = Missing(peerId)
    BY <2>1 DEF Scheduled
  <2>3. Missing(peerId)' = Missing(peerId)
    BY <2>1 DEF Missing
  <2> QED
    BY <1>1, <2>2, <2>3 DEF enableOptimization
<1>4. ASSUME NEW g \in Gbof, PeerSend(g) PROVE SentOrListed'
  <2>1. /\ UNCHANGED <<peerPc, peerId>> /\ Buffered' = Buffered /\ peerPc = "send"
        /\ sent \subseteq sent' /\ toSend \subseteq toSend' \cup {g}
        /\ g \in toSend' \/ <<peerId, g>> \in sent'
    BY <1>4 DEF PeerSend, store, Buffered
  <2>2. Missing(peerId)' = Missing(peerId)
    BY <2>1 DEF Missing
  <2> QED
    BY <1>1, <2>1, <2>2 DEF enableOptimization
<1>5. CASE PeerPop \/ PeerRead \/ PeerNoNode \/ PeerNoLink \/ PeerReply
  <2>1. peerPc' = "send" => peerPc = "send"
    BY <1>5 DEF PeerPop, PeerRead, PeerNoNode, PeerNoLink, PeerReply, peerVars
  <2>2. peerPc = "send" => PeerReply
    BY <1>5 DEF PeerPop, PeerRead, PeerNoNode, PeerNoLink
  <2>3. PeerReply => peerPc' = "idle"
    BY DEF PeerReply
  <2> QED
    BY <2>1, <2>2, <2>3
<1>6. UNCHANGED peerVars \/ PeerStep
  BY DEF Next, MainStep, Add, Expire, AddKnown, AddStored, AddFullDropLast,
     AddFullOptimized, AddFullUnknownPolicy, HandleHello, HandleReceived,
     HandleInjected, ExpireUnknown, ExpireStale, ExpireStored, HandleDelivered,
     HandleDelivery, DtndStep, DtndHello, LoseEvent, DtndAccept, DtndExpire,
     DtndDelete, DtndRestart, vars
<1>7. QED
  BY <1>2, <1>3, <1>4, <1>5, <1>6 DEF PeerStep

------------------------------------------------------------------------------
(* The theorems *)

\* The inductive invariant holds of every state the two threads can reach.
THEOREM Invariance == Spec => []IInv
<1>1. Init => IInv
  BY InitIInv
<1>2. IInv /\ [Next]_vars => IInv'
  <2> SUFFICES ASSUME IInv, [Next]_vars PROVE IInv'
    OBVIOUS
  <2>1. TypeOK' /\ Known' /\ WithinCapacity'
    BY TypeStep, KnownStep, CapacityStep DEF IInv
  <2>2. MapsToOwnKey' /\ SummaryVectorExact' /\ AddIsNew'
    BY OwnKeyStep, VectorStep, AddIsNewStep DEF IInv
  <2>3. OneIdPerStored' /\ ListedAreStored'
    BY OneIdStep, ListedStep DEF IInv
  <2>4. StatisticsCoverBuffer' /\ SentOrListed'
    BY CoverStep, SentStep DEF IInv
  <2>5. QED
    BY <2>1, <2>2, <2>3, <2>4 DEF IInv
<1>3. QED
  BY <1>1, <1>2, PTL DEF Spec

\* Every variable keeps its type.
THEOREM TypeCorrect == Spec => []TypeOK
<1>1. IInv => TypeOK
  BY DEF IInv
<1>2. QED
  BY <1>1, Invariance, PTL

\* addIfNew never lets the buffer outgrow bundlesActiveCapacity.
THEOREM CapacityKept == Spec => []WithinCapacity
<1>1. IInv => WithinCapacity
  BY DEF IInv
<1>2. QED
  BY <1>1, Invariance, PTL

\* The summary vectors that createSV makes name exactly what is buffered.
THEOREM VectorsExact == Spec => []SummaryVectorExact
<1>1. IInv => SummaryVectorExact
  BY DEF IInv
<1>2. QED
  BY <1>1, Invariance, PTL

\* No bundle that compareAndSend has chosen is expired under its hands.
THEOREM ListStaysValid == Spec => []ListedAreStored
<1>1. IInv => ListedAreStored
  BY DEF IInv
<1>2. QED
  BY <1>1, Invariance, PTL

\* Whole bundles are never stored under two local ids.
THEOREM NoDuplicates == Spec => []OneIdPerStored
<1>1. IInv => OneIdPerStored
  BY DEF IInv
<1>2. QED
  BY <1>1, Invariance, PTL

\* With optimization on, and until the statistics are full, they count this node
\* as a holder of every bundle it buffers.
THEOREM StatisticsComplete == Spec => []StatisticsCoverBuffer
<1>1. IInv => StatisticsCoverBuffer
  BY DEF IInv
<1>2. QED
  BY <1>1, Invariance, PTL

\* What compareAndSend has asked dtnd to send, by the time it gives bundlesLock
\* back, is all that the buffer then holds and the vector did not name.
THEOREM NothingPassedOver == Spec => ServedInFull
<1>1. ASSUME IInv, [Next]_vars, peerPc = "send", peerPc' = "idle", ~enableOptimization,
             NEW g \in Missing(peerId)
      PROVE  <<peerId, g>> \in sent
  <2>1. g \in toSend \/ <<peerId, g>> \in sent
    BY <1>1 DEF IInv, SentOrListed
  <2>2. PeerReply
    BY <1>1 DEF Next, MainStep, PeerStep, DtndStep, Add, Expire, AddKnown, AddStored,
       AddFullDropLast, AddFullOptimized, AddFullUnknownPolicy, HandleHello,
       HandleReceived, HandleInjected, ExpireUnknown, ExpireStale, ExpireStored,
       HandleDelivered, HandleDelivery, PeerPop, PeerRead, PeerNoNode, PeerNoLink,
       PeerLock, PeerSend, DtndHello, LoseEvent, DtndAccept, DtndExpire,
       DtndDelete, DtndRestart, vars, peerVars
  <2>3. toSend = {}
    BY <2>2 DEF PeerReply
  <2> QED
    BY <2>1, <2>3
<1>2. IInv /\ [Next]_vars =>
        [peerPc = "send" /\ peerPc' = "idle" /\ ~enableOptimization
           => \A g \in Missing(peerId) : <<peerId, g>> \in sent]_vars
  BY <1>1
<1>3. QED
  BY <1>2, Invariance, PTL DEF Spec, ServedInFull

------------------------------------------------------------------------------
(* Which expiries leak the semaphore *)

\* The i-th event of s is the expiry of lid.
Expires(s, lid, i) == i \in 1 .. Len(s) /\ s[i] = <<"expired", lid>>

\* dtnd retires a bundle once, and says so at most once.
OneExpiry ==
  \A lid \in LocalId : \A i, j \in 1 .. Len(events) :
    Expires(events, lid, i) /\ Expires(events, lid, j) => i = j

\* eventDelivered makes an empty entry, for what dtnd delivers here; expire
\* makes another of the bundle that has just expired, and will not again.
EmptyCause ==
  ~crashed =>
    \A lid \in LocalId : localidGBOFMap[lid] = EMPTY =>
      \/ lid \in Delivered
      \/ lid \in Retired /\ \A i \in 1 .. Len(events) : ~Expires(events, lid, i)

LeakInv == OneExpiry /\ EmptyCause /\ LeakNeedsLocalDelivery

\* What one step does to the expiries on their way.
LEMMA ExpiriesStep ==
  ASSUME TypeOK, Known, OneExpiry, [Next]_vars
  PROVE  /\ OneExpiry'
         /\ \A lid \in LocalId : \A i \in 1 .. Len(events') : Expires(events', lid, i)
              => \/ \E j \in 1 .. Len(events) : Expires(events, lid, j)
                 \/ lid \notin Retired
<1> DEFINE Later == /\ OneExpiry'
                    /\ \A lid \in LocalId : \A i \in 1 .. Len(events') :
                         Expires(events', lid, i)
                           => \/ \E j \in 1 .. Len(events) : Expires(events, lid, j)
                              \/ lid \notin Retired
<1>e. events \in Seq(Happened) /\ Len(events) \in Nat
  BY DEF Known
<1>1. CASE events' = events
  BY <1>1 DEF OneExpiry
<1>2. CASE events # <<>> /\ events' = Tail(events)
  <2>1. /\ Len(events') \in Nat /\ Len(events) = Len(events') + 1
        /\ \A i \in 1 .. Len(events') : events'[i] = events[i + 1]
    BY <1>e, <1>2
  <2>2. \A lid \in LocalId : \A i \in 1 .. Len(events') :
          Expires(events', lid, i) => i + 1 \in 1 .. Len(events)
                                      /\ Expires(events, lid, i + 1)
    BY <2>1 DEF Expires
  <2>3. ASSUME NEW lid \in LocalId, NEW i \in 1 .. Len(events'), NEW j \in 1 .. Len(events'),
               Expires(events', lid, i), Expires(events', lid, j)
        PROVE  i = j
    <3>1. i + 1 = j + 1
      BY <2>2, <2>3 DEF OneExpiry
    <3> QED
      BY <2>1, <3>1
  <2> QED
    BY <2>2, <2>3 DEF OneExpiry
\* More events, of which none is an expiry.
<1>3. ASSUME NEW news \in Seq(EventTypes \X (LocalId \cup {NONE})),
             events' = events \o news,
             \A k \in 1 .. Len(news) : news[k][1] # "expired"
      PROVE  Later
  <2>1. /\ Len(events') = Len(events) + Len(news) /\ Len(news) \in Nat
        /\ \A i \in 1 .. Len(events) : events'[i] = events[i]
        /\ \A i \in 1 .. Len(events') :
             i > Len(events) => /\ i - Len(events) \in 1 .. Len(news)
                                /\ events'[i] = news[i - Len(events)]
    BY <1>e, <1>3
  <2>2. ASSUME NEW lid \in LocalId, NEW i \in 1 .. Len(events'), Expires(events', lid, i)
        PROVE  i \in 1 .. Len(events) /\ Expires(events, lid, i)
    <3>1. events'[i][1] = "expired"
      BY <2>2 DEF Expires
    <3>2. ~(i > Len(events))
      BY <1>3, <2>1, <3>1
    <3>3. i \in 1 .. Len(events)
      BY <1>e, <2>1, <3>2
    <3> QED
      BY <2>1, <2>2, <3>3 DEF Expires
  <2> QED
    BY <2>2 DEF OneExpiry
<1>4. ASSUME NEW gone \in LocalId, DtndExpire(gone) PROVE Later
  <2>1. /\ events' = Append(events, <<"expired", gone>>) /\ gone \notin Retired
        /\ dtnd[gone] = "pending"
    BY <1>4 DEF DtndExpire, Retired
  <2>2. \A i \in 1 .. Len(events) : ~Expires(events, gone, i)
    <3> SUFFICES ASSUME NEW i \in 1 .. Len(events), Expires(events, gone, i)
                 PROVE  FALSE
      OBVIOUS
    <3>1. events[i] \in Happened /\ events[i] = <<"expired", gone>>
      BY <1>e DEF Expires
    <3> QED
      BY <2>1, <3>1 DEF Happened
  <2>3. /\ Len(events') = Len(events) + 1
        /\ \A i \in 1 .. Len(events) : events'[i] = events[i]
        /\ events'[Len(events) + 1] = <<"expired", gone>>
    BY <1>e, <2>1
  <2>4. ASSUME NEW lid \in LocalId, NEW i \in 1 .. Len(events'), Expires(events', lid, i)
        PROVE  IF lid = gone THEN i = Len(events) + 1
               ELSE i \in 1 .. Len(events) /\ Expires(events, lid, i)
    <3>1. CASE i = Len(events) + 1
      BY <2>3, <2>4, <3>1 DEF Expires
    <3>2. CASE i \in 1 .. Len(events)
      BY <2>2, <2>3, <2>4, <3>2 DEF Expires
    <3> QED
      BY <1>e, <2>3, <3>1, <3>2
  <2> QED
    BY <2>1, <2>4 DEF OneExpiry
<1>5. CASE DtndHello
  <2>1. <<"hello", NONE>> \in EventTypes \X (LocalId \cup {NONE})
    BY DEF EventTypes
  <2> DEFINE news == << <<"hello", NONE>> >>
  <2>2. /\ news \in Seq(EventTypes \X (LocalId \cup {NONE}))
        /\ \A k \in 1 .. Len(news) : news[k][1] # "expired"
    BY <2>1
  <2>3. events' = events \o news
    BY <1>5 DEF DtndHello
  <2> HIDE DEF news
  <2> QED
    BY <1>3, <2>2, <2>3
<1>6. ASSUME NEW lid \in LocalId, DtndAccept(lid) \/ DtndRestart(lid) PROVE Later
  <2> DEFINE news == Announcement(lid)
  <2>1. news \in Seq(EventsOf(lid))
    BY AnnouncementType
  <2>2. events' = events \o news
    BY <1>6 DEF DtndAccept, DtndRestart
  <2> HIDE DEF news
  <2>3. EventsOf(lid) \subseteq EventTypes \X (LocalId \cup {NONE})
    BY DEF EventsOf
  <2>4. news \in Seq(EventTypes \X (LocalId \cup {NONE}))
    BY <2>1, <2>3, SeqMonotonic
  <2>5. \A k \in 1 .. Len(news) : news[k][1] # "expired"
    BY <2>1 DEF EventsOf
  <2> QED
    BY <1>3, <2>2, <2>4, <2>5
<1>7. \/ events' = events \/ (events # <<>> /\ events' = Tail(events)) \/ DtndHello
      \/ \E lid \in LocalId : DtndExpire(lid) \/ DtndAccept(lid) \/ DtndRestart(lid)
  <2>1. CASE UNCHANGED vars
    BY <2>1 DEF vars
  <2>2. CASE MainStep
    BY <2>2 DEF MainStep, Add, Expire, AddKnown, AddStored, AddFullDropLast,
       AddFullOptimized, AddFullUnknownPolicy, HandleHello, HandleReceived,
       HandleInjected, ExpireUnknown, ExpireStale, ExpireStored,
       HandleDelivered, HandleDelivery, Takes
  <2>3. CASE PeerStep
    BY <2>3 DEF PeerStep, PeerPop, PeerRead, PeerNoNode, PeerNoLink, PeerLock,
       PeerReply, PeerSend
  <2>4. CASE DtndStep
    BY <2>4 DEF DtndStep, LoseEvent, DtndDelete
  <2> QED
    BY <2>1, <2>2, <2>3, <2>4 DEF Next
<1> QED
  BY <1>1, <1>2, <1>4, <1>5, <1>6, <1>7

\* The first event has happened, and an expiry is not announced again.
LEMMA TakenHappened ==
  ASSUME Known, OneExpiry, NEW type, NEW lid \in LocalId, Takes(type, lid)
  PROVE  /\ <<type, lid>> \in Happened
         /\ type = "expired" =>
              \A i \in 1 .. Len(events') : ~Expires(events', lid, i)
<1>1. events \in Seq(Happened) /\ events # <<>> /\ Head(events) = <<type, lid>>
      /\ events' = Tail(events)
  BY DEF Takes, Known
<1>2. /\ Len(events') \in Nat /\ Len(events) = Len(events') + 1
      /\ \A i \in 1 .. Len(events') : events'[i] = events[i + 1]
      /\ events[1] = <<type, lid>> /\ events[1] \in Happened
  BY <1>1
<1>3. ASSUME type = "expired", NEW i \in 1 .. Len(events'), Expires(events', lid, i)
      PROVE  FALSE
  <2>1. i + 1 \in 1 .. Len(events) /\ 1 \in 1 .. Len(events) /\ i + 1 # 1
    BY <1>2
  <2>2. Expires(events, lid, i + 1) /\ Expires(events, lid, 1)
    BY <1>2, <1>3, <2>1 DEF Expires
  <2> QED
    BY <2>1, <2>2 DEF OneExpiry
<1> QED
  BY <1>2, <1>3

LEMMA EmptyStep ==
  ASSUME IInv, OneExpiry, EmptyCause, [Next]_vars
  PROVE  EmptyCause'
<1> USE BundlesAssumption
<1>i. TypeOK /\ Known /\ SummaryVectorExact
  BY DEF IInv
<1> SUFFICES ASSUME ~crashed', NEW lid \in LocalId, localidGBOFMap'[lid] = EMPTY
             PROVE  \/ lid \in Delivered
                    \/ /\ lid \in Retired'
                       /\ \A i \in 1 .. Len(events') : ~Expires(events', lid, i)
  BY DEF EmptyCause
<1>1. CASE localidGBOFMap[lid] = EMPTY /\ ~crashed
  <2>1. lid \notin Delivered =>
          lid \in Retired /\ \A i \in 1 .. Len(events) : ~Expires(events, lid, i)
    BY <1>1 DEF EmptyCause
  <2> QED
    BY <1>i, <2>1, ExpiriesStep, DtndGrows
<1>2. ~crashed
  BY DEF Next, MainStep, Add, AddKnown, AddStored, AddFullDropLast, AddFullOptimized,
     AddFullUnknownPolicy, HandleHello, HandleReceived, HandleInjected, Expire,
     ExpireUnknown, ExpireStale, ExpireStored, HandleDelivered, HandleDelivery,
     Takes, PeerStep, PeerPop, PeerRead, PeerNoNode, PeerNoLink, PeerLock,
     PeerReply, PeerSend, DtndStep, DtndHello, LoseEvent, DtndAccept, DtndExpire,
     DtndDelete, DtndRestart, vars
<1>3. CASE localidGBOFMap[lid] # EMPTY
  <2>1. CASE AddStored
    BY <1>i, <1>3, <2>1 DEF AddStored, Known, Announced, TypeOK
  <2>2. CASE AddFullOptimized
    BY <2>2 DEF AddFullOptimized
  <2>3. ASSUME NEW l \in LocalId, ExpireStale(l) PROVE FALSE
    BY <1>i, <1>3, <2>3 DEF ExpireStale, TypeOK
  <2>4. ASSUME NEW l \in LocalId, HandleDelivered(l) PROVE lid \in Delivered
    <3>1. l = lid
      BY <1>i, <1>3, <2>4 DEF HandleDelivered, TypeOK
    <3>2. Takes("delivered", lid)
      BY <2>4, <3>1 DEF HandleDelivered
    <3>3. <<"delivered", lid>> \in Happened
      BY <1>i, <3>2, TakenHappened
    <3> QED
      BY <3>3 DEF Happened
  <2>5. ASSUME NEW l \in LocalId, ExpireStored(l)
        PROVE  /\ lid \in Retired'
               /\ \A i \in 1 .. Len(events') : ~Expires(events', lid, i)
    <3> DEFINE key == localidGBOFMap[l]
               object == activeBundles[key]
               erased == [localidGBOFMap EXCEPT ![l] = NONE]
    <3>1. key \in Buffered /\ object \in LocalId /\ localidGBOFMap[object] = key
      BY <1>i, <2>5 DEF ExpireStored, Buffered, SummaryVectorExact, TypeOK
    <3>2. /\ localidGBOFMap' = IF enableOptimization /\ erased[object] = NONE
                                 THEN [erased EXCEPT ![object] = EMPTY] ELSE erased
          /\ Takes("expired", l)
      BY <2>5 DEF ExpireStored
    <3>3. lid = object /\ erased[object] = NONE
      BY <1>i, <1>3, <3>1, <3>2 DEF TypeOK
    <3>4. object = l
      BY <1>i, <3>1, <3>3 DEF TypeOK, Buffered
    <3>5. /\ <<"expired", lid>> \in Happened
          /\ \A i \in 1 .. Len(events') : ~Expires(events', lid, i)
      BY <1>i, <3>2, <3>3, <3>4, TakenHappened
    <3> QED
      BY <1>i, <3>5, DtndGrows DEF Happened
  <2> QED
    BY <1>3, <2>1, <2>2, <2>3, <2>4, <2>5, StoreChange
<1> QED
  BY <1>1, <1>2, <1>3

\* The expiry that forgets the semaphore is that of such a bundle.
LEMMA StaleCause ==
  ASSUME IInv, EmptyCause, OneExpiry, [Next]_vars,
         NEW lid \in LocalId, ExpireStale(lid)
  PROVE  dtnd'[lid] = "gone" /\ (lid \in Delivered \/ Shared(lid))
<1>i. TypeOK /\ Known /\ OneIdPerStored
  BY DEF IInv
<1>1. /\ Takes("expired", lid) /\ ~crashed
      /\ localidGBOFMap[lid] # NONE /\ localidGBOFMap[lid] \notin Buffered
  BY DEF ExpireStale, Takes
<1>2. lid \in Retired
  BY <1>i, <1>1, TakenHappened DEF Happened
<1>3. CASE localidGBOFMap[lid] = EMPTY
  <2>1. 1 \in 1 .. Len(events) /\ Expires(events, lid, 1)
    <3>1. events \in Seq(Happened) /\ events # <<>> /\ Head(events) = <<"expired", lid>>
      BY <1>i, <1>1 DEF Takes, Known
    <3> QED
      BY <3>1 DEF Expires
  <2>2. lid \in Delivered
    BY <1>1, <1>3, <2>1 DEF EmptyCause
  <2> QED
    BY <1>i, <1>2, <2>2, DtndGrows DEF Retired
<1>4. CASE localidGBOFMap[lid] \in Gbof
  <2>1. activeBundles[localidGBOFMap[lid]] = NONE
    BY <1>1, <1>4 DEF Buffered
  <2>2. Shared(lid)
    BY <1>i, <1>4, <2>1, BundlesAssumption DEF OneIdPerStored
  <2> QED
    BY <1>i, <1>2, <2>2, DtndGrows DEF Retired
<1> QED
  BY <1>i, <1>1, <1>3, <1>4 DEF TypeOK

\* The semaphore is left taken by expire alone.
LEMMA LeakStep ==
  ASSUME IInv, EmptyCause, OneExpiry, LeakNeedsLocalDelivery, [Next]_vars
  PROVE  LeakNeedsLocalDelivery'
<1>i. TypeOK /\ Known /\ OneIdPerStored
  BY DEF IInv
<1> SUFFICES ASSUME LockLeaked'
             PROVE  \E lid \in LocalId :
                      dtnd'[lid] = "gone" /\ (lid \in Delivered \/ Shared(lid))
  BY DEF LeakNeedsLocalDelivery, Shared
<1>1. CASE LockLeaked
  <2>1. PICK lid \in Retired : lid \in Delivered \/ Shared(lid)
    BY <1>1 DEF LeakNeedsLocalDelivery, Retired
  <2> QED
    BY <1>i, <2>1, DtndGrows DEF Retired
<1>2. ASSUME NEW lid \in LocalId, ExpireStale(lid)
      PROVE  dtnd'[lid] = "gone" /\ (lid \in Delivered \/ Shared(lid))
  BY <1>2, StaleCause
<1>3. LockLeaked \/ \E lid \in LocalId : ExpireStale(lid)
  <2>1. CASE UNCHANGED vars
    BY <2>1 DEF vars, mainVars, LockLeaked
  <2>2. CASE MainStep
    BY <2>2 DEF MainStep, Add, Expire, AddKnown, AddStored, AddFullDropLast,
       AddFullOptimized, AddFullUnknownPolicy, HandleHello, HandleReceived,
       HandleInjected, ExpireUnknown, ExpireStored, HandleDelivered,
       HandleDelivery, Takes, WithLock, mainVars, LockLeaked
  <2>3. CASE PeerStep
    BY <2>3 DEF PeerStep, PeerPop, PeerRead, PeerNoNode, PeerNoLink, PeerLock,
       PeerReply, PeerSend, mainVars, LockLeaked
  <2>4. CASE DtndStep
    BY <2>4 DEF DtndStep, DtndHello, LoseEvent, DtndAccept, DtndExpire,
       DtndDelete, DtndRestart, mainVars, LockLeaked
  <2> QED
    BY <2>1, <2>2, <2>3, <2>4 DEF Next
<1> QED
  BY <1>1, <1>2, <1>3

LEMMA LeakInvariance == Spec => []LeakInv
<1>1. Init => LeakInv
  <2> SUFFICES ASSUME Init PROVE LeakInv
    OBVIOUS
  <2>1. /\ events = <<>> /\ \A lid \in LocalId : localidGBOFMap[lid] = NONE
        /\ bundlesLock = "free"
    BY DEF Init
  <2> QED
    BY <2>1, BundlesAssumption
    DEF LeakInv, OneExpiry, EmptyCause, LeakNeedsLocalDelivery, LockLeaked
<1>2. IInv /\ LeakInv /\ [Next]_vars => LeakInv'
  BY ExpiriesStep, EmptyStep, LeakStep DEF LeakInv, IInv
<1> QED
  BY <1>1, <1>2, Invariance, PTL DEF Spec

\* Bundles::expire returns without leaveBundlesLock for a local id whose key is
\* not stored: only that of a bundle dtnd delivered to this node, or of one that
\* shares its key.  A router that carries whole transit bundles never meets it.
THEOREM LeakCause == Spec => []LeakNeedsLocalDelivery
<1>1. LeakInv => LeakNeedsLocalDelivery
  BY DEF LeakInv
<1> QED
  BY <1>1, LeakInvariance, PTL

------------------------------------------------------------------------------
(* Who has the lock *)

\* The steps that take the lock, or give it back.
LEMMA LockChange ==
  ASSUME [Next]_vars
  PROVE  \/ bundlesLock' = bundlesLock /\ (peerPc' = "send" <=> peerPc = "send")
         \/ AddFullDropLast \/ AddFullOptimized \/ PeerLock \/ PeerReply
         \/ \E lid \in LocalId : ExpireStale(lid)
<1>1. CASE UNCHANGED vars
  BY <1>1 DEF vars, peerVars
<1>2. CASE MainStep
  BY <1>2 DEF MainStep, Add, Expire, AddKnown, AddStored, AddFullUnknownPolicy,
     HandleHello, HandleReceived, HandleInjected, ExpireUnknown, ExpireStored,
     HandleDelivered, HandleDelivery, WithLock, peerVars
<1>3. CASE PeerStep
  BY <1>3 DEF PeerStep, PeerPop, PeerRead, PeerNoNode, PeerNoLink, PeerSend,
     peerVars
<1>4. CASE DtndStep
  BY <1>4 DEF DtndStep, DtndHello, LoseEvent, DtndAccept, DtndExpire,
     DtndDelete, DtndRestart, peerVars
<1> QED
  BY <1>1, <1>2, <1>3, <1>4 DEF Next

\* No step leads out of "remove", and none out of the end of the process.
LEMMA StoppedStays ==
  ASSUME [Next]_vars
  PROVE  /\ mainPc = "remove" => mainPc' = "remove"
         /\ crashed => crashed'
<1>1. CASE UNCHANGED vars
  BY <1>1 DEF vars, mainVars
<1>2. CASE MainStep
  BY <1>2 DEF MainStep, Add, Expire, AddKnown, AddStored, AddFullDropLast,
     AddFullOptimized, AddFullUnknownPolicy, HandleHello, HandleReceived,
     HandleInjected, ExpireUnknown, ExpireStale, ExpireStored, HandleDelivered,
     HandleDelivery, Takes
<1>3. CASE PeerStep
  BY <1>3 DEF PeerStep, PeerPop, PeerRead, PeerNoNode, PeerNoLink, PeerLock,
     PeerReply, PeerSend, mainVars
<1>4. CASE DtndStep
  BY <1>4 DEF DtndStep, DtndHello, LoseEvent, DtndAccept, DtndExpire,
     DtndDelete, DtndRestart, mainVars
<1> QED
  BY <1>1, <1>2, <1>3, <1>4 DEF Next

LEMMA LockStep ==
  ASSUME IInv, LeakInv, LockForCause, [Next]_vars
  PROVE  LockForCause'
<1>i. TypeOK /\ Known
  BY DEF IInv
<1>1. CASE bundlesLock' = bundlesLock /\ (peerPc' = "send" <=> peerPc = "send")
  <2>1. ASSUME bundlesLock = "main" PROVE Buffered' = Buffered
    BY <1>i, <2>1, BufferChange DEF AddStored, ExpireStored, WithLock
  <2>2. ASSUME bundlesLock = "main", StoppedFull PROVE StoppedFull'
    BY <2>1, <2>2, StoppedStays DEF StoppedFull, HasRoom
  <2>3. ASSUME NEW lid \in LocalId, ForgottenFor(lid) PROVE ForgottenFor(lid)'
    <3>1. lid \in Retired'
      BY <1>i, <2>3, DtndGrows DEF ForgottenFor, Retired
    <3> QED
      BY <2>3, <3>1 DEF ForgottenFor, Retired, Shared
  <2> QED
    BY <1>1, <2>2, <2>3 DEF LockForCause
<1>2. CASE AddFullDropLast \/ AddFullOptimized
  <2>1. /\ bundlesLock = "free" /\ bundlesLock' = "main"
        /\ ~HasRoom /\ UNCHANGED <<peerPc, activeBundles>>
        /\ mainPc' = "remove" \/ crashed'
    BY <1>2 DEF AddFullDropLast, AddFullOptimized, IsFull, peerVars, store
  <2>2. StoppedFull'
    BY <2>1 DEF StoppedFull, HasRoom, Buffered
  <2> QED
    BY <2>1, <2>2 DEF LockForCause
<1>3. CASE PeerLock \/ PeerReply
  BY <1>3 DEF PeerLock, PeerReply, LockForCause
<1>4. ASSUME NEW lid \in LocalId, ExpireStale(lid) PROVE LockForCause'
  <2>1. ForgottenFor(lid)'
    BY <1>4, StaleCause DEF LeakInv, ForgottenFor, Shared
  <2>2. bundlesLock = "free" /\ bundlesLock' = "main" /\ UNCHANGED peerPc
    BY <1>4 DEF ExpireStale, peerVars
  <2> QED
    BY <2>1, <2>2 DEF LockForCause
<1> QED
  BY <1>1, <1>2, <1>3, <1>4, LockChange

\* A thread that waits for bundlesLock waits for the PeerListener's sends, which
\* end, unless the main thread has stopped over a full buffer (addIfNew) or has
\* forgotten the lock over a bundle that was delivered here or shares its key
\* (expire): no order of the two threads' steps blocks the router otherwise.
THEOREM LockHolders == Spec => []LockForCause
<1>1. Init => LockForCause
  BY DEF Init, LockForCause
<1>2. IInv /\ LeakInv /\ LockForCause /\ [Next]_vars => LockForCause'
  BY LockStep
<1>3. Spec => []LeakInv
  BY LeakInvariance
<1> QED
  BY <1>1, <1>2, <1>3, Invariance, PTL DEF Spec

------------------------------------------------------------------------------
(* Refinement *)

\* The two instances of FiniteSets count alike.
LEMMA SameCardinality == \A S : Store!Cardinality(S) = Cardinality(S)
  BY Zenon DEF Store!Cardinality, Cardinality

\* Each step of the router or of dtnd is a step of the abstract store, or none.
LEMMA StepSimulation ==
  ASSUME IInv, [Next]_vars
  PROVE  [Store!Next]_(Store!vars)
<1> USE BundlesAssumption
<1>known. TypeOK /\ Known
  BY DEF IInv
<1>1. ASSUME NEW lid \in LocalId, Buffered' = Buffered,
             DtndAccept(lid) \/ DtndExpire(lid) \/ DtndDelete(lid)
      PROVE  [Store!Next]_(Store!vars)
  <2>1. CASE DtndAccept(lid)
    BY <1>1, <2>1 DEF DtndAccept, Store!Next, Store!Announce
  <2>2. CASE DtndExpire(lid) \/ DtndDelete(lid)
    <3>1. dtnd[lid] # "new"
      BY <1>known, <2>2 DEF DtndExpire, DtndDelete, Known, Announced
    <3>2. Store!Retire(lid)
      BY <1>1, <2>2, <3>1 DEF DtndExpire, DtndDelete, Store!Retire
    <3>3. QED
      BY <3>2 DEF Store!Next
  <2>3. QED
    BY <1>1, <2>1, <2>2
<1>2. CASE AddStored /\ HasRoom /\ mainId \in Announced
           /\ Buffered' = Buffered \cup {GbofOf[mainId]}
  <2>1. Store!Store(mainId)
    BY <1>2, SameCardinality DEF AddStored, HasRoom, Announced, dtndVars,
       Store!Store
  <2>2. QED
    BY <1>2, <2>1 DEF Announced, Store!Next
<1>3. ASSUME NEW lid \in LocalId, ExpireStored(lid), lid \in Retired,
             Buffered' = Buffered \ {localidGBOFMap[lid]}
      PROVE  [Store!Next]_(Store!vars)
  <2>1. localidGBOFMap[lid] = GbofOf[lid]
    BY <1>3 DEF IInv, MapsToOwnKey, ExpireStored, Buffered
  <2>2. Store!Discard(lid)
    BY <1>3, <2>1 DEF ExpireStored, Retired, dtndVars, Store!Discard
  <2>3. QED
    BY <2>2 DEF Store!Next
<1>4. CASE Buffered' = Buffered /\ UNCHANGED dtnd
  BY <1>4 DEF Store!vars
<1>5. \/ UNCHANGED dtnd
      \/ /\ Buffered' = Buffered
         /\ \E lid \in LocalId :
              DtndAccept(lid) \/ DtndExpire(lid) \/ DtndDelete(lid)
  <2>1. CASE DtndStep
    BY <2>1 DEF DtndStep, DtndHello, LoseEvent, DtndAccept, DtndExpire,
       DtndDelete, DtndRestart, dtndVars, store, Buffered
  <2>2. CASE UNCHANGED vars
    BY <2>2 DEF vars, dtndVars
  <2>3. CASE MainStep
    BY <2>3 DEF MainStep, Add, Expire, AddKnown, AddStored, AddFullDropLast,
       AddFullOptimized, AddFullUnknownPolicy, HandleHello, HandleReceived,
       HandleInjected, ExpireUnknown, ExpireStale, ExpireStored,
       HandleDelivered, HandleDelivery, dtndVars
  <2>4. CASE PeerStep
    BY <2>4 DEF PeerStep, PeerPop, PeerRead, PeerNoNode, PeerNoLink, PeerLock,
       PeerReply, PeerSend, dtndVars
  <2>5. QED
    BY <2>1, <2>2, <2>3, <2>4 DEF Next
<1>6. QED
  BY <1>known, <1>1, <1>2, <1>3, <1>4, <1>5, BufferChange

\* The two maps, the lock and the threads implement the abstract store: a key
\* enters for an announced bundle while there is room, and leaves for a retired
\* one.
THEOREM Refinement == Spec => StoreSpec
<1>1. Init => Store!Init
  BY DEF Init, Buffered, Store!Init
<1>2. IInv /\ [Next]_vars => [Store!Next]_(Store!vars)
  BY StepSimulation
<1>3. QED
  BY <1>1, <1>2, Invariance, PTL DEF Spec, StoreSpec, Store!Spec

\* A key leaves the buffer in a step only if dtnd has retired a bundle of that
\* key before it.
KeepsUnretired ==
  \A g \in Buffered :
    g \in Buffered' \/ \E lid \in Retired : GbofOf[lid] = g

\* Neither a full buffer, nor the delivery, the repetition or the loss of an
\* event, nor a session makes expire or another handler drop a bundle that dtnd
\* still has: what the router buffers stays until dtnd retires it.
THEOREM KeptUntilRetired == Spec => [][KeepsUnretired]_vars
<1>1. ASSUME IInv, [Next]_vars PROVE KeepsUnretired
  <2> SUFFICES ASSUME NEW g \in Buffered, g \notin Buffered'
               PROVE  \E lid \in Retired : GbofOf[lid] = g
    BY DEF KeepsUnretired
  <2>1. PICK lid \in LocalId :
          /\ ExpireStored(lid) /\ lid \in Retired
          /\ Buffered' = Buffered \ {localidGBOFMap[lid]}
    BY <1>1, BufferChange DEF IInv
  <2>2. localidGBOFMap[lid] = g /\ g \in Gbof
    BY <2>1 DEF Buffered
  <2> QED
    BY <1>1, <2>1, <2>2 DEF IInv, MapsToOwnKey
<1>2. IInv /\ [Next]_vars => [KeepsUnretired]_vars
  BY <1>1
<1> QED
  BY <1>2, Invariance, PTL DEF Spec
=============================================================================
