------------------------------- MODULE Session -------------------------------
(***************************************************************************)
(* Two nodes in contact: at each a dtnd, which has the bundles, and an     *)
(* HBSD router, which knows of them from dtnd's events (Bundles.cpp) and   *)
(* tells dtnd which to send.  The router with the smaller EID begins an    *)
(* epidemic session: it sends a summary vector, the other answers with the *)
(* bundles the vector does not name and, if need be, with a vector of its  *)
(* own, which the first answers with bundles.                              *)
(*                                                                         *)
(*   app -> dtnd --events--> main thread --msgQueue--> PeerListener        *)
(*           | ^                                            |              *)
(*    link   | +--------------- send requests --------------+              *)
(*           v                                                             *)
(*         dtnd of the other node                                          *)
(*                                                                         *)
(* Each router here is Bundles without what goes on in it: a handler and a *)
(* compareAndSend are one step each (the lock keeps the buffer as it is in *)
(* between), the buffer is never full, optimization is off, no datagram of *)
(* dtnd is lost, a vector that arrives is read within its lifetime of 30   *)
(* seconds, and a bundle's application is registered where the bundle goes.*)
(* The two dtnds notice in one step that the link came up or broke; each   *)
(* router learns of it in its own time, from its queue of datagrams.       *)
(***************************************************************************)
EXTENDS Integers, FiniteSets, Sequences

CONSTANTS
  Smaller, Greater,  \* the two nodes, by their EIDs
  Bundle,
  Origin,            \* [Bundle -> Node], where an application makes it
  Dest,              \* [Bundle -> Node or elsewhere]
  Elsewhere,         \* a node that is never met
  MayExpire,         \* the bundles whose lifetime may end
  QueueBound,        \* bound: datagrams on their way to a router
  MaxBreaks,         \* bound: how often the link breaks
  Garbled            \* a token that is the key of no bundle

Node == {Smaller, Greater}
Other(n) == IF n = Smaller THEN Greater ELSE Smaller

ASSUME SessionAssumption ==
  /\ Smaller # Greater /\ Elsewhere \notin Node /\ Garbled \notin Bundle
  /\ IsFiniteSet(Bundle) /\ MayExpire \subseteq Bundle
  /\ Origin \in [Bundle -> Node]
  /\ Dest \in [Bundle -> Node \cup {Elsewhere}]
  /\ \A b \in Bundle : Dest[b] # Origin[b]
  /\ QueueBound \in Nat /\ MaxBreaks \in Nat

VARIABLES
  made,       \* the bundles that were made
  pending,    \* [Node -> the bundles dtnd has]
  over,       \* [Node -> the bundles whose lifetime has ended there]
  deliveries, \* [Bundle -> how often an application got it]
  queue,      \* [Node -> the bundles dtnd is to send to the other node]
  vectors,    \* [Node -> the summary vectors it is to send]
  up, breaks, \* the link between them
  events,     \* [Node -> the datagrams from dtnd to the router, in order]
  msgQueue,   \* [Node -> vectors for the PeerListener]
  buffer,     \* [Node -> activeBundles]
  linked,     \* [Node -> the Node object of the other has a link]
  halted      \* [Node -> "no", or why the router stopped for good]

dtndVars   == <<made, pending, over, deliveries, queue>>
linkVars   == <<up, breaks>>
routerVars == <<msgQueue, buffer, linked, halted>>
vars == <<dtndVars, vectors, linkVars, events, routerVars>>

Vector == [first : BOOLEAN, hashes : SUBSET Bundle]

Event == {<<"opened">>, <<"closed">>} \cup ({"received", "expired"} \X Bundle)
           \cup ({"vector"} \X Vector)

TypeOK ==
  /\ made \subseteq Bundle
  /\ pending \in [Node -> SUBSET made] /\ over \in [Node -> SUBSET made]
  /\ deliveries \in [Bundle -> Nat]
  /\ queue \in [Node -> SUBSET made]
  /\ vectors \in [Node -> SUBSET Vector] /\ msgQueue \in [Node -> SUBSET Vector]
  /\ up \in BOOLEAN /\ breaks \in 0 .. MaxBreaks
  /\ events \in [Node -> Seq(Event)]
  /\ \A n \in Node : Len(events[n]) <= QueueBound
  /\ buffer \in [Node -> SUBSET Bundle]
  /\ linked \in [Node -> BOOLEAN]
  /\ halted \in [Node -> {"no", "no link", "lock"}]

Nothing == [n \in Node |-> {}]

Init ==
  /\ made = {} /\ pending = Nothing /\ over = Nothing
  /\ deliveries = [b \in Bundle |-> 0]
  /\ queue = Nothing /\ vectors = Nothing
  /\ up = FALSE /\ breaks = 0
  /\ events = [n \in Node |-> <<>>]
  /\ msgQueue = Nothing /\ buffer = Nothing
  /\ linked = [n \in Node |-> FALSE]
  /\ halted = [n \in Node |-> "no"]

------------------------------------------------------------------------------
(* dtnd *)

Runs(n) == halted[n] = "no"

\* What dtnd tells its router; a router that has stopped takes no datagrams.
Tells(n, news) ==
  IF ~Runs(n) THEN UNCHANGED events
  ELSE /\ Len(events[n]) < QueueBound
       /\ events' = [events EXCEPT ![n] = Append(@, news)]

\* find_duplicate, among what dtnd has now; suppress_duplicates is on.
Duplicate(n, b) == b \in pending[n]

\* Mutant of TooLate: dtnd takes what its clock says has expired.
TooLate_Never(n, b) == FALSE

\* add_to_pending: by this node's clock the bundle has expired.  It is deleted at
\* once, and the router is told, which knows nothing of it and does nothing.
TooLate(n, b) == b \in over[n]

\* handle_bundle_received.  What is taken is kept: early deletion is turned
\* off, and would never happen while a bundle is on two of dtnd's lists.
Receive(n, b) ==
  IF Duplicate(n, b) \/ TooLate(n, b)
    THEN UNCHANGED <<pending, deliveries, events>>
    ELSE /\ pending' = [pending EXCEPT ![n] = @ \cup {b}]
         /\ deliveries' = IF Dest[b] = n THEN [deliveries EXCEPT ![b] = @ + 1]
                          ELSE deliveries
         /\ Tells(n, <<"received", b>>)

\* An application sends a bundle.
Create(b) ==
  /\ b \notin made /\ made' = made \cup {b}
  /\ Receive(Origin[b], b)
  /\ UNCHANGED <<over, queue, vectors, linkVars, routerVars>>

\* A bundle gets over the link.
Arrive(n, b) ==
  LET from == Other(n)
  IN  /\ up /\ b \in queue[from]
      /\ queue' = [queue EXCEPT ![from] = @ \ {b}]
      /\ Receive(n, b)
      /\ UNCHANGED <<made, over, vectors, linkVars, routerVars>>

\* So does a vector: a bundle for the router's own registration.
ArriveVector(n, v) ==
  LET from == Other(n)
  IN  /\ up /\ v \in vectors[from]
      /\ vectors' = [vectors EXCEPT ![from] = @ \ {v}]
      /\ Tells(n, <<"vector", v>>)
      /\ UNCHANGED <<dtndVars, linkVars, routerVars>>

\* Each node's clock says when the lifetime of a bundle is over; where dtnd has
\* the bundle, it is deleted and reported; in flight, it may still arrive.
Expire(n, b) ==
  /\ b \in made \cap MayExpire /\ b \notin over[n]
  /\ over' = [over EXCEPT ![n] = @ \cup {b}]
  /\ pending' = [pending EXCEPT ![n] = @ \ {b}]
  /\ \E inFlight \in SUBSET {b} :
       queue' = [queue EXCEPT ![n] = @ \ ({b} \ inFlight)]
  /\ IF b \in pending[n] THEN Tells(n, <<"expired", b>>) ELSE UNCHANGED events
  /\ UNCHANGED <<made, deliveries, vectors, linkVars, routerVars>>

TellBoth(news) ==
  /\ \A n \in Node : Runs(n) => Len(events[n]) < QueueBound
  /\ events' = [n \in Node |-> IF Runs(n) THEN Append(events[n], news)
                               ELSE events[n]]

Open ==
  /\ ~up /\ up' = TRUE
  /\ TellBoth(<<"opened">>)
  /\ UNCHANGED <<dtndVars, vectors, breaks, routerVars>>

\* What was queued may be sent when the link is open again, or not.
Break ==
  /\ up /\ breaks < MaxBreaks
  /\ up' = FALSE /\ breaks' = breaks + 1
  /\ TellBoth(<<"closed">>)
  /\ queue' \in [Node -> SUBSET Bundle] /\ vectors' \in {vectors, Nothing}
  /\ \A n \in Node : queue'[n] \subseteq queue[n]
  /\ UNCHANGED <<made, pending, over, deliveries, routerVars>>

------------------------------------------------------------------------------
(* The main thread of a router *)

Takes(n, kind) ==
  /\ Runs(n) /\ events[n] # <<>> /\ Head(events[n])[1] = kind
  /\ events' = [events EXCEPT ![n] = Tail(@)]

\* The bundle or the vector the datagram is about.
Subject(n) == Head(events[n])[2]

\* Bundles as the reader of a vector sees them: its lines go into one string,
\* so that two or more are read as one token, which is the key of none.
Joined(bundles) ==
  IF Cardinality(bundles) <= 1 THEN bundles ELSE {Garbled}

\* Mutant of Sends: the keys are written without line ends.
Sends_Joined(n, first) ==
  vectors' = [vectors EXCEPT ![n] =
                @ \cup {[first |-> first, hashes |-> Joined(buffer[n])]}]

\* createSV lists the whole buffer.  The vector is injected into dtnd and sent
\* over the link of the request, as Injection has it.
Sends(n, first) ==
  vectors' = [vectors EXCEPT ![n] =
                @ \cup {[first |-> first, hashes |-> buffer[n]]}]

\* initReceived, localDest: a bundle that is for this node is not stored.
HandleReceived(n) ==
  /\ Takes(n, "received")
  /\ LET b == Subject(n) IN
       buffer' = IF Dest[b] = n THEN buffer
                 ELSE [buffer EXCEPT ![n] = @ \cup {b}]
  /\ UNCHANGED <<dtndVars, vectors, linkVars, msgQueue, linked, halted>>

\* Mutant of HandleExpired: what has expired stays in the buffer.
HandleExpired_Stays(n) ==
  /\ Takes(n, "expired")
  /\ halted' = IF Dest[Subject(n)] = n THEN [halted EXCEPT ![n] = "lock"] ELSE halted
  /\ UNCHANGED <<dtndVars, vectors, linkVars, msgQueue, linked, buffer>>

\* Bundles::expire.  Of a bundle that was delivered here, eventDelivered has
\* left an entry without a bundle; expire finds it and keeps bundlesLock, and
\* both threads stop at it.
HandleExpired(n) ==
  /\ Takes(n, "expired")
  /\ IF Dest[Subject(n)] = n
       THEN halted' = [halted EXCEPT ![n] = "lock"] /\ UNCHANGED buffer
       ELSE /\ buffer' = [buffer EXCEPT ![n] = @ \ {Subject(n)}]
            /\ UNCHANGED halted
  /\ UNCHANGED <<dtndVars, vectors, linkVars, msgQueue, linked>>

\* Mutant of HandleOpened: the node is not told of its link.
HandleOpened_Unlinked(n) ==
  /\ Takes(n, "opened")
  /\ IF n = Smaller THEN Sends(n, TRUE) ELSE UNCHANGED vectors
  /\ UNCHANGED <<dtndVars, linkVars, msgQueue, buffer, halted, linked>>

\* The router with the smaller EID sends its vector.
HandleOpened(n) ==
  /\ Takes(n, "opened")
  /\ linked' = [linked EXCEPT ![n] = TRUE]
  /\ IF n = Smaller THEN Sends(n, TRUE) ELSE UNCHANGED vectors
  /\ UNCHANGED <<dtndVars, linkVars, msgQueue, buffer, halted>>

HandleClosed(n) ==
  /\ Takes(n, "closed")
  /\ linked' = [linked EXCEPT ![n] = FALSE]
  /\ UNCHANGED <<dtndVars, vectors, linkVars, msgQueue, buffer, halted>>

\* So it does whenever dtnd says hello while the link is open.
\* Bound: no datagram waits there, and the last exchange of vectors is over.
HandleHello ==
  /\ Runs(Smaller) /\ linked[Smaller] /\ events[Smaller] = <<>>
  /\ vectors = Nothing /\ msgQueue = Nothing
  /\ \A i \in DOMAIN events[Greater] : events[Greater][i][1] # "vector"
  /\ Sends(Smaller, TRUE)
  /\ UNCHANGED <<dtndVars, linkVars, events, routerVars>>

HandleDelivery(n) ==
  /\ Takes(n, "vector")
  /\ msgQueue' = [msgQueue EXCEPT ![n] = @ \cup {Subject(n)}]
  /\ UNCHANGED <<dtndVars, vectors, linkVars, buffer, linked, halted>>

------------------------------------------------------------------------------
(* The PeerListener of a router *)

\* processPeerMessage
Tokens(v) == Joined(v.hashes)

\* The bundles the vector does not name.
Missing(n, v) == buffer[n] \ Tokens(v)

\* Mutant of NeedsReply: nobody is asked for bundles.
NeedsReply_Never(n, v) == FALSE

\* A first vector that names a bundle which is not in the buffer.
NeedsReply(n, v) == v.first /\ ~(Tokens(v) \subseteq buffer[n])

\* metaDataReceived and compareAndSend, which asserts that there is a link.
\* dtnd does not send what it has no more.
PeerCompare(n, v) ==
  /\ Runs(n) /\ v \in msgQueue[n] /\ linked[n]
  /\ msgQueue' = [msgQueue EXCEPT ![n] = @ \ {v}]
  /\ queue' = [queue EXCEPT ![n] = @ \cup (Missing(n, v) \cap pending[n])]
  /\ IF NeedsReply(n, v) THEN Sends(n, FALSE) ELSE UNCHANGED vectors
  /\ UNCHANGED <<made, pending, over, deliveries, linkVars, events, buffer,
                 linked, halted>>

PeerNoLink(n) ==
  /\ Runs(n) /\ msgQueue[n] # {} /\ ~linked[n]
  /\ halted' = [halted EXCEPT ![n] = "no link"]
  /\ UNCHANGED <<dtndVars, vectors, linkVars, events, msgQueue, buffer, linked>>

------------------------------------------------------------------------------
Main(n) ==
  \/ HandleOpened(n) \/ HandleClosed(n) \/ HandleDelivery(n)
  \/ HandleReceived(n) \/ HandleExpired(n)

Peer(n) == PeerNoLink(n) \/ \E v \in msgQueue[n] : PeerCompare(n, v)

VectorArrives(n) == \E v \in vectors[Other(n)] : ArriveVector(n, v)

Next ==
  \/ \E b \in Bundle :
       Create(b) \/ \E n \in Node : Expire(n, b) \/ Arrive(n, b)
  \/ Open \/ Break \/ HandleHello
  \/ \E n \in Node : Main(n) \/ Peer(n) \/ VectorArrives(n)

\* The threads run; dtnd opens the link, sends what is queued, and says hello.
Fairness ==
  /\ WF_vars(Open) /\ WF_vars(HandleHello)
  /\ \A n \in Node :
       /\ WF_vars(Main(n)) /\ WF_vars(Peer(n))
       /\ WF_vars(VectorArrives(n))
       /\ \A b \in Bundle : WF_vars(Arrive(n, b))

Spec == Init /\ [][Next]_vars /\ Fairness

------------------------------------------------------------------------------
(* Safety *)

\* A router that runs has in its buffer what dtnd has for others, except what
\* dtnd is just telling it of.
InStep ==
  \A n \in Node, b \in Bundle :
    LET told == \E i \in DOMAIN events[n] :
                  events[n][i] \in {<<"received", b>>, <<"expired", b>>}
    IN  Runs(n) /\ ~told => (b \in buffer[n] <=> b \in pending[n] /\ Dest[b] # n)

\* A router stops for good only after the link has broken, or once the lifetime
\* of a bundle that was for its own node is over there: no order of vectors,
\* bundles and events on a good link does that.
HaltsForCause ==
  \A n \in Node :
    /\ halted[n] = "no link" => breaks > 0
    /\ halted[n] = "lock" => \E b \in over[n] : Dest[b] = n /\ deliveries[b] > 0

\* To applications the two nodes are an epidemic: see Epidemic.  However often
\* garbled vectors make routers send a bundle again, a node takes it once.
Spread == INSTANCE Epidemic WITH has <- pending
EpidemicSpec == Spread!Spec

------------------------------------------------------------------------------
(* Liveness *)

\* What the router where a bundle was made has gets to the other node while both
\* run, although vectors of two bundles or more cannot be read, unless its
\* lifetime ends first.
Spreads ==
  \A b \in Bundle :
    LET n == Origin[b]
    IN  b \in buffer[n] ~>
          \/ b \in pending[Other(n)] \cup over[Smaller] \cup over[Greater]
          \/ \E m \in Node : ~Runs(m)
==============================================================================
