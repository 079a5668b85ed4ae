---------------------------- MODULE SessionProofs ----------------------------
(***************************************************************************)
(* Two nodes in contact, for any bundles, any number of broken links and   *)
(* any length of the queues of datagrams.  What a router knows is behind   *)
(* what its dtnd does by the datagrams in between, so the invariants are   *)
(* about the two and the order of the datagrams.                           *)
(***************************************************************************)
EXTENDS Session, TLAPS

Is(n, i, event) == i \in 1 .. Len(events[n]) /\ events[n][i] = event
Waits(n, event) == \E i \in 1 .. Len(events[n]) : events[n][i] = event
IsVector(n, i) == i \in 1 .. Len(events[n]) /\ events[n][i][1] = "vector"

\* Of one bundle a router is told once that it came and once that it expired,
\* in this order.
ToldInOrder(n, b) ==
  \A i, j \in 1 .. Len(events[n]) :
    /\ Is(n, i, <<"received", b>>) /\ Is(n, j, <<"expired", b>>) => i < j
    /\ Is(n, i, <<"received", b>>) /\ Is(n, j, <<"received", b>>) => i = j
    /\ Is(n, i, <<"expired", b>>) /\ Is(n, j, <<"expired", b>>) => i = j

\* The buffer is what dtnd had before the datagrams that wait.
Behind(n, b) ==
  LET received == Waits(n, <<"received", b>>)
      expired == Waits(n, <<"expired", b>>)
  IN  /\ b \in pending[n] =>
           (b \in buffer[n] \/ Dest[b] = n \/ received) /\ b \notin over[n]
      /\ b \notin pending[n] => b \notin buffer[n] \/ expired
      /\ received => /\ b \notin buffer[n]
                     /\ b \in pending[n] \/ expired
      /\ expired => b \in over[n]
      /\ b \in buffer[n] => Dest[b] # n

Follows(n, b) == Runs(n) => ToldInOrder(n, b) /\ Behind(n, b)

Followed == \A n \in Node, b \in Bundle : Follows(n, b)

\* What dtnd had for an application of its node, it has delivered.
Delivered ==
  \A n \in Node, b \in Bundle :
    Dest[b] = n =>
      /\ b \in pending[n] => deliveries[b] > 0
      /\ Waits(n, <<"expired", b>>) => b \in over[n] /\ deliveries[b] > 0

\* Before the link breaks, a router that has yet to hear of the link hears of
\* it before it gets a vector.
Hears(n) ==
  /\ ~Waits(n, <<"closed">>)
  /\ ~linked[n] =>
       /\ msgQueue[n] = {}
       /\ \A j \in 1 .. Len(events[n]) : IsVector(n, j) =>
            \E i \in 1 .. Len(events[n]) : i < j /\ Is(n, i, <<"opened">>)
       /\ up /\ Runs(n) => Waits(n, <<"opened">>)

HearsFirst == breaks = 0 => \A n \in Node : Hears(n)

IInv ==
  /\ TypeOK
  /\ Followed
  /\ Delivered
  /\ HearsFirst
  /\ HaltsForCause

------------------------------------------------------------------------------
(* Types *)

LEMMA EventParts ==
  ASSUME NEW e \in Event
  PROVE  /\ e[1] \in {"received", "expired"} => e = <<e[1], e[2]>> /\ e[2] \in Bundle
         /\ e[1] = "vector" => e = <<"vector", e[2]>> /\ e[2] \in Vector
         /\ e[1] = "opened" => e = <<"opened">>
         /\ e[1] = "closed" => e = <<"closed">>
<1>1. CASE e \in {<<"opened">>, <<"closed">>}
  BY <1>1
<1>2. CASE e \in {"received", "expired"} \X Bundle
  BY <1>2
<1>3. CASE e \in {"vector"} \X Vector
  BY <1>3
<1> QED
  BY <1>1, <1>2, <1>3 DEF Event

LEMMA Events ==
  /\ <<"opened">> \in Event /\ <<"closed">> \in Event
  /\ \A b \in Bundle : <<"received", b>> \in Event /\ <<"expired", b>> \in Event
  /\ \A v \in Vector : <<"vector", v>> \in Event
BY DEF Event

LEMMA InitType == Init => TypeOK
<1> SUFFICES ASSUME Init PROVE TypeOK
  OBVIOUS
<1>1. Nothing \in [Node -> SUBSET made] /\ Nothing \in [Node -> SUBSET Bundle]
  BY DEF Nothing
<1>2. Nothing \in [Node -> SUBSET Vector]
  BY DEF Nothing
<1>3. /\ events \in [Node -> Seq(Event)]
      /\ \A n \in Node : Len(events[n]) <= QueueBound
  BY SessionAssumption DEF Init
<1>4. linked \in [Node -> BOOLEAN] /\ halted \in [Node -> {"no", "no link", "lock"}]
  BY DEF Init
<1>5. deliveries \in [Bundle -> Nat] /\ breaks \in 0 .. MaxBreaks
  BY SessionAssumption DEF Init
<1> QED
  BY <1>1, <1>2, <1>3, <1>4, <1>5 DEF Init, TypeOK

\* What dtnd tells, the queue can hold.
LEMMA TellsType ==
  ASSUME TypeOK, NEW n \in Node, NEW news \in Event, Tells(n, news)
  PROVE  /\ events' \in [Node -> Seq(Event)]
         /\ \A m \in Node : Len(events'[m]) <= QueueBound
<1>1. CASE Runs(n)
  <2>1. events' = [events EXCEPT ![n] = Append(@, news)] /\ Len(events[n]) < QueueBound
    BY <1>1 DEF Tells
  <2>2. events[n] \in Seq(Event)
    BY DEF TypeOK
  <2>3. /\ Append(events[n], news) \in Seq(Event) /\ Len(events[n]) \in Nat
        /\ Len(Append(events[n], news)) = Len(events[n]) + 1
    BY <2>2
  <2>4. events \in [Node -> Seq(Event)] /\ \A m \in Node : Len(events[m]) <= QueueBound
    BY DEF TypeOK
  <2>5. ASSUME NEW m \in Node PROVE Len(events'[m]) <= QueueBound
    BY <2>1, <2>3, <2>4, SessionAssumption
  <2> QED
    BY <2>1, <2>3, <2>4, <2>5
<1>2. CASE ~Runs(n)
  BY <1>2 DEF Tells, TypeOK
<1> QED
  BY <1>1, <1>2

LEMMA TellBothType ==
  ASSUME TypeOK, NEW news \in Event, TellBoth(news)
  PROVE  /\ events' \in [Node -> Seq(Event)]
         /\ \A m \in Node : Len(events'[m]) <= QueueBound
<1>1. ASSUME NEW m \in Node
      PROVE  events'[m] \in Seq(Event) /\ Len(events'[m]) <= QueueBound
  <2>1. events[m] \in Seq(Event) /\ Len(events[m]) <= QueueBound
    BY DEF TypeOK
  <2>2. /\ Append(events[m], news) \in Seq(Event)
        /\ Len(Append(events[m], news)) = Len(events[m]) + 1
    BY <2>1
  <2>3. events'[m] = IF Runs(m) THEN Append(events[m], news) ELSE events[m]
    BY DEF TellBoth
  <2>4. Runs(m) => Len(events[m]) < QueueBound
    BY DEF TellBoth
  <2> QED
    BY <2>1, <2>2, <2>3, <2>4, SessionAssumption
<1>2. events' = [m \in Node |-> events'[m]]
  BY DEF TellBoth
<1> QED
  BY <1>1, <1>2

LEMMA TakesType ==
  ASSUME TypeOK, NEW n \in Node, NEW kind, Takes(n, kind)
  PROVE  /\ events' \in [Node -> Seq(Event)]
         /\ \A m \in Node : Len(events'[m]) <= QueueBound
         /\ Head(events[n]) \in Event
<1>1. events[n] \in Seq(Event) /\ events[n] # <<>> /\ Len(events[n]) <= QueueBound
  BY DEF Takes, TypeOK
<1>2. /\ Tail(events[n]) \in Seq(Event) /\ Len(Tail(events[n])) = Len(events[n]) - 1
      /\ Head(events[n]) \in Event /\ Len(events[n]) \in Nat
  BY <1>1
<1>3. events' = [events EXCEPT ![n] = Tail(events[n])]
  BY DEF Takes
<1>4. events \in [Node -> Seq(Event)] /\ \A m \in Node : Len(events[m]) <= QueueBound
  BY DEF TypeOK
<1>5. ASSUME NEW m \in Node PROVE Len(events'[m]) <= QueueBound
  BY <1>1, <1>2, <1>3, <1>4, SessionAssumption
<1> QED
  BY <1>2, <1>3, <1>4, <1>5

LEMMA SubjectType ==
  ASSUME TypeOK, NEW n \in Node
  PROVE  /\ Takes(n, "received") \/ Takes(n, "expired") => Subject(n) \in Bundle
         /\ Takes(n, "vector") => Subject(n) \in Vector
<1>1. ASSUME NEW kind \in {"received", "expired", "vector"}, Takes(n, kind)
      PROVE  /\ kind \in {"received", "expired"} => Subject(n) \in Bundle
             /\ kind = "vector" => Subject(n) \in Vector
  <2>1. Head(events[n]) \in Event /\ Head(events[n])[1] = kind
    BY <1>1, TakesType DEF Takes
  <2> QED
    BY <2>1, EventParts DEF Subject
<1> QED
  BY <1>1

LEMMA SendsType ==
  ASSUME TypeOK, NEW n \in Node, NEW first \in BOOLEAN, Sends(n, first)
  PROVE  vectors' \in [Node -> SUBSET Vector]
<1>1. [first |-> first, hashes |-> buffer[n]] \in Vector
  BY DEF TypeOK, Vector
<1> QED
  BY <1>1 DEF Sends, TypeOK

LEMMA ReceiveType ==
  ASSUME TypeOK, NEW n \in Node, NEW b \in Bundle, Receive(n, b),
         made \subseteq made', made' \subseteq Bundle, b \in made',
         over' = over
  PROVE  /\ pending' \in [Node -> SUBSET made'] /\ over' \in [Node -> SUBSET made']
         /\ deliveries' \in [Bundle -> Nat]
         /\ events' \in [Node -> Seq(Event)]
         /\ \A m \in Node : Len(events'[m]) <= QueueBound
<1>1. CASE Duplicate(n, b) \/ TooLate(n, b)
  BY <1>1 DEF Receive, TypeOK
<1>2. CASE ~(Duplicate(n, b) \/ TooLate(n, b))
  <2>1. Tells(n, <<"received", b>>) /\ <<"received", b>> \in Event
    BY <1>2, Events DEF Receive
  <2>2. /\ events' \in [Node -> Seq(Event)]
        /\ \A m \in Node : Len(events'[m]) <= QueueBound
    BY <2>1, TellsType
  <2>3. /\ pending' = [pending EXCEPT ![n] = @ \cup {b}]
        /\ deliveries' = IF Dest[b] = n THEN [deliveries EXCEPT ![b] = @ + 1]
                         ELSE deliveries
    BY <1>2 DEF Receive
  <2>4. deliveries' \in [Bundle -> Nat]
    <3>1. deliveries \in [Bundle -> Nat]
      BY DEF TypeOK
    <3>2. deliveries[b] + 1 \in Nat
      BY <3>1
    <3> QED
      BY <2>3, <3>1, <3>2
  <2> QED
    BY <2>2, <2>3, <2>4 DEF TypeOK
<1> QED
  BY <1>1, <1>2

LEMMA TypeStep == TypeOK /\ [Next]_vars => TypeOK'
<1> SUFFICES ASSUME TypeOK, [Next]_vars PROVE TypeOK'
  OBVIOUS
<1> DEFINE EventsTyped ==
      /\ events' \in [Node -> Seq(Event)]
      /\ \A m \in Node : Len(events'[m]) <= QueueBound
<1>1. ASSUME NEW b \in Bundle, Create(b) PROVE TypeOK'
  <2>1. /\ made' = made \cup {b} /\ Receive(Origin[b], b) /\ Origin[b] \in Node
        /\ over' = over
    BY <1>1, SessionAssumption DEF Create
  <2>2. made \subseteq made' /\ made' \subseteq Bundle /\ b \in made'
    BY <2>1 DEF TypeOK
  <2>3. queue' \in [Node -> SUBSET made']
    BY <1>1, <2>2 DEF Create, TypeOK
  <2> QED
    BY <1>1, <2>1, <2>2, <2>3, ReceiveType
       DEF Create, TypeOK, linkVars, routerVars
<1>2. ASSUME NEW n \in Node, NEW b \in Bundle, Arrive(n, b)
      PROVE  TypeOK'
  <2>1. Receive(n, b) /\ made' = made /\ over' = over
    BY <1>2 DEF Arrive
  <2>2. Other(n) \in Node
    BY DEF Other, Node
  <2>3. b \in made /\ queue' \in [Node -> SUBSET made']
    BY <1>2, <2>2 DEF Arrive, TypeOK
  <2>4. made \subseteq made' /\ made' \subseteq Bundle
    BY <2>1 DEF TypeOK
  <2> QED
    BY <1>2, <2>1, <2>3, <2>4, ReceiveType
       DEF Arrive, TypeOK, linkVars, routerVars
<1>3. ASSUME NEW n \in Node, VectorArrives(n) PROVE TypeOK'
  <2>1. PICK v \in vectors[Other(n)] : ArriveVector(n, v)
    BY <1>3 DEF VectorArrives
  <2>2. Other(n) \in Node
    BY DEF Other, Node
  <2>3. v \in Vector /\ vectors' \in [Node -> SUBSET Vector]
    BY <2>1, <2>2 DEF ArriveVector, TypeOK
  <2>4. EventsTyped
    BY <2>1, <2>3, Events, TellsType DEF ArriveVector
  <2> QED
    BY <2>1, <2>3, <2>4 DEF ArriveVector, TypeOK, dtndVars, linkVars, routerVars
<1>4. ASSUME NEW n \in Node, NEW b \in Bundle, Expire(n, b) PROVE TypeOK'
  <2>1. EventsTyped
    BY <1>4, Events, TellsType DEF Expire, TypeOK
  <2>2. /\ over' \in [Node -> SUBSET made] /\ pending' \in [Node -> SUBSET made]
        /\ queue' \in [Node -> SUBSET made]
    <3>1. /\ over \in [Node -> SUBSET made] /\ pending \in [Node -> SUBSET made]
          /\ queue \in [Node -> SUBSET made]
      BY DEF TypeOK
    <3>2. b \in made /\ over' = [over EXCEPT ![n] = @ \cup {b}]
      BY <1>4 DEF Expire
    <3>3. over' \in [Node -> SUBSET made]
      BY <3>1, <3>2
    <3>4. pending' = [pending EXCEPT ![n] = @ \ {b}]
      BY <1>4 DEF Expire
    <3>5. pending' \in [Node -> SUBSET made]
      BY <3>1, <3>4
    <3>6. PICK inFlight \in SUBSET {b} :
            queue' = [queue EXCEPT ![n] = @ \ ({b} \ inFlight)]
      BY <1>4 DEF Expire
    <3>7. queue' \in [Node -> SUBSET made]
      BY <3>1, <3>6
    <3> QED
      BY <3>3, <3>5, <3>7
  <2> QED
    BY <1>4, <2>1, <2>2 DEF Expire, TypeOK, linkVars, routerVars
<1>5. ASSUME Open \/ Break PROVE TypeOK'
  <2>1. EventsTyped
    BY <1>5, Events, TellBothType DEF Open, Break
  <2>2. CASE Open
    BY <2>1, <2>2 DEF Open, TypeOK, dtndVars, routerVars
  <2>3. CASE Break
    <3>1. queue' \in [Node -> SUBSET made]
      BY <2>3 DEF Break, TypeOK
    <3>2. vectors' \in [Node -> SUBSET Vector]
      BY <2>3 DEF Break, TypeOK, Nothing
    <3>3. up' \in BOOLEAN /\ breaks' \in 0 .. MaxBreaks
      <4>1. breaks \in 0 .. MaxBreaks /\ MaxBreaks \in Nat
        BY SessionAssumption DEF TypeOK
      <4>2. up' = FALSE /\ breaks' = breaks + 1 /\ breaks < MaxBreaks
        BY <2>3 DEF Break
      <4>3. breaks' \in 0 .. MaxBreaks
        BY <4>1, <4>2
      <4> QED
        BY <4>2, <4>3
    <3> QED
      BY <2>1, <2>3, <3>1, <3>2, <3>3 DEF Break, TypeOK, routerVars
  <2> QED
    BY <1>5, <2>2, <2>3
<1>6. ASSUME NEW n \in Node, Main(n) PROVE TypeOK'
  <2>1. EventsTyped
    BY <1>6, TakesType
       DEF Main, HandleOpened, HandleClosed, HandleDelivery, HandleReceived,
           HandleExpired
  <2>2. CASE HandleOpened(n)
    <3>1. vectors' \in [Node -> SUBSET Vector]
      BY <2>2, SendsType DEF HandleOpened, TypeOK
    <3>2. linked' \in [Node -> BOOLEAN]
      BY <2>2 DEF HandleOpened, TypeOK
    <3> QED
      BY <2>1, <2>2, <3>1, <3>2 DEF HandleOpened, TypeOK, dtndVars, linkVars
  <2>3. CASE HandleClosed(n)
    BY <2>1, <2>3 DEF HandleClosed, TypeOK, dtndVars, linkVars
  <2>4. CASE HandleDelivery(n)
    <3>1. Subject(n) \in Vector
      BY <2>4, SubjectType DEF HandleDelivery
    <3>2. msgQueue' \in [Node -> SUBSET Vector]
      BY <2>4, <3>1 DEF HandleDelivery, TypeOK
    <3> QED
      BY <2>1, <2>4, <3>2 DEF HandleDelivery, TypeOK, dtndVars, linkVars
  <2>5. CASE HandleReceived(n)
    <3>1. Subject(n) \in Bundle
      BY <2>5, SubjectType DEF HandleReceived
    <3>2. buffer' \in [Node -> SUBSET Bundle]
      BY <2>5, <3>1 DEF HandleReceived, TypeOK
    <3> QED
      BY <2>1, <2>5, <3>2 DEF HandleReceived, TypeOK, dtndVars, linkVars
  <2>6. CASE HandleExpired(n)
    <3>1. buffer' \in [Node -> SUBSET Bundle]
      <4>1. buffer \in [Node -> SUBSET Bundle]
        BY DEF TypeOK
      <4>2. buffer' = buffer \/ buffer' = [buffer EXCEPT ![n] = @ \ {Subject(n)}]
        BY <2>6 DEF HandleExpired
      <4> QED
        BY <4>1, <4>2
    <3>2. halted' \in [Node -> {"no", "no link", "lock"}]
      <4>1. halted \in [Node -> {"no", "no link", "lock"}]
        BY DEF TypeOK
      <4>2. halted' = halted \/ halted' = [halted EXCEPT ![n] = "lock"]
        BY <2>6 DEF HandleExpired
      <4> QED
        BY <4>1, <4>2
    <3> QED
      BY <2>1, <2>6, <3>1, <3>2 DEF HandleExpired, TypeOK, dtndVars, linkVars
  <2> QED
    BY <1>6, <2>2, <2>3, <2>4, <2>5, <2>6 DEF Main
<1>7. ASSUME HandleHello PROVE TypeOK'
  <2>1. vectors' \in [Node -> SUBSET Vector]
    BY <1>7, SendsType DEF HandleHello, Node
  <2> QED
    BY <1>7, <2>1 DEF HandleHello, TypeOK, dtndVars, linkVars, routerVars
<1>8. ASSUME NEW n \in Node, NEW v \in msgQueue[n], PeerCompare(n, v) PROVE TypeOK'
  <2>1. vectors' \in [Node -> SUBSET Vector]
    BY <1>8, SendsType DEF PeerCompare, TypeOK
  <2>2. /\ queue' \in [Node -> SUBSET made]
        /\ msgQueue' \in [Node -> SUBSET Vector]
    BY <1>8 DEF PeerCompare, TypeOK
  <2> QED
    BY <1>8, <2>1, <2>2 DEF PeerCompare, TypeOK, linkVars
<1>9. ASSUME NEW n \in Node, PeerNoLink(n) PROVE TypeOK'
  BY <1>9 DEF PeerNoLink, TypeOK, dtndVars, linkVars
<1>10. CASE UNCHANGED vars
  BY <1>10 DEF TypeOK, vars, dtndVars, linkVars, routerVars
<1> QED
  BY <1>1, <1>2, <1>3, <1>4, <1>5, <1>6, <1>7, <1>8, <1>9, <1>10 DEF Next, Peer

\* Every variable keeps its type: Arrive, Expire, HandleDelivery, PeerCompare.
THEOREM TypeCorrect == Spec => []TypeOK
<1> QED
  BY InitType, TypeStep, PTL DEF Spec
------------------------------------------------------------------------------
(* The order of the datagrams *)

\* news is put at the end of a queue.
Told(n, news) ==
  /\ Len(events'[n]) = Len(events[n]) + 1
  /\ \A i \in 1 .. Len(events[n]) : events'[n][i] = events[n][i]
  /\ events'[n][Len(events[n]) + 1] = news

\* first is taken from the front of a queue.
Taken(n, first) ==
  /\ Len(events[n]) = Len(events'[n]) + 1
  /\ \A i \in 1 .. Len(events'[n]) : events'[n][i] = events[n][i + 1]
  /\ events[n][1] = first

LEMMA Lengths ==
  ASSUME TypeOK, NEW n \in Node PROVE Len(events[n]) \in Nat
<1>1. events[n] \in Seq(Event)
  BY DEF TypeOK
<1> QED
  BY <1>1

LEMMA TellsQueue ==
  ASSUME TypeOK, NEW n \in Node, NEW news \in Event, Tells(n, news)
  PROVE  /\ Runs(n) => Told(n, news)
         /\ ~Runs(n) => events'[n] = events[n]
         /\ \A m \in Node \ {n} : events'[m] = events[m]
<1>1. events[n] \in Seq(Event) /\ events \in [Node -> Seq(Event)]
  BY DEF TypeOK
<1>2. CASE Runs(n)
  <2>1. events'[n] = Append(events[n], news) /\ \A m \in Node \ {n} : events'[m] = events[m]
    BY <1>1, <1>2 DEF Tells
  <2>2. Told(n, news)
    BY <1>1, <2>1 DEF Told
  <2> QED
    BY <1>2, <2>1, <2>2
<1>3. CASE ~Runs(n)
  BY <1>3 DEF Tells
<1> QED
  BY <1>2, <1>3

LEMMA TellBothQueue ==
  ASSUME TypeOK, NEW news \in Event, TellBoth(news), NEW n \in Node
  PROVE  /\ Runs(n) => Told(n, news)
         /\ ~Runs(n) => events'[n] = events[n]
<1>1. events[n] \in Seq(Event)
  BY DEF TypeOK
<1>2. events'[n] = IF Runs(n) THEN Append(events[n], news) ELSE events[n]
  BY DEF TellBoth
<1> QED
  BY <1>1, <1>2 DEF Told

LEMMA TakesQueue ==
  ASSUME TypeOK, NEW n \in Node, NEW kind, Takes(n, kind)
  PROVE  /\ Taken(n, Head(events[n])) /\ Head(events[n]) \in Event
         /\ Head(events[n])[1] = kind /\ Runs(n)
         /\ \A m \in Node \ {n} : events'[m] = events[m]
<1>1. events[n] \in Seq(Event) /\ events[n] # <<>> /\ events \in [Node -> Seq(Event)]
  BY DEF TypeOK, Takes
<1>2. events'[n] = Tail(events[n]) /\ \A m \in Node \ {n} : events'[m] = events[m]
  BY <1>1 DEF Takes
<1>3. Taken(n, Head(events[n])) /\ Head(events[n]) \in Event
  BY <1>1, <1>2 DEF Taken
<1> QED
  BY <1>2, <1>3 DEF Takes

\* What the first datagram is, by its kind.
LEMMA FirstIs ==
  ASSUME TypeOK, NEW n \in Node, NEW kind, Takes(n, kind)
  PROVE  /\ kind \in {"received", "expired"}
              => Head(events[n]) = <<kind, Subject(n)>> /\ Subject(n) \in Bundle
         /\ kind = "vector" => Head(events[n]) = <<"vector", Subject(n)>>
         /\ kind = "opened" => Head(events[n]) = <<"opened">>
         /\ kind = "closed" => Head(events[n]) = <<"closed">>
<1>1. Head(events[n]) \in Event /\ Head(events[n])[1] = kind
  BY TakesQueue
<1> QED
  BY <1>1, EventParts DEF Subject

LEMMA ToldWaits ==
  ASSUME TypeOK, NEW n \in Node, NEW news, Told(n, news), NEW event
  PROVE  Waits(n, event)' <=> Waits(n, event) \/ event = news
<1>1. Len(events[n]) \in Nat
  BY Lengths
<1>2. /\ Len(events'[n]) = Len(events[n]) + 1
      /\ \A i \in 1 .. Len(events[n]) : events'[n][i] = events[n][i]
      /\ events'[n][Len(events[n]) + 1] = news
  BY DEF Told
<1>3. ASSUME Waits(n, event)' PROVE Waits(n, event) \/ event = news
  <2>1. PICK i \in 1 .. Len(events'[n]) : events'[n][i] = event
    BY <1>3 DEF Waits
  <2>2. i \in 1 .. Len(events[n]) \/ i = Len(events[n]) + 1
    BY <1>1, <1>2
  <2> QED
    BY <1>2, <2>1, <2>2 DEF Waits
<1>4. ASSUME Waits(n, event) PROVE Waits(n, event)'
  <2>1. PICK i \in 1 .. Len(events[n]) : events[n][i] = event
    BY <1>4 DEF Waits
  <2>2. i \in 1 .. Len(events'[n]) /\ events'[n][i] = event
    BY <1>1, <1>2, <2>1
  <2> QED
    BY <2>2 DEF Waits
<1>5. ASSUME event = news PROVE Waits(n, event)'
  <2>1. Len(events[n]) + 1 \in 1 .. Len(events'[n])
    BY <1>1, <1>2
  <2> QED
    BY <1>2, <1>5, <2>1 DEF Waits
<1> QED
  BY <1>3, <1>4, <1>5

LEMMA TakenWaits ==
  ASSUME TypeOK, TypeOK', NEW n \in Node, NEW first, Taken(n, first), NEW event
  PROVE  Waits(n, event) <=> Waits(n, event)' \/ event = first
<1>1. Len(events[n]) \in Nat /\ Len(events'[n]) \in Nat
  <2>1. events[n] \in Seq(Event) /\ events'[n] \in Seq(Event)
    BY DEF TypeOK
  <2> QED
    BY <2>1
<1>2. ASSUME Waits(n, event), event # first PROVE Waits(n, event)'
  <2>1. PICK i \in 1 .. Len(events[n]) : events[n][i] = event
    BY <1>2 DEF Waits
  <2>2. i - 1 \in 1 .. Len(events'[n]) /\ events'[n][i - 1] = event
    BY <1>1, <1>2, <2>1 DEF Taken
  <2> QED
    BY <2>2 DEF Waits
<1>3. ASSUME Waits(n, event)' PROVE Waits(n, event)
  BY <1>1, <1>3 DEF Taken, Waits
<1>4. 1 \in 1 .. Len(events[n]) /\ events[n][1] = first
  BY <1>1 DEF Taken
<1> QED
  BY <1>2, <1>3, <1>4 DEF Waits

\* Told of a bundle in order, a router stays so if what is new is in order.
LEMMA OrderTold ==
  ASSUME TypeOK, NEW n \in Node, NEW news, Told(n, news), NEW b \in Bundle,
         ToldInOrder(n, b),
         news = <<"received", b>> => /\ ~Waits(n, <<"received", b>>)
                                     /\ ~Waits(n, <<"expired", b>>),
         news = <<"expired", b>> => ~Waits(n, <<"expired", b>>)
  PROVE  ToldInOrder(n, b)'
<1>1. Len(events[n]) \in Nat
  BY Lengths
<1>2. ASSUME NEW i \in 1 .. Len(events'[n])
      PROVE  \/ i \in 1 .. Len(events[n]) /\ events'[n][i] = events[n][i]
             \/ i = Len(events[n]) + 1 /\ events'[n][i] = news
  BY <1>1 DEF Told
<1>3. SUFFICES ASSUME NEW i \in 1 .. Len(events'[n]), NEW j \in 1 .. Len(events'[n])
      PROVE  /\ events'[n][i] = <<"received", b>> /\ events'[n][j] = <<"expired", b>>
                  => i < j
             /\ events'[n][i] = <<"received", b>> /\ events'[n][j] = <<"received", b>>
                  => i = j
             /\ events'[n][i] = <<"expired", b>> /\ events'[n][j] = <<"expired", b>>
                  => i = j
  BY DEF ToldInOrder, Is
<1>4. CASE i \in 1 .. Len(events[n]) /\ j \in 1 .. Len(events[n])
  BY <1>4 DEF Told, ToldInOrder, Is
<1>5. CASE i = Len(events[n]) + 1 /\ j = Len(events[n]) + 1
  BY <1>5, <1>2
<1>6. CASE i \in 1 .. Len(events[n]) /\ j = Len(events[n]) + 1
  <2>1. i < j /\ events'[n][i] = events[n][i] /\ events'[n][j] = news
    BY <1>1, <1>6 DEF Told
  <2> QED
    BY <1>6, <2>1 DEF Waits
<1>7. CASE i = Len(events[n]) + 1 /\ j \in 1 .. Len(events[n])
  <2>1. j < i /\ events'[n][j] = events[n][j] /\ events'[n][i] = news
    BY <1>1, <1>7 DEF Told
  <2> QED
    BY <1>7, <2>1 DEF Waits
<1> QED
  BY <1>2, <1>4, <1>5, <1>6, <1>7

LEMMA OrderTaken ==
  ASSUME TypeOK, TypeOK', NEW n \in Node, NEW first, Taken(n, first),
         NEW b \in Bundle, ToldInOrder(n, b)
  PROVE  /\ ToldInOrder(n, b)'
         /\ first = <<"received", b>> => ~Waits(n, <<"received", b>>)'
         /\ first = <<"expired", b>> => /\ ~Waits(n, <<"received", b>>)'
                                        /\ ~Waits(n, <<"expired", b>>)'
<1>1. Len(events[n]) \in Nat /\ Len(events'[n]) \in Nat
  <2>1. events[n] \in Seq(Event) /\ events'[n] \in Seq(Event)
    BY DEF TypeOK
  <2> QED
    BY <2>1
<1>2. ASSUME NEW i \in 1 .. Len(events'[n])
      PROVE  i + 1 \in 1 .. Len(events[n]) /\ events'[n][i] = events[n][i + 1]
  BY <1>1 DEF Taken
<1>3. ToldInOrder(n, b)'
  <2>1. SUFFICES ASSUME NEW i \in 1 .. Len(events'[n]), NEW j \in 1 .. Len(events'[n])
        PROVE  /\ events'[n][i] = <<"received", b>> /\ events'[n][j] = <<"expired", b>>
                    => i < j
               /\ events'[n][i] = <<"received", b>> /\ events'[n][j] = <<"received", b>>
                    => i = j
               /\ events'[n][i] = <<"expired", b>> /\ events'[n][j] = <<"expired", b>>
                    => i = j
    BY DEF ToldInOrder, Is
  <2>2. /\ i + 1 \in 1 .. Len(events[n]) /\ events'[n][i] = events[n][i + 1]
        /\ j + 1 \in 1 .. Len(events[n]) /\ events'[n][j] = events[n][j + 1]
    BY <1>2
  <2>3. /\ events'[n][i] = <<"received", b>> /\ events'[n][j] = <<"expired", b>>
             => i + 1 < j + 1
        /\ events'[n][i] = <<"received", b>> /\ events'[n][j] = <<"received", b>>
             => i + 1 = j + 1
        /\ events'[n][i] = <<"expired", b>> /\ events'[n][j] = <<"expired", b>>
             => i + 1 = j + 1
    BY <2>2 DEF ToldInOrder, Is
  <2> QED
    BY <2>3
<1>4. 1 \in 1 .. Len(events[n]) /\ events[n][1] = first
  BY <1>1 DEF Taken
<1>5. ASSUME first = <<"received", b>>, Waits(n, <<"received", b>>)' PROVE FALSE
  <2>1. PICK i \in 1 .. Len(events'[n]) : events'[n][i] = <<"received", b>>
    BY <1>5 DEF Waits
  <2>2. /\ i + 1 \in 1 .. Len(events[n]) /\ Is(n, i + 1, <<"received", b>>)
        /\ Is(n, 1, <<"received", b>>)
    BY <1>2, <1>4, <1>5, <2>1 DEF Is
  <2>3. 1 = i + 1
    BY <1>4, <2>2 DEF ToldInOrder
  <2> QED
    BY <2>3
<1>6. ASSUME first = <<"expired", b>>, Waits(n, <<"received", b>>)' PROVE FALSE
  <2>1. PICK i \in 1 .. Len(events'[n]) : events'[n][i] = <<"received", b>>
    BY <1>6 DEF Waits
  <2>2. /\ i + 1 \in 1 .. Len(events[n]) /\ Is(n, i + 1, <<"received", b>>)
        /\ Is(n, 1, <<"expired", b>>)
    BY <1>2, <1>4, <1>6, <2>1 DEF Is
  <2>3. i + 1 < 1
    BY <1>4, <2>2 DEF ToldInOrder
  <2> QED
    BY <2>3
<1>7. ASSUME first = <<"expired", b>>, Waits(n, <<"expired", b>>)' PROVE FALSE
  <2>1. PICK i \in 1 .. Len(events'[n]) : events'[n][i] = <<"expired", b>>
    BY <1>7 DEF Waits
  <2>2. /\ i + 1 \in 1 .. Len(events[n]) /\ Is(n, i + 1, <<"expired", b>>)
        /\ Is(n, 1, <<"expired", b>>)
    BY <1>2, <1>4, <1>7, <2>1 DEF Is
  <2>3. i + 1 = 1
    BY <1>4, <2>2 DEF ToldInOrder
  <2> QED
    BY <2>3
<1> QED
  BY <1>3, <1>5, <1>6, <1>7
------------------------------------------------------------------------------
(* The buffer follows dtnd *)

\* Nothing is done at n that is about b.
Same(n, b) ==
  /\ b \in pending'[n] <=> b \in pending[n]
  /\ b \in over'[n] <=> b \in over[n]
  /\ b \in buffer'[n] <=> b \in buffer[n]
  /\ halted'[n] = "no" => halted[n] = "no"

About(b) == {<<"received", b>>, <<"expired", b>>}

LEMMA FollowsSame ==
  ASSUME NEW n \in Node, NEW b \in Bundle, Follows(n, b), Same(n, b),
         events'[n] = events[n]
  PROVE  Follows(n, b)'
<1>1. SUFFICES ASSUME Runs(n)' PROVE ToldInOrder(n, b)' /\ Behind(n, b)'
  BY DEF Follows
<1>2. ToldInOrder(n, b) /\ Behind(n, b)
  BY <1>1 DEF Follows, Runs, Same
<1>3. ToldInOrder(n, b)'
  BY <1>2 DEF ToldInOrder, Is
<1>4. \A event : Waits(n, event)' <=> Waits(n, event)
  BY DEF Waits
<1>5. Behind(n, b)'
  BY <1>2, <1>4 DEF Behind, Same
<1> QED
  BY <1>3, <1>5

LEMMA FollowsTold ==
  ASSUME TypeOK, NEW n \in Node, NEW b \in Bundle, Follows(n, b), Same(n, b),
         NEW news, news \notin About(b), Told(n, news)
  PROVE  Follows(n, b)'
<1>1. SUFFICES ASSUME Runs(n)' PROVE ToldInOrder(n, b)' /\ Behind(n, b)'
  BY DEF Follows
<1>2. ToldInOrder(n, b) /\ Behind(n, b)
  BY <1>1 DEF Follows, Runs, Same
<1>3. ToldInOrder(n, b)'
  BY <1>2, OrderTold DEF About
<1>4. \A event \in About(b) : Waits(n, event)' <=> Waits(n, event)
  BY ToldWaits
<1>5. Behind(n, b)'
  BY <1>2, <1>4 DEF Behind, Same, About
<1> QED
  BY <1>3, <1>5

LEMMA FollowsTaken ==
  ASSUME TypeOK, TypeOK', NEW n \in Node, NEW b \in Bundle, Follows(n, b),
         Same(n, b), NEW first, first \notin About(b), Taken(n, first)
  PROVE  Follows(n, b)'
<1>1. SUFFICES ASSUME Runs(n)' PROVE ToldInOrder(n, b)' /\ Behind(n, b)'
  BY DEF Follows
<1>2. ToldInOrder(n, b) /\ Behind(n, b)
  BY <1>1 DEF Follows, Runs, Same
<1>3. ToldInOrder(n, b)'
  BY <1>2, OrderTaken
<1>4. \A event \in About(b) : Waits(n, event)' <=> Waits(n, event)
  BY TakenWaits
<1>5. Behind(n, b)'
  BY <1>2, <1>4 DEF Behind, Same, About
<1> QED
  BY <1>3, <1>5

LEMMA FollowsReceive ==
  ASSUME TypeOK, TypeOK', Followed, NEW n \in Node, NEW c \in Bundle,
         Receive(n, c), UNCHANGED <<over, buffer, halted>>
  PROVE  Followed'
<1>1. CASE Duplicate(n, c) \/ TooLate(n, c)
  BY <1>1, FollowsSame DEF Receive, Followed, Same
<1>2. CASE ~(Duplicate(n, c) \/ TooLate(n, c))
  <2>1. /\ pending' = [pending EXCEPT ![n] = @ \cup {c}]
        /\ Tells(n, <<"received", c>>) /\ <<"received", c>> \in Event
        /\ c \notin pending[n] /\ c \notin over[n]
    BY <1>2, Events DEF Receive, Duplicate, TooLate
  <2>2. pending'[n] = pending[n] \cup {c} /\ \A m \in Node \ {n} : pending'[m] = pending[m]
    BY <2>1 DEF TypeOK
  <2>3. SUFFICES ASSUME NEW m \in Node, NEW b \in Bundle PROVE Follows(m, b)'
    BY DEF Followed
  <2>4. Follows(m, b)
    BY DEF Followed
  <2>5. CASE m # n
    BY <2>1, <2>2, <2>4, <2>5, TellsQueue, FollowsSame DEF Same
  <2>6. CASE m = n /\ ~Runs(n)
    BY <2>6 DEF Follows, Runs
  <2>7. CASE m = n /\ Runs(n)
    <3>1. Told(n, <<"received", c>>)
      BY <2>1, <2>7, TellsQueue
    <3>2. CASE b # c
      <4>1. <<"received", c>> \notin About(b) /\ Same(n, b)
        BY <2>2, <3>2 DEF About, Same
      <4> QED
        BY <2>4, <2>7, <3>1, <4>1, FollowsTold
    <3>3. CASE b = c
      <4>1. ToldInOrder(n, c) /\ Behind(n, c)
        BY <2>4, <2>7, <3>3 DEF Follows
      <4>2. /\ ~Waits(n, <<"received", c>>) /\ ~Waits(n, <<"expired", c>>)
            /\ c \notin buffer[n]
        BY <2>1, <4>1 DEF Behind
      <4>3. ToldInOrder(n, c)'
        BY <3>1, <4>1, <4>2, OrderTold
      <4>4. Waits(n, <<"received", c>>)' /\ ~Waits(n, <<"expired", c>>)'
        BY <3>1, <4>2, ToldWaits
      <4>5. Behind(n, c)'
        BY <2>1, <2>2, <4>2, <4>4 DEF Behind
      <4> QED
        BY <2>7, <3>3, <4>3, <4>5 DEF Follows
    <3> QED
      BY <3>2, <3>3
  <2> QED
    BY <2>5, <2>6, <2>7
<1> QED
  BY <1>1, <1>2

LEMMA FollowsExpire ==
  ASSUME TypeOK, TypeOK', Followed, NEW n \in Node, NEW c \in Bundle, Expire(n, c)
  PROVE  Followed'
<1>1. /\ pending' = [pending EXCEPT ![n] = @ \ {c}] /\ over' = [over EXCEPT ![n] = @ \cup {c}]
      /\ c \notin over[n] /\ UNCHANGED <<buffer, halted>>
      /\ c \in pending[n] => Tells(n, <<"expired", c>>)
      /\ c \notin pending[n] => UNCHANGED events
  BY DEF Expire, routerVars
<1>2. /\ pending'[n] = pending[n] \ {c} /\ \A m \in Node \ {n} : pending'[m] = pending[m]
      /\ over'[n] = over[n] \cup {c} /\ \A m \in Node \ {n} : over'[m] = over[m]
  BY <1>1 DEF TypeOK
<1>3. <<"expired", c>> \in Event
  BY Events
<1>4. SUFFICES ASSUME NEW m \in Node, NEW b \in Bundle PROVE Follows(m, b)'
  BY DEF Followed
<1>5. Follows(m, b)
  BY DEF Followed
<1>6. CASE m # n
  <2>1. events'[m] = events[m]
    BY <1>1, <1>3, <1>6, TellsQueue
  <2> QED
    BY <1>1, <1>2, <1>5, <1>6, <2>1, FollowsSame DEF Same
<1>7. CASE m = n /\ ~Runs(n)
  BY <1>1, <1>7 DEF Follows, Runs
<1>8. CASE m = n /\ Runs(n) /\ b # c
  <2>1. Same(n, b) /\ <<"expired", c>> \notin About(b)
    BY <1>1, <1>2, <1>8 DEF Same, About
  <2>2. CASE c \in pending[n]
    BY <1>1, <1>3, <1>5, <1>8, <2>1, <2>2, TellsQueue, FollowsTold
  <2>3. CASE c \notin pending[n]
    BY <1>1, <1>5, <1>8, <2>1, <2>3, FollowsSame
  <2> QED
    BY <2>2, <2>3
<1>9. CASE m = n /\ Runs(n) /\ b = c
  <2>1. ToldInOrder(n, c) /\ Behind(n, c)
    BY <1>5, <1>9 DEF Follows
  <2>2. ~Waits(n, <<"expired", c>>)
    BY <1>1, <2>1 DEF Behind
  <2>3. CASE c \in pending[n]
    <3>1. Told(n, <<"expired", c>>)
      BY <1>1, <1>3, <1>9, <2>3, TellsQueue
    <3>2. ToldInOrder(n, c)'
      BY <2>1, <2>2, <3>1, OrderTold
    <3>3. /\ Waits(n, <<"expired", c>>)'
          /\ Waits(n, <<"received", c>>)' <=> Waits(n, <<"received", c>>)
      BY <3>1, ToldWaits
    <3>4. Behind(n, c)'
      BY <1>1, <1>2, <2>1, <3>3 DEF Behind
    <3> QED
      BY <1>9, <3>2, <3>4 DEF Follows
  <2>4. CASE c \notin pending[n]
    <3>1. events' = events
      BY <1>1, <2>4
    <3>2. ToldInOrder(n, c)'
      BY <2>1, <3>1 DEF ToldInOrder, Is
    <3>3. \A event : Waits(n, event)' <=> Waits(n, event)
      BY <3>1 DEF Waits
    <3>4. Behind(n, c)'
      BY <1>1, <1>2, <2>1, <2>4, <3>3 DEF Behind
    <3> QED
      BY <1>9, <3>2, <3>4 DEF Follows
  <2> QED
    BY <2>3, <2>4
<1> QED
  BY <1>6, <1>7, <1>8, <1>9

LEMMA FollowsReceived ==
  ASSUME TypeOK, TypeOK', Followed, NEW n \in Node, HandleReceived(n)
  PROVE  Followed'
<1>0. PICK c \in Bundle : c = Subject(n)
  BY FirstIs DEF HandleReceived
<1>1. /\ UNCHANGED <<pending, over, halted>> /\ Takes(n, "received")
      /\ buffer' = IF Dest[c] = n THEN buffer ELSE [buffer EXCEPT ![n] = @ \cup {c}]
  BY <1>0 DEF HandleReceived, dtndVars
<1>2. Taken(n, <<"received", c>>) /\ Runs(n)
  BY <1>0, <1>1, FirstIs, TakesQueue
<1>3. /\ buffer'[n] = IF Dest[c] = n THEN buffer[n] ELSE buffer[n] \cup {c}
      /\ \A m \in Node \ {n} : buffer'[m] = buffer[m]
  BY <1>1 DEF TypeOK
<1>4. SUFFICES ASSUME NEW m \in Node, NEW b \in Bundle PROVE Follows(m, b)'
  BY DEF Followed
<1>5. Follows(m, b)
  BY DEF Followed
<1>6. CASE m # n
  BY <1>1, <1>3, <1>5, <1>6, TakesQueue, FollowsSame DEF Same
<1>7. CASE m = n /\ b # c
  <2>1. Same(n, b) /\ <<"received", c>> \notin About(b)
    BY <1>1, <1>3, <1>7 DEF Same, About
  <2> QED
    BY <1>2, <1>5, <1>7, <2>1, FollowsTaken
<1>8. CASE m = n /\ b = c
  <2>1. ToldInOrder(n, c) /\ Behind(n, c)
    BY <1>2, <1>5, <1>8 DEF Follows
  <2>2. ToldInOrder(n, c)' /\ ~Waits(n, <<"received", c>>)'
    BY <1>2, <2>1, OrderTaken
  <2>3. /\ Waits(n, <<"received", c>>)
        /\ Waits(n, <<"expired", c>>)' <=> Waits(n, <<"expired", c>>)
    BY <1>2, TakenWaits
  <2>4. Behind(n, c)'
    BY <1>1, <1>3, <2>1, <2>2, <2>3 DEF Behind
  <2> QED
    BY <1>8, <2>2, <2>4 DEF Follows
<1> QED
  BY <1>6, <1>7, <1>8

LEMMA FollowsExpired ==
  ASSUME TypeOK, TypeOK', Followed, NEW n \in Node, HandleExpired(n)
  PROVE  Followed'
<1>0. PICK c \in Bundle : c = Subject(n)
  BY FirstIs DEF HandleExpired
<1>1. /\ UNCHANGED <<pending, over>> /\ Takes(n, "expired")
      /\ IF Dest[c] = n
           THEN halted' = [halted EXCEPT ![n] = "lock"] /\ UNCHANGED buffer
           ELSE buffer' = [buffer EXCEPT ![n] = @ \ {c}] /\ UNCHANGED halted
  BY <1>0 DEF HandleExpired, dtndVars
<1>2. Taken(n, <<"expired", c>>) /\ Runs(n)
  BY <1>0, <1>1, FirstIs, TakesQueue
<1>3. /\ \A m \in Node \ {n} : buffer'[m] = buffer[m] /\ halted'[m] = halted[m]
      /\ Dest[c] = n => halted'[n] = "lock"
      /\ Dest[c] # n => buffer'[n] = buffer[n] \ {c} /\ halted'[n] = halted[n]
  BY <1>1 DEF TypeOK
<1>4. SUFFICES ASSUME NEW m \in Node, NEW b \in Bundle PROVE Follows(m, b)'
  BY DEF Followed
<1>5. Follows(m, b)
  BY DEF Followed
<1>6. CASE m # n
  BY <1>1, <1>3, <1>5, <1>6, TakesQueue, FollowsSame DEF Same
<1>7. CASE m = n /\ Dest[c] = n
  BY <1>3, <1>7 DEF Follows, Runs
<1>8. CASE m = n /\ Dest[c] # n /\ b # c
  <2>1. Same(n, b) /\ <<"expired", c>> \notin About(b)
    BY <1>1, <1>3, <1>8 DEF Same, About
  <2> QED
    BY <1>2, <1>5, <1>8, <2>1, FollowsTaken
<1>9. CASE m = n /\ Dest[c] # n /\ b = c
  <2>1. ToldInOrder(n, c) /\ Behind(n, c)
    BY <1>2, <1>5, <1>9 DEF Follows
  <2>2. ToldInOrder(n, c)' /\ ~Waits(n, <<"received", c>>)' /\ ~Waits(n, <<"expired", c>>)'
    BY <1>2, <2>1, OrderTaken
  <2>3. Waits(n, <<"expired", c>>)
    BY <1>2, TakenWaits
  <2>4. Behind(n, c)'
    BY <1>1, <1>3, <1>9, <2>1, <2>2, <2>3 DEF Behind
  <2> QED
    BY <1>9, <2>2, <2>4 DEF Follows
<1> QED
  BY <1>6, <1>7, <1>8, <1>9

\* A step of the main thread that takes what is about no bundle.
LEMMA FollowsOther ==
  ASSUME TypeOK, TypeOK', Followed, NEW n \in Node,
         NEW kind \in {"opened", "closed", "vector"}, Takes(n, kind),
         UNCHANGED <<pending, over, buffer, halted>>
  PROVE  Followed'
<1>1. SUFFICES ASSUME NEW m \in Node, NEW b \in Bundle PROVE Follows(m, b)'
  BY DEF Followed
<1>2. Follows(m, b) /\ Same(m, b)
  BY DEF Followed, Same
<1>3. CASE m # n
  BY <1>2, <1>3, TakesQueue, FollowsSame
<1>4. CASE m = n
  <2>1. Head(events[n]) \notin About(b) /\ Taken(n, Head(events[n]))
    BY TakesQueue DEF About
  <2> QED
    BY <1>2, <1>4, <2>1, FollowsTaken
<1> QED
  BY <1>3, <1>4

\* So does one that tells of no bundle.
LEMMA FollowsNews ==
  ASSUME TypeOK, TypeOK', Followed, NEW news \in Event,
         news[1] \in {"opened", "closed", "vector"},
         \/ TellBoth(news) \/ \E n \in Node : Tells(n, news),
         UNCHANGED <<pending, over, buffer, halted>>
  PROVE  Followed'
<1>1. SUFFICES ASSUME NEW m \in Node, NEW b \in Bundle PROVE Follows(m, b)'
  BY DEF Followed
<1>2. Follows(m, b) /\ Same(m, b) /\ news \notin About(b)
  BY DEF Followed, Same, About
<1>3. Told(m, news) \/ events'[m] = events[m]
  BY TellBothQueue, TellsQueue
<1> QED
  BY <1>2, <1>3, FollowsTold, FollowsSame

LEMMA FollowedStep == TypeOK /\ TypeOK' /\ Followed /\ [Next]_vars => Followed'
<1> SUFFICES ASSUME TypeOK, TypeOK', Followed, [Next]_vars PROVE Followed'
  OBVIOUS
<1>1. ASSUME NEW b \in Bundle, Create(b) PROVE Followed'
  BY <1>1, FollowsReceive, SessionAssumption DEF Create, routerVars
<1>2. ASSUME NEW n \in Node, NEW b \in Bundle, Arrive(n, b) PROVE Followed'
  BY <1>2, FollowsReceive DEF Arrive, routerVars
<1>3. ASSUME NEW n \in Node, VectorArrives(n) PROVE Followed'
  <2>1. PICK v \in vectors[Other(n)] : ArriveVector(n, v)
    BY <1>3 DEF VectorArrives
  <2>2. v \in Vector
    BY DEF TypeOK, Other, Node
  <2>3. Tells(n, <<"vector", v>>) /\ UNCHANGED <<pending, over, buffer, halted>>
    BY <2>1 DEF ArriveVector, dtndVars, routerVars
  <2> QED
    BY <2>2, <2>3, Events, FollowsNews
<1>4. ASSUME NEW n \in Node, NEW b \in Bundle, Expire(n, b) PROVE Followed'
  BY <1>4, FollowsExpire
<1>5. CASE Open \/ Break
  BY <1>5, Events, FollowsNews DEF Open, Break, dtndVars, routerVars
<1>6. ASSUME NEW n \in Node, Main(n) PROVE Followed'
  <2>1. CASE HandleOpened(n) \/ HandleClosed(n) \/ HandleDelivery(n)
    BY <2>1, FollowsOther DEF HandleOpened, HandleClosed, HandleDelivery, dtndVars
  <2>2. CASE HandleReceived(n) \/ HandleExpired(n)
    BY <2>2, FollowsReceived, FollowsExpired
  <2> QED
    BY <1>6, <2>1, <2>2 DEF Main
<1>7. ASSUME /\ UNCHANGED <<pending, over, buffer, events>>
             /\ \A n \in Node : halted'[n] = "no" => halted[n] = "no"
      PROVE  Followed'
  BY <1>7, FollowsSame DEF Followed, Same
<1>8. CASE HandleHello \/ UNCHANGED vars
  BY <1>7, <1>8 DEF HandleHello, vars, dtndVars, routerVars
<1>9. ASSUME NEW n \in Node, NEW v \in msgQueue[n], PeerCompare(n, v) PROVE Followed'
  BY <1>7, <1>9 DEF PeerCompare
<1>10. ASSUME NEW n \in Node, PeerNoLink(n) PROVE Followed'
  BY <1>7, <1>10 DEF PeerNoLink, dtndVars, TypeOK
<1> QED
  BY <1>1, <1>2, <1>3, <1>4, <1>5, <1>6, <1>8, <1>9, <1>10 DEF Next, Peer
------------------------------------------------------------------------------
(* What came to the application *)

LEMMA DeliveredSame ==
  ASSUME Delivered, deliveries' = deliveries,
         \A n \in Node : pending'[n] \subseteq pending[n] /\ over[n] \subseteq over'[n],
         \A n \in Node, b \in Bundle :
           Waits(n, <<"expired", b>>)' => Waits(n, <<"expired", b>>)
  PROVE  Delivered'
BY DEF Delivered

LEMMA DeliveredNews ==
  ASSUME TypeOK, Delivered, NEW news \in Event, news[1] # "expired",
         \/ TellBoth(news) \/ \E n \in Node : Tells(n, news),
         UNCHANGED <<pending, over, deliveries>>
  PROVE  Delivered'
<1>1. ASSUME NEW m \in Node, NEW b \in Bundle, Waits(m, <<"expired", b>>)'
      PROVE  Waits(m, <<"expired", b>>)
  <2>1. Told(m, news) \/ events'[m] = events[m]
    BY TellBothQueue, TellsQueue
  <2>2. CASE Told(m, news)
    BY <1>1, <2>2, ToldWaits
  <2>3. CASE events'[m] = events[m]
    BY <1>1, <2>3 DEF Waits
  <2> QED
    BY <2>1, <2>2, <2>3
<1> QED
  BY <1>1, DeliveredSame

LEMMA DeliveredTaken ==
  ASSUME TypeOK, TypeOK', Delivered, NEW n \in Node, NEW kind, Takes(n, kind),
         UNCHANGED <<pending, over, deliveries>>
  PROVE  Delivered'
<1>1. ASSUME NEW m \in Node, NEW b \in Bundle, Waits(m, <<"expired", b>>)'
      PROVE  Waits(m, <<"expired", b>>)
  <2>1. CASE m = n
    BY <1>1, <2>1, TakesQueue, TakenWaits
  <2>2. CASE m # n
    BY <1>1, <2>2, TakesQueue DEF Waits
  <2> QED
    BY <2>1, <2>2
<1> QED
  BY <1>1, DeliveredSame

LEMMA DeliveredReceive ==
  ASSUME TypeOK, Delivered, NEW n \in Node, NEW c \in Bundle, Receive(n, c),
         UNCHANGED over
  PROVE  Delivered' /\ \A b \in Bundle : deliveries'[b] >= deliveries[b]
<1>1. deliveries \in [Bundle -> Nat]
  BY DEF TypeOK
<1>2. CASE Duplicate(n, c) \/ TooLate(n, c)
  <2>1. UNCHANGED <<pending, deliveries, events>>
    BY <1>2 DEF Receive
  <2>2. Delivered'
    BY <2>1 DEF Delivered, Waits
  <2> QED
    BY <1>1, <2>1, <2>2
<1>3. CASE ~(Duplicate(n, c) \/ TooLate(n, c))
  <2>1. /\ pending' = [pending EXCEPT ![n] = @ \cup {c}]
        /\ deliveries' = IF Dest[c] = n THEN [deliveries EXCEPT ![c] = @ + 1]
                         ELSE deliveries
        /\ Tells(n, <<"received", c>>) /\ <<"received", c>> \in Event
    BY <1>3, Events DEF Receive
  <2>2. /\ \A b \in Bundle : deliveries'[b] >= deliveries[b] /\ deliveries[b] >= 0
        /\ Dest[c] = n => deliveries'[c] > 0
    BY <1>1, <2>1
  <2>3. ASSUME NEW m \in Node, NEW b \in Bundle, Waits(m, <<"expired", b>>)'
        PROVE  Waits(m, <<"expired", b>>)
    <3>1. CASE m = n /\ Runs(n)
      BY <2>1, <2>3, <3>1, TellsQueue, ToldWaits
    <3>2. CASE ~(m = n /\ Runs(n))
      BY <2>1, <2>3, <3>2, TellsQueue DEF Waits
    <3> QED
      BY <3>1, <3>2
  <2>4. /\ pending'[n] = pending[n] \cup {c}
        /\ \A m \in Node \ {n} : pending'[m] = pending[m]
    BY <2>1 DEF TypeOK
  <2>5. SUFFICES ASSUME NEW m \in Node, NEW b \in Bundle, Dest[b] = m
        PROVE  /\ b \in pending'[m] => deliveries'[b] > 0
               /\ Waits(m, <<"expired", b>>)' => b \in over'[m] /\ deliveries'[b] > 0
    BY <2>2 DEF Delivered
  <2>6. /\ b \in pending[m] => deliveries[b] > 0
        /\ Waits(m, <<"expired", b>>) => b \in over[m] /\ deliveries[b] > 0
    BY <2>5 DEF Delivered
  <2>7. deliveries[b] > 0 => deliveries'[b] > 0
    <3>1. deliveries[b] \in Nat /\ deliveries'[b] \in {deliveries[b], deliveries[b] + 1}
      BY <1>1, <2>1
    <3> QED
      BY <3>1
  <2> QED
    BY <2>2, <2>3, <2>4, <2>5, <2>6, <2>7
<1> QED
  BY <1>2, <1>3

LEMMA DeliveredExpire ==
  ASSUME TypeOK, Delivered, NEW n \in Node, NEW c \in Bundle, Expire(n, c)
  PROVE  Delivered'
<1>1. /\ pending' = [pending EXCEPT ![n] = @ \ {c}] /\ over' = [over EXCEPT ![n] = @ \cup {c}]
      /\ deliveries' = deliveries
      /\ IF c \in pending[n] THEN Tells(n, <<"expired", c>>) ELSE UNCHANGED events
  BY DEF Expire
<1>2. /\ \A m \in Node : pending'[m] \subseteq pending[m] /\ over[m] \subseteq over'[m]
      /\ c \in over'[n]
  BY <1>1 DEF TypeOK
<1>3. ASSUME NEW m \in Node, NEW b \in Bundle, Waits(m, <<"expired", b>>)'
      PROVE  Waits(m, <<"expired", b>>) \/ (m = n /\ b = c /\ c \in pending[n])
  <2>1. CASE c \in pending[n] /\ m = n /\ Runs(n)
    <3>1. Told(n, <<"expired", c>>)
      BY <1>1, <2>1, Events, TellsQueue
    <3>2. Waits(n, <<"expired", b>>)'
      BY <1>3, <2>1
    <3>3. Waits(n, <<"expired", b>>) \/ <<"expired", b>> = <<"expired", c>>
      BY <3>1, <3>2, ToldWaits
    <3>4. <<"expired", b>> = <<"expired", c>> => b = c
      OBVIOUS
    <3> QED
      BY <2>1, <3>3, <3>4
  <2>2. CASE ~(c \in pending[n] /\ m = n /\ Runs(n))
    <3>1. events'[m] = events[m]
      BY <1>1, <2>2, Events, TellsQueue
    <3>2. Waits(m, <<"expired", b>>)
      BY <1>3, <3>1 DEF Waits
    <3> QED
      BY <3>2
  <2> QED
    BY <2>1, <2>2
<1> QED
  BY <1>1, <1>2, <1>3 DEF Delivered

LEMMA DeliveredStep == TypeOK /\ TypeOK' /\ Delivered /\ [Next]_vars => Delivered'
<1> SUFFICES ASSUME TypeOK, TypeOK', Delivered, [Next]_vars PROVE Delivered'
  OBVIOUS
<1>1. ASSUME NEW b \in Bundle, Create(b) PROVE Delivered'
  BY <1>1, DeliveredReceive, SessionAssumption DEF Create
<1>2. ASSUME NEW n \in Node, NEW b \in Bundle, Arrive(n, b) PROVE Delivered'
  BY <1>2, DeliveredReceive DEF Arrive
<1>3. ASSUME NEW n \in Node, VectorArrives(n) PROVE Delivered'
  <2>1. PICK v \in vectors[Other(n)] : ArriveVector(n, v)
    BY <1>3 DEF VectorArrives
  <2>2. v \in Vector
    BY DEF TypeOK, Other, Node
  <2>3. Tells(n, <<"vector", v>>) /\ UNCHANGED <<pending, over, deliveries>>
    BY <2>1 DEF ArriveVector, dtndVars
  <2> QED
    BY <2>2, <2>3, Events, DeliveredNews
<1>4. ASSUME NEW n \in Node, NEW b \in Bundle, Expire(n, b) PROVE Delivered'
  BY <1>4, DeliveredExpire
<1>5. CASE Open \/ Break
  BY <1>5, Events, DeliveredNews DEF Open, Break, dtndVars
<1>6. ASSUME NEW n \in Node, Main(n) PROVE Delivered'
  BY <1>6, DeliveredTaken
     DEF Main, HandleOpened, HandleClosed, HandleDelivery, HandleReceived,
         HandleExpired, dtndVars
<1>7. ASSUME UNCHANGED <<pending, over, deliveries, events>> PROVE Delivered'
  BY <1>7, DeliveredSame DEF Waits
<1>8. CASE HandleHello \/ UNCHANGED vars
  BY <1>7, <1>8 DEF HandleHello, vars, dtndVars
<1>9. ASSUME NEW n \in Node, Peer(n) PROVE Delivered'
  BY <1>7, <1>9 DEF Peer, PeerCompare, PeerNoLink, dtndVars
<1> QED
  BY <1>1, <1>2, <1>3, <1>4, <1>5, <1>6, <1>8, <1>9 DEF Next
------------------------------------------------------------------------------
(* The link is heard of before what comes over it *)

LEMMA HearsSame ==
  ASSUME NEW n \in Node, Hears(n), events'[n] = events[n],
         linked'[n] = linked[n], msgQueue'[n] \subseteq msgQueue[n],
         up' /\ Runs(n)' => up /\ Runs(n)
  PROVE  Hears(n)'
<1>1. \A event : Waits(n, event)' <=> Waits(n, event)
  BY DEF Waits
<1>2. \A i \in 1 .. Len(events[n]) :
        /\ IsVector(n, i)' <=> IsVector(n, i)
        /\ Is(n, i, <<"opened">>)' <=> Is(n, i, <<"opened">>)
  BY DEF IsVector, Is
<1> QED
  BY <1>1, <1>2 DEF Hears

LEMMA HearsTold ==
  ASSUME TypeOK, NEW n \in Node, Hears(n), NEW news, Told(n, news),
         news # <<"closed">>, news[1] = "vector" => up /\ Runs(n),
         linked'[n] = linked[n], msgQueue'[n] = msgQueue[n],
         up' /\ Runs(n)' => (up /\ Runs(n)) \/ news = <<"opened">>
  PROVE  Hears(n)'
<1>1. Len(events[n]) \in Nat /\ Len(events'[n]) = Len(events[n]) + 1
  BY Lengths DEF Told
<1>2. \A event : Waits(n, event)' <=> Waits(n, event) \/ event = news
  BY ToldWaits
<1>3. ASSUME ~linked[n], NEW j \in 1 .. Len(events'[n]), IsVector(n, j)'
      PROVE  \E i \in 1 .. Len(events'[n]) : i < j /\ Is(n, i, <<"opened">>)'
  <2>1. PICK i \in 1 .. Len(events[n]) : i < j /\ events[n][i] = <<"opened">>
    <3>1. CASE j \in 1 .. Len(events[n])
      BY <1>3, <3>1 DEF Hears, IsVector, Is, Told
    <3>2. CASE j = Len(events[n]) + 1
      <4>1. Waits(n, <<"opened">>)
        BY <1>3, <3>2 DEF Hears, IsVector, Told
      <4> QED
        BY <1>1, <3>2, <4>1 DEF Waits
    <3> QED
      BY <1>1, <3>1, <3>2
  <2>2. i \in 1 .. Len(events'[n]) /\ events'[n][i] = <<"opened">>
    BY <1>1, <2>1 DEF Told
  <2> QED
    BY <2>1, <2>2 DEF Is
<1> QED
  BY <1>2, <1>3 DEF Hears

LEMMA HearsTaken ==
  ASSUME TypeOK, TypeOK', NEW n \in Node, Hears(n), NEW kind, Takes(n, kind),
         kind = "opened" => linked'[n],
         kind # "opened" => linked'[n] = linked[n],
         kind # "vector" => msgQueue'[n] = msgQueue[n],
         up' = up
  PROVE  Hears(n)' /\ kind # "closed"
<1> DEFINE first == Head(events[n])
<1>1. Taken(n, first) /\ first \in Event /\ first[1] = kind /\ Runs(n)
  BY TakesQueue
<1>2. /\ kind = "opened" => first = <<"opened">>
      /\ kind = "closed" => first = <<"closed">>
  BY FirstIs
<1>3. PICK head : head = first
  OBVIOUS
<1> HIDE DEF first
<1>4. Len(events[n]) \in Nat /\ Len(events'[n]) \in Nat
  <2>1. events[n] \in Seq(Event) /\ events'[n] \in Seq(Event)
    BY DEF TypeOK
  <2> QED
    BY <2>1
<1>5. /\ Len(events[n]) = Len(events'[n]) + 1 /\ events[n][1] = head
      /\ 1 \in 1 .. Len(events[n])
  BY <1>1, <1>3, <1>4 DEF Taken
<1>6. \A event : Waits(n, event) <=> Waits(n, event)' \/ event = head
  BY <1>1, <1>3, TakenWaits
<1>7. kind # "closed" /\ ~Waits(n, <<"closed">>)'
  BY <1>2, <1>3, <1>6 DEF Hears
<1>8. CASE kind = "opened"
  BY <1>7, <1>8 DEF Hears
<1>9. CASE kind # "opened"
  <2>1. SUFFICES ASSUME ~linked[n]
        PROVE  /\ msgQueue'[n] = {}
               /\ \A j \in 1 .. Len(events'[n]) : IsVector(n, j)' =>
                    \E i \in 1 .. Len(events'[n]) : i < j /\ Is(n, i, <<"opened">>)'
               /\ up' /\ Runs(n)' => Waits(n, <<"opened">>)'
    BY <1>7, <1>9 DEF Hears
  <2>2. kind # "vector"
    <3>1. SUFFICES ASSUME kind = "vector" PROVE FALSE
      OBVIOUS
    <3>2. IsVector(n, 1)
      BY <1>1, <1>3, <1>5, <3>1 DEF IsVector
    <3>3. PICK i \in 1 .. Len(events[n]) : i < 1
      BY <1>5, <2>1, <3>2 DEF Hears
    <3> QED
      BY <3>3
  <2>3. head # <<"opened">>
    BY <1>1, <1>3, <1>9
  <2>4. ASSUME NEW j \in 1 .. Len(events'[n]), IsVector(n, j)'
        PROVE  \E i \in 1 .. Len(events'[n]) : i < j /\ Is(n, i, <<"opened">>)'
    <3>1. j + 1 \in 1 .. Len(events[n]) /\ events'[n][j] = events[n][j + 1]
      BY <1>1, <1>4 DEF Taken
    <3>2. IsVector(n, j + 1)
      BY <2>4, <3>1 DEF IsVector
    <3>3. PICK i \in 1 .. Len(events[n]) : i < j + 1 /\ events[n][i] = <<"opened">>
      BY <2>1, <3>1, <3>2 DEF Hears, Is
    <3>4. i # 1
      BY <1>5, <2>3, <3>3
    <3>5. i - 1 \in 1 .. Len(events'[n]) /\ i - 1 < j
      BY <1>4, <1>5, <3>3, <3>4
    <3>6. events'[n][i - 1] = events[n][i]
      BY <1>1, <3>5 DEF Taken
    <3> QED
      BY <3>3, <3>5, <3>6 DEF Is
  <2>5. up' /\ Runs(n)' => Waits(n, <<"opened">>)'
    BY <1>1, <1>6, <2>1, <2>3 DEF Hears
  <2>6. msgQueue'[n] = {}
    BY <2>1, <2>2 DEF Hears
  <2> QED
    BY <2>4, <2>5, <2>6
<1> QED
  BY <1>7, <1>8, <1>9

LEMMA HearsQuiet ==
  ASSUME HearsFirst, UNCHANGED <<events, linked, breaks, up>>,
         \A n \in Node : msgQueue'[n] \subseteq msgQueue[n],
         \A n \in Node : Runs(n)' => Runs(n)
  PROVE  HearsFirst'
<1> SUFFICES ASSUME breaks = 0, NEW n \in Node PROVE Hears(n)'
  BY DEF HearsFirst
<1>1. Hears(n)
  BY DEF HearsFirst
<1> QED
  BY <1>1, HearsSame

LEMMA HearsNews ==
  ASSUME TypeOK, HearsFirst, NEW n \in Node, NEW news \in Event,
         Tells(n, news), news # <<"closed">>, news[1] = "vector" => up,
         UNCHANGED <<up, breaks, linked, msgQueue, halted>>
  PROVE  HearsFirst'
<1> SUFFICES ASSUME breaks = 0, NEW m \in Node PROVE Hears(m)'
  BY DEF HearsFirst
<1>1. Hears(m)
  BY DEF HearsFirst
<1>2. Runs(m)' <=> Runs(m)
  BY DEF Runs
<1>3. CASE m = n /\ Runs(n)
  <2>1. Told(m, news)
    BY <1>3, TellsQueue
  <2> QED
    BY <1>1, <1>2, <1>3, <2>1, HearsTold
<1>4. CASE ~(m = n /\ Runs(n))
  <2>1. events'[m] = events[m]
    BY <1>4, TellsQueue
  <2> QED
    BY <1>1, <1>2, <2>1, HearsSame
<1> QED
  BY <1>3, <1>4

LEMMA HearsReceive ==
  ASSUME TypeOK, HearsFirst, NEW n \in Node, NEW b \in Bundle, Receive(n, b),
         UNCHANGED <<linkVars, routerVars>>
  PROVE  HearsFirst'
<1>1. UNCHANGED <<up, breaks, linked, msgQueue, halted>>
  BY DEF linkVars, routerVars
<1>2. CASE Tells(n, <<"received", b>>)
  <2>1. <<"received", b>> \in Event
    BY Events
  <2>2. <<"received", b>> # <<"closed">> /\ <<"received", b>>[1] # "vector"
    OBVIOUS
  <2> QED
    BY <1>1, <1>2, <2>1, <2>2, HearsNews
<1>3. CASE UNCHANGED events
  BY <1>1, <1>3, HearsQuiet DEF Runs
<1> QED
  BY <1>2, <1>3 DEF Receive

LEMMA HearsOpen ==
  ASSUME TypeOK, HearsFirst, Open PROVE HearsFirst'
<1> SUFFICES ASSUME breaks = 0, NEW n \in Node PROVE Hears(n)'
  BY DEF Open, HearsFirst
<1>1. Hears(n) /\ (Runs(n)' <=> Runs(n))
  BY DEF HearsFirst, Open, routerVars, Runs
<1>2. UNCHANGED <<linked, msgQueue>> /\ TellBoth(<<"opened">>)
  BY DEF Open, routerVars
<1>3. <<"opened">> \in Event /\ <<"opened">> # <<"closed">> /\ <<"opened">>[1] # "vector"
  BY Events
<1>4. CASE Runs(n)
  <2>1. Told(n, <<"opened">>)
    BY <1>2, <1>3, <1>4, TellBothQueue
  <2> QED
    BY <1>1, <1>2, <1>3, <2>1, HearsTold
<1>5. CASE ~Runs(n)
  <2>1. events'[n] = events[n]
    BY <1>2, <1>3, <1>5, TellBothQueue
  <2> QED
    BY <1>1, <1>2, <1>5, <2>1, HearsSame
<1> QED
  BY <1>4, <1>5

LEMMA HearsMain ==
  ASSUME TypeOK, TypeOK', HearsFirst, NEW n \in Node, Main(n)
  PROVE  HearsFirst'
<1> SUFFICES ASSUME breaks = 0, NEW m \in Node PROVE Hears(m)'
  <2>1. breaks' = breaks
    BY DEF Main, HandleOpened, HandleClosed, HandleDelivery, HandleReceived,
           HandleExpired, linkVars
  <2> QED
    BY <2>1 DEF HearsFirst
<1>1. Hears(m) /\ Hears(n)
  BY DEF HearsFirst
<1>2. PICK kind : /\ Takes(n, kind) /\ up' = up
                  /\ kind = "opened" => linked' = [linked EXCEPT ![n] = TRUE]
                  /\ kind = "closed" => linked' = [linked EXCEPT ![n] = FALSE]
                  /\ kind \notin {"opened", "closed"} => linked' = linked
                  /\ kind = "vector" => msgQueue' = [msgQueue EXCEPT ![n] = @ \cup {Subject(n)}]
                  /\ kind # "vector" => msgQueue' = msgQueue
                  /\ \A i \in Node \ {n} : halted'[i] = halted[i]
  <2>1. CASE HandleOpened(n)
    BY <2>1 DEF HandleOpened, linkVars
  <2>2. CASE HandleClosed(n)
    BY <2>2 DEF HandleClosed, linkVars
  <2>3. CASE HandleDelivery(n)
    BY <2>3 DEF HandleDelivery, linkVars
  <2>4. CASE HandleReceived(n)
    BY <2>4 DEF HandleReceived, linkVars
  <2>5. CASE HandleExpired(n)
    <3>1. \A i \in Node \ {n} : halted'[i] = halted[i]
      BY <2>5 DEF HandleExpired, TypeOK
    <3> QED
      BY <2>5, <3>1 DEF HandleExpired, linkVars
  <2> QED
    BY <2>1, <2>2, <2>3, <2>4, <2>5 DEF Main
<1>3. /\ linked \in [Node -> BOOLEAN] /\ msgQueue \in [Node -> SUBSET Vector]
  BY DEF TypeOK
<1>4. Hears(n)' /\ kind # "closed"
  <2>1. kind = "opened" => linked'[n]
    BY <1>2, <1>3
  <2>2. CASE kind = "closed"
    \* As long as no link has broken, no such datagram waits.
    <3>1. Waits(n, <<"closed">>)
      <4>1. Taken(n, Head(events[n])) /\ Head(events[n]) = <<"closed">>
        BY <1>2, <2>2, TakesQueue, FirstIs
      <4> QED
        BY <4>1, TakenWaits
    <3> QED
      BY <1>1, <3>1 DEF Hears
  <2>3. CASE kind # "closed"
    <3>1. kind # "opened" => linked'[n] = linked[n]
      BY <1>2, <2>3
    <3>2. kind # "vector" => msgQueue'[n] = msgQueue[n]
      BY <1>2
    <3> QED
      BY <1>1, <1>2, <2>1, <3>1, <3>2, HearsTaken
  <2> QED
    BY <2>2, <2>3
<1>5. CASE m # n
  <2>1. /\ events'[m] = events[m] /\ linked'[m] = linked[m]
        /\ msgQueue'[m] = msgQueue[m]
    BY <1>2, <1>3, <1>4, <1>5, TakesQueue
  <2>2. Runs(m)' <=> Runs(m)
    BY <1>2, <1>5 DEF Runs
  <2> QED
    BY <1>1, <1>2, <2>1, <2>2, HearsSame
<1> QED
  BY <1>4, <1>5

LEMMA BreaksCount == TypeOK => breaks \in Nat
<1> SUFFICES ASSUME TypeOK PROVE breaks \in Nat
  OBVIOUS
<1>1. breaks \in 0 .. MaxBreaks
  BY DEF TypeOK
<1>2. MaxBreaks \in Nat
  BY SessionAssumption
<1> QED
  BY <1>1, <1>2

LEMMA DeliveriesCount ==
  ASSUME TypeOK, deliveries' = deliveries
  PROVE  \A b \in Bundle : deliveries'[b] >= deliveries[b]
<1>1. \A b \in Bundle : deliveries[b] \in Nat
  BY DEF TypeOK
<1> QED
  BY <1>1

LEMMA HearsFirstStep == TypeOK /\ TypeOK' /\ HearsFirst /\ [Next]_vars => HearsFirst'
<1> SUFFICES ASSUME TypeOK, TypeOK', HearsFirst, [Next]_vars PROVE HearsFirst'
  OBVIOUS
<1>1. ASSUME NEW b \in Bundle, Create(b) PROVE HearsFirst'
  BY <1>1, HearsReceive, SessionAssumption DEF Create
<1>2. ASSUME NEW n \in Node, NEW b \in Bundle, Arrive(n, b) PROVE HearsFirst'
  BY <1>2, HearsReceive DEF Arrive
<1>3. ASSUME NEW n \in Node, VectorArrives(n) PROVE HearsFirst'
  <2>1. PICK v \in vectors[Other(n)] : ArriveVector(n, v)
    BY <1>3 DEF VectorArrives
  <2>2. v \in Vector
    BY DEF TypeOK, Other, Node
  <2>3. /\ Tells(n, <<"vector", v>>) /\ up
        /\ UNCHANGED <<up, breaks, linked, msgQueue, halted>>
    BY <2>1 DEF ArriveVector, linkVars, routerVars
  <2>4. <<"vector", v>> \in Event /\ <<"vector", v>> # <<"closed">>
    BY <2>2, Events
  <2> QED
    BY <2>3, <2>4, HearsNews
<1>4. ASSUME NEW n \in Node, NEW b \in Bundle, Expire(n, b) PROVE HearsFirst'
  <2>1. UNCHANGED <<up, breaks, linked, msgQueue, halted>>
    BY <1>4 DEF Expire, linkVars, routerVars
  <2>2. CASE Tells(n, <<"expired", b>>)
    <3>1. <<"expired", b>> \in Event
      BY Events
    <3>2. <<"expired", b>> # <<"closed">> /\ <<"expired", b>>[1] # "vector"
      OBVIOUS
    <3> QED
      BY <2>1, <2>2, <3>1, <3>2, HearsNews
  <2>3. CASE UNCHANGED events
    BY <2>1, <2>3, HearsQuiet DEF Runs
  <2> QED
    BY <1>4, <2>2, <2>3 DEF Expire
<1>5. CASE Break
  <2>1. breaks' = breaks + 1 /\ breaks \in Nat
    BY <1>5, BreaksCount DEF Break
  <2> QED
    BY <2>1 DEF HearsFirst
<1>6. CASE HandleHello \/ UNCHANGED vars
  BY <1>6, HearsQuiet
     DEF HandleHello, vars, dtndVars, linkVars, routerVars, Runs
<1>7. ASSUME NEW n \in Node, NEW v \in msgQueue[n], PeerCompare(n, v) PROVE HearsFirst'
  <2>1. /\ UNCHANGED <<events, linked, breaks, up, halted>>
        /\ msgQueue' = [msgQueue EXCEPT ![n] = @ \ {v}]
    BY <1>7 DEF PeerCompare, linkVars
  <2>2. \A m \in Node : msgQueue'[m] \subseteq msgQueue[m]
    BY <2>1 DEF TypeOK
  <2> QED
    BY <2>1, <2>2, HearsQuiet DEF Runs
<1>8. ASSUME NEW n \in Node, PeerNoLink(n) PROVE HearsFirst'
  <2>1. UNCHANGED <<events, linked, breaks, up, msgQueue>>
    BY <1>8 DEF PeerNoLink, linkVars
  <2>2. \A m \in Node : Runs(m)' => Runs(m)
    BY <1>8 DEF PeerNoLink, TypeOK, Runs
  <2> QED
    BY <2>1, <2>2, HearsQuiet
<1> QED
  BY <1>1, <1>2, <1>3, <1>4, <1>5, <1>6, <1>7, <1>8, HearsOpen, HearsMain
     DEF Next, Peer
------------------------------------------------------------------------------
(* Why a router stops *)

LEMMA HaltsSame ==
  ASSUME HaltsForCause, TypeOK, TypeOK', halted' = halted, breaks' >= breaks,
         \A n \in Node : over[n] \subseteq over'[n],
         \A b \in Bundle : deliveries'[b] >= deliveries[b]
  PROVE  HaltsForCause'
<1> SUFFICES ASSUME NEW n \in Node
    PROVE /\ halted[n] = "no link" => breaks' > 0
          /\ halted[n] = "lock" =>
               \E b \in over'[n] : Dest[b] = n /\ deliveries'[b] > 0
  BY DEF HaltsForCause
<1>1. breaks \in Nat /\ breaks' \in Nat
  <2>1. breaks' \in 0 .. MaxBreaks
    BY DEF TypeOK
  <2>2. MaxBreaks \in Nat
    BY SessionAssumption
  <2>3. breaks' \in Nat
    BY <2>1, <2>2
  <2> QED
    BY <2>3, BreaksCount
<1>2. CASE halted[n] = "no link"
  <2>1. breaks > 0
    BY <1>2 DEF HaltsForCause
  <2>2. breaks' > 0
    BY <1>1, <2>1
  <2>3. halted[n] # "lock"
    BY <1>2
  <2> QED
    BY <1>1, <1>2, <2>2, <2>3
<1>3. CASE halted[n] = "lock"
  <2>1. PICK b \in over[n] : Dest[b] = n /\ deliveries[b] > 0
    BY <1>3 DEF HaltsForCause
  <2>2. b \in Bundle /\ deliveries[b] \in Nat /\ deliveries'[b] \in Nat
    BY <2>1 DEF TypeOK
  <2>3. b \in over'[n] /\ deliveries'[b] > 0
    BY <2>1, <2>2
  <2> QED
    BY <1>3, <2>1, <2>3
<1> QED
  BY <1>2, <1>3

LEMMA HaltsQuiet ==
  ASSUME HaltsForCause, TypeOK, TypeOK',
         UNCHANGED <<halted, breaks, over, deliveries>>
  PROVE  HaltsForCause'
BY DEF HaltsForCause

LEMMA HaltsNoLink ==
  ASSUME TypeOK, HearsFirst, HaltsForCause, NEW n \in Node, PeerNoLink(n)
  PROVE  HaltsForCause'
<1>1. breaks > 0
  <2>1. ~linked[n] /\ msgQueue[n] # {}
    BY DEF PeerNoLink
  <2>2. breaks # 0
    BY <2>1 DEF HearsFirst, Hears
  <2> QED
    BY <2>2, BreaksCount
<1>2. /\ halted' = [halted EXCEPT ![n] = "no link"]
      /\ UNCHANGED <<breaks, over, deliveries>>
  BY DEF PeerNoLink, dtndVars, linkVars
<1>3. \A m \in Node : halted'[m] = "lock" => halted[m] = "lock"
  BY <1>2 DEF TypeOK
<1> QED
  BY <1>1, <1>2, <1>3 DEF HaltsForCause

LEMMA HaltsExpired ==
  ASSUME TypeOK, TypeOK', Delivered, HaltsForCause, NEW n \in Node, HandleExpired(n)
  PROVE  HaltsForCause'
<1>1. UNCHANGED <<breaks, over, deliveries>> /\ Takes(n, "expired")
  BY DEF HandleExpired, dtndVars, linkVars
<1>2. CASE Dest[Subject(n)] = n
  <2>1. Head(events[n]) = <<"expired", Subject(n)>> /\ Subject(n) \in Bundle
    BY <1>1, FirstIs
  <2>2. Waits(n, <<"expired", Subject(n)>>)
    <3>1. Taken(n, Head(events[n]))
      BY <1>1, TakesQueue
    <3> QED
      BY <2>1, <3>1, TakenWaits
  <2>3. Subject(n) \in over[n] /\ deliveries[Subject(n)] > 0
    BY <1>2, <2>1, <2>2 DEF Delivered
  <2>4. halted' = [halted EXCEPT ![n] = "lock"]
    BY <1>2 DEF HandleExpired
  <2>5. \A m \in Node \ {n} : halted'[m] = halted[m]
    BY <2>4 DEF TypeOK
  <2>6. halted'[n] = "lock"
    BY <2>4 DEF TypeOK
  <2> SUFFICES ASSUME NEW m \in Node
      PROVE /\ halted'[m] = "no link" => breaks > 0
            /\ halted'[m] = "lock" => \E b \in over[m] : Dest[b] = m /\ deliveries[b] > 0
    BY <1>1 DEF HaltsForCause
  <2>7. CASE m = n
    BY <1>2, <2>3, <2>6, <2>7
  <2>8. CASE m # n
    BY <2>5, <2>8 DEF HaltsForCause
  <2> QED
    BY <2>7, <2>8
<1>3. CASE Dest[Subject(n)] # n
  BY <1>1, <1>3, HaltsQuiet DEF HandleExpired
<1> QED
  BY <1>2, <1>3

LEMMA HaltsStep ==
  TypeOK /\ TypeOK' /\ Delivered /\ HearsFirst /\ HaltsForCause /\ [Next]_vars
    => HaltsForCause'
<1> SUFFICES ASSUME TypeOK, TypeOK', Delivered, HearsFirst, HaltsForCause, [Next]_vars
    PROVE HaltsForCause'
  OBVIOUS
<1>1. ASSUME NEW n \in Node, NEW b \in Bundle, Receive(n, b),
             UNCHANGED <<over, linkVars, routerVars>>
      PROVE  HaltsForCause'
  <2>1. \A c \in Bundle : deliveries'[c] >= deliveries[c]
    <3>1. deliveries \in [Bundle -> Nat]
      BY DEF TypeOK
    <3>2. \/ deliveries' = deliveries
          \/ deliveries' = [deliveries EXCEPT ![b] = @ + 1]
      BY <1>1 DEF Receive
    <3> QED
      BY <3>1, <3>2
  <2>2. breaks' >= breaks
    BY <1>1, BreaksCount DEF linkVars
  <2> QED
    BY <1>1, <2>1, <2>2, HaltsSame DEF routerVars
<1>2. ASSUME NEW b \in Bundle, Create(b) PROVE HaltsForCause'
  BY <1>1, <1>2, SessionAssumption DEF Create
<1>3. ASSUME NEW n \in Node, NEW b \in Bundle, Arrive(n, b) PROVE HaltsForCause'
  BY <1>1, <1>3 DEF Arrive
<1>4. ASSUME NEW n \in Node, NEW b \in Bundle, Expire(n, b) PROVE HaltsForCause'
  <2>1. UNCHANGED <<halted, breaks, deliveries>>
    BY <1>4 DEF Expire, linkVars, routerVars
  <2>2. \A m \in Node : over[m] \subseteq over'[m]
    BY <1>4 DEF Expire, TypeOK
  <2>3. breaks' >= breaks /\ \A c \in Bundle : deliveries'[c] >= deliveries[c]
    BY <2>1, BreaksCount, DeliveriesCount
  <2> QED
    BY <2>1, <2>2, <2>3, HaltsSame
<1>5. CASE Break
  <2>1. UNCHANGED <<halted, over, deliveries>>
    BY <1>5 DEF Break, routerVars
  <2>2. breaks' = breaks + 1 /\ breaks \in Nat
    BY <1>5, BreaksCount DEF Break
  <2>3. breaks' >= breaks /\ \A c \in Bundle : deliveries'[c] >= deliveries[c]
    BY <2>1, <2>2, DeliveriesCount
  <2> QED
    BY <2>1, <2>3, HaltsSame
<1>6. CASE Open \/ HandleHello \/ UNCHANGED vars
  BY <1>6, HaltsQuiet DEF Open, HandleHello, vars, dtndVars, linkVars, routerVars
<1>7. ASSUME NEW n \in Node, Main(n) PROVE HaltsForCause'
  <2>1. CASE HandleExpired(n)
    BY <2>1, HaltsExpired
  <2>2. CASE ~HandleExpired(n)
    BY <1>7, <2>2, HaltsQuiet
       DEF Main, HandleOpened, HandleClosed, HandleDelivery, HandleReceived,
           dtndVars, linkVars
  <2> QED
    BY <2>1, <2>2
<1>8. ASSUME NEW n \in Node, VectorArrives(n) PROVE HaltsForCause'
  BY <1>8, HaltsQuiet DEF VectorArrives, ArriveVector, dtndVars, linkVars, routerVars
<1>9. ASSUME NEW n \in Node, NEW v \in msgQueue[n], PeerCompare(n, v)
      PROVE  HaltsForCause'
  BY <1>9, HaltsQuiet DEF PeerCompare, linkVars
<1> QED
  BY <1>2, <1>3, <1>4, <1>5, <1>6, <1>7, <1>8, <1>9, HaltsNoLink DEF Next, Peer
------------------------------------------------------------------------------
(* The theorems *)

LEMMA Start == Init => IInv
<1> SUFFICES ASSUME Init PROVE IInv
  OBVIOUS
<1>1. TypeOK
  BY InitType
<1>2. \A n \in Node : /\ events[n] = <<>> /\ buffer[n] = {} /\ pending[n] = {}
                      /\ msgQueue[n] = {} /\ halted[n] = "no" /\ ~up
  BY DEF Init, Nothing
<1>3. \A n \in Node : 1 .. Len(events[n]) = {}
  BY <1>2
<1>4. Followed
  BY <1>2, <1>3 DEF Followed, Follows, ToldInOrder, Behind, Is, Waits
<1>5. Delivered
  BY <1>2, <1>3 DEF Delivered, Waits
<1>6. HearsFirst
  BY <1>2, <1>3 DEF HearsFirst, Hears, Waits, Runs
<1>7. HaltsForCause
  BY <1>2 DEF HaltsForCause
<1> QED
  BY <1>1, <1>4, <1>5, <1>6, <1>7 DEF IInv

THEOREM Invariance == Spec => []IInv
<1>1. IInv /\ [Next]_vars => IInv'
  BY TypeStep, FollowedStep, DeliveredStep, HearsFirstStep, HaltsStep DEF IInv
<1> QED
  BY Start, <1>1, PTL DEF Spec

\* A router that runs is as far behind its dtnd as the datagrams between them:
\* HandleReceived and HandleExpired against Receive and Expire.
THEOREM Following == Spec => []InStep
<1>1. ASSUME TypeOK, Followed PROVE InStep
  <2> SUFFICES ASSUME NEW n \in Node, NEW b \in Bundle, Runs(n),
                      ~\E i \in DOMAIN events[n] :
                         events[n][i] \in {<<"received", b>>, <<"expired", b>>}
               PROVE  b \in buffer[n] <=> b \in pending[n] /\ Dest[b] # n
    BY DEF InStep
  <2>1. DOMAIN events[n] = 1 .. Len(events[n])
    <3>1. events[n] \in Seq(Event)
      BY <1>1 DEF TypeOK
    <3> QED
      BY <3>1
  <2>2. ~Waits(n, <<"received", b>>) /\ ~Waits(n, <<"expired", b>>)
    BY <2>1 DEF Waits
  <2>3. Behind(n, b)
    BY <1>1 DEF Followed, Follows
  <2> QED
    BY <2>2, <2>3 DEF Behind
<1>2. IInv => InStep
  BY <1>1 DEF IInv
<1> QED
  BY Invariance, <1>2, PTL

\* A router stops only after a break of the link (the assertion of
\* compareAndSend) or at the end of a bundle for its own node (the lock expire
\* keeps), in whatever order vectors, bundles and events come.
THEOREM Halting == Spec => []HaltsForCause
<1>1. IInv => HaltsForCause
  BY DEF IInv
<1> QED
  BY Invariance, <1>1, PTL

LEMMA ReceiveSpreads ==
  ASSUME NEW n \in Node, NEW b \in Bundle, Receive(n, b), UNCHANGED over
  PROVE  \/ Spread!Take(n, b)
         \/ b \in pending[n] \cup over[n] /\ UNCHANGED <<pending, deliveries>>
<1>1. CASE Duplicate(n, b) \/ TooLate(n, b)
  BY <1>1 DEF Receive, Duplicate, TooLate
<1>2. CASE ~(Duplicate(n, b) \/ TooLate(n, b))
  <2>1. b \notin pending[n] \cup over[n]
    BY <1>2 DEF Duplicate, TooLate
  <2> QED
    BY <1>2, <2>1 DEF Receive, Spread!Take
<1> QED
  BY <1>1, <1>2

\* To applications two nodes whose routers exchange summary vectors are the
\* epidemic of Epidemic: Create, Arrive and Expire are its steps, and nothing
\* the routers do is one.
THEOREM Refinement == Spec => EpidemicSpec
<1>1. Init => Spread!Init
  BY DEF Init, Spread!Init, Nothing
<1>2. ASSUME TypeOK, [Next]_vars
      PROVE  [Spread!Next]_<<made, pending, over, deliveries>>
  <2>1. ASSUME NEW b \in Bundle, Create(b) PROVE Spread!Next
    <3>1. Origin[b] \in Node
      BY SessionAssumption
    <3>2. b \notin pending[Origin[b]] \cup over[Origin[b]]
      BY <1>2, <2>1, <3>1 DEF Create, TypeOK
    <3>3. Spread!Take(Origin[b], b)
      BY <2>1, <3>1, <3>2, ReceiveSpreads DEF Create
    <3>4. Spread!Create(b)
      BY <2>1, <3>3 DEF Create, Spread!Create
    <3> QED
      BY <3>4 DEF Spread!Next
  <2>2. ASSUME NEW n \in Node, NEW b \in Bundle, Arrive(n, b)
        PROVE  Spread!Next \/ UNCHANGED <<made, pending, over, deliveries>>
    <3>1. b \in made
      BY <1>2, <2>2 DEF Arrive, TypeOK, Other, Node
    <3>2. Receive(n, b) /\ UNCHANGED <<made, over>>
      BY <2>2 DEF Arrive
    <3>3. CASE Spread!Take(n, b)
      <4>1. Spread!Copy(n, b)
        BY <3>1, <3>2, <3>3 DEF Spread!Copy
      <4> QED
        BY <4>1 DEF Spread!Next
    <3>4. CASE UNCHANGED <<pending, deliveries>>
      BY <3>2, <3>4
    <3> QED
      BY <3>2, <3>3, <3>4, ReceiveSpreads
  <2>3. ASSUME NEW n \in Node, NEW b \in Bundle, Expire(n, b) PROVE Spread!Next
    <3>1. Spread!LifetimeEnds(n, b)
      BY <2>3 DEF Expire, Spread!LifetimeEnds
    <3> QED
      BY <3>1 DEF Spread!Next
  <2>4. CASE Open \/ Break \/ HandleHello \/ UNCHANGED vars
    BY <2>4 DEF Open, Break, HandleHello, vars, dtndVars
  <2>5. ASSUME NEW n \in Node, Main(n) \/ Peer(n)
        PROVE  UNCHANGED <<made, pending, over, deliveries>>
    BY <2>5 DEF Main, HandleOpened, HandleClosed, HandleDelivery, HandleReceived,
                HandleExpired, Peer, PeerCompare, PeerNoLink, dtndVars
  <2>6. ASSUME NEW n \in Node, VectorArrives(n)
        PROVE  UNCHANGED <<made, pending, over, deliveries>>
    BY <2>6 DEF VectorArrives, ArriveVector, dtndVars
  <2> QED
    BY <1>2, <2>1, <2>2, <2>3, <2>4, <2>5, <2>6 DEF Next
<1>3. [Spread!Next]_<<made, pending, over, deliveries>> <=> [Spread!Next]_(Spread!vars)
  BY DEF Spread!vars
<1> QED
  BY <1>1, <1>2, <1>3, TypeCorrect, PTL DEF Spec, EpidemicSpec, Spread!Spec

Promise == INSTANCE EpidemicProofs WITH has <- pending

\* However often garbled vectors make routers send a bundle again, its
\* application gets it at most once.
THEOREM GotOnce == Spec => []Spread!DeliveredOnce
<1>1. Origin \in [Bundle -> Node]
  BY SessionAssumption
<1>2. Promise!Spec => []Promise!DeliveredOnce
  BY <1>1, Promise!AtMostOnce
<1>3. Spread!Spec <=> Promise!Spec
  BY DEF Spread!Spec, Promise!Spec, Spread!Init, Promise!Init, Spread!Next,
         Promise!Next, Spread!vars, Promise!vars, Spread!Create, Promise!Create,
         Spread!Copy, Promise!Copy, Spread!LifetimeEnds, Promise!LifetimeEnds,
         Spread!Take, Promise!Take
<1>4. Spread!DeliveredOnce <=> Promise!DeliveredOnce
  BY DEF Spread!DeliveredOnce, Promise!DeliveredOnce
<1> QED
  BY <1>2, <1>3, <1>4, Refinement, PTL DEF EpidemicSpec
==============================================================================
