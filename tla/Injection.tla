------------------------------ MODULE Injection ------------------------------
(***************************************************************************)
(* How one HBSD router has dtnd inject a bundle: a summary vector for a    *)
(* peer, or the data of a MeDeHa gateway.  Three threads do it, each by    *)
(* the same protocol:                                                      *)
(*                                                                         *)
(*   take a number for the payload file, take a number for the request id, *)
(*   send the request to dtnd, and then put the request on record.         *)
(*                                                                         *)
(* The main thread also takes dtnd's answers and looks the record up.  The *)
(* numbers come from Requester::getAndIncrement, a plain int that no lock  *)
(* protects: it is read, read again, and written one greater.              *)
(*                                                                         *)
(* A request is known by its place in asked, the history of all requests.  *)
(* linksLock, which a hello keeps while it injects, is left out: only the  *)
(* main thread takes it.                                                   *)
(***************************************************************************)
EXTENDS Integers, FiniteSets, Sequences

CONSTANTS
  LinkId,         \* open links
  MaxInjections,  \* bound: injections started
  MaxLosses,      \* bound: datagrams that a socket drops
  NONE

ASSUME InjectionAssumption ==
  /\ MaxInjections \in Nat /\ MaxLosses \in Nat
  /\ NONE \notin LinkId \cup {"main", "peer"}

\* "main" starts a session on an opened link or a hello (EPIDEMIC_SV_1), "peer"
\* is the PeerListener answering (EPIDEMIC_SV_2), "medeha" is the
\* MeDeHaInterface.
Thread == {"main", "peer", "medeha"}

VARIABLES
  injectIdSeq,    \* Requester's counter
  pc,             \* [Thread -> where it is in the protocol]
  use,            \* [Thread -> "file" or "id"], what the next number is for
  tmp,            \* [Thread -> the number that getAndIncrement will return]
  loaded,         \* [Thread -> the operand of its injectIdSeq++]
  link,           \* [Thread -> LinkId or NONE], the link of its vector
  mine,           \* [Thread -> its request that is not on record yet, or 0]
  adding,         \* the MeDeHa request whose bundle the main thread adds, or 0
  bundlesLock,    \* the thread that has Bundles' semaphore, or NONE
  medehaLock,     \* the thread that has injectedMeDeHaBundlesLock, or NONE
  mapInjectedRequests,      \* <<request id, link>>
  mapInjectedMeDeHaBundles, \* the request ids on record
  started,        \* injections begun
  asked,          \* the requests sent so far
  requests,       \* those on their way to dtnd: UDP promises no order
  events,         \* those whose bundle_injected event is on its way back
  forwarded,      \* <<request, link>>: vectors the router had forwarded
  stored,         \* MeDeHa requests whose bundle is added
  dropped,        \* requests whose answer found no record
  lost,           \* requests whose datagram, or answer, was dropped
  ended           \* exit(1) over a request id that is on record

numberVars == <<injectIdSeq, use, tmp, loaded>>
threadVars == <<pc, link, mine, adding>>
lockVars   == <<bundlesLock, medehaLock>>
mapVars    == <<mapInjectedRequests, mapInjectedMeDeHaBundles>>
netVars    == <<asked, requests, events, lost>>
doneVars   == <<forwarded, stored, dropped>>
vars == <<numberVars, threadVars, lockVars, mapVars, started, netVars,
          doneVars, ended>>

Request == [id : Nat, by : Thread, link : LinkId \cup {NONE}]
Asked   == 1 .. Len(asked)

TypeOK ==
  /\ injectIdSeq \in Nat
  /\ pc \in [Thread -> {"idle", "read", "load", "store", "send", "record",
                        "add"}]
  /\ use \in [Thread -> {"file", "id"}]
  /\ tmp \in [Thread -> Nat] /\ loaded \in [Thread -> Nat]
  /\ link \in [Thread -> LinkId \cup {NONE}]
  /\ asked \in Seq(Request)
  /\ mine \in [Thread -> Asked \cup {0}] /\ adding \in Asked \cup {0}
  /\ bundlesLock \in {"main", "peer", NONE}
  /\ medehaLock \in {"main", NONE}
  /\ mapInjectedRequests \subseteq Nat \X LinkId
  /\ mapInjectedMeDeHaBundles \subseteq Nat
  /\ started \in 0 .. MaxInjections
  /\ requests \subseteq Asked /\ events \subseteq Asked
  /\ forwarded \subseteq Asked \X LinkId
  /\ stored \subseteq Asked /\ dropped \subseteq Asked /\ lost \subseteq Asked
  /\ ended \in BOOLEAN

Init ==
  /\ injectIdSeq = 0
  /\ pc = [t \in Thread |-> "idle"]
  /\ use = [t \in Thread |-> "file"]
  /\ tmp = [t \in Thread |-> 0] /\ loaded = [t \in Thread |-> 0]
  /\ link = [t \in Thread |-> NONE]
  /\ mine = [t \in Thread |-> 0] /\ adding = 0
  /\ bundlesLock = NONE /\ medehaLock = NONE
  /\ mapInjectedRequests = {} /\ mapInjectedMeDeHaBundles = {}
  /\ started = 0
  /\ asked = <<>> /\ requests = {} /\ events = {} /\ lost = {}
  /\ forwarded = {} /\ stored = {} /\ dropped = {}
  /\ ended = FALSE

At(t, place)   == ~ended /\ pc[t] = place
Goes(t, place) == pc' = [pc EXCEPT ![t] = place]

------------------------------------------------------------------------------
(* Asking for an injection *)

\* The main thread and the PeerListener take bundlesLock before createSV names
\* the file; the MeDeHaInterface takes nothing.
Start(t) ==
  /\ At(t, "idle") /\ Goes(t, "read")
  /\ started < MaxInjections /\ started' = started + 1
  /\ IF t = "medeha"
       THEN UNCHANGED <<link, bundlesLock>>
       ELSE /\ bundlesLock = NONE /\ bundlesLock' = t
            /\ \E l \in LinkId : link' = [link EXCEPT ![t] = l]
  /\ UNCHANGED <<numberVars, mine, adding, medehaLock, mapVars, netVars,
                 doneVars, ended>>

\* int tmp = injectIdSeq
ReadSeq(t) ==
  /\ At(t, "read") /\ Goes(t, "load")
  /\ tmp' = [tmp EXCEPT ![t] = injectIdSeq]
  /\ UNCHANGED <<injectIdSeq, use, loaded, link, mine, adding, lockVars,
                 mapVars, started, netVars, doneVars, ended>>

\* injectIdSeq++, the load and the store of it.
LoadSeq(t) ==
  /\ At(t, "load") /\ Goes(t, "store")
  /\ loaded' = [loaded EXCEPT ![t] = injectIdSeq]
  /\ UNCHANGED <<injectIdSeq, use, tmp, link, mine, adding, lockVars, mapVars,
                 started, netVars, doneVars, ended>>

\* Mutant of LockAfterFile: createSV gives back nothing.
LockAfterFile_Kept(t) == bundlesLock

\* createSV gives the lock back when the main thread called it, and leaves it
\* with the PeerListener.
LockAfterFile(t) == IF t = "main" THEN NONE ELSE bundlesLock

\* The file is written after its number is taken.
StoreSeq(t) ==
  /\ At(t, "store")
  /\ injectIdSeq' = loaded[t] + 1 /\ loaded' = [loaded EXCEPT ![t] = 0]
  /\ IF use[t] = "file"
       THEN /\ Goes(t, "read") /\ use' = [use EXCEPT ![t] = "id"]
            /\ tmp' = [tmp EXCEPT ![t] = 0]
            /\ bundlesLock' = LockAfterFile(t)
       ELSE Goes(t, "send") /\ UNCHANGED <<use, tmp, bundlesLock>>
  /\ UNCHANGED <<link, mine, adding, medehaLock, mapVars, started, netVars,
                 doneVars, ended>>

\* Mutant of NewRequest: it forgets the link of the session.
NewRequest_NoLink(t) == [id |-> tmp[t], by |-> t, link |-> NONE]

\* The request as dtnd gets it, and what the thread keeps for the record.
NewRequest(t) == [id |-> tmp[t], by |-> t, link |-> link[t]]

\* requestInjectBundle, requestInjectMeDeHaBundle
Send(t) ==
  /\ At(t, "send") /\ Goes(t, "record")
  /\ asked' = Append(asked, NewRequest(t))
  /\ requests' = requests \cup {Len(asked) + 1}
  /\ mine' = [mine EXCEPT ![t] = Len(asked) + 1]
  /\ tmp' = [tmp EXCEPT ![t] = 0] /\ use' = [use EXCEPT ![t] = "file"]
  /\ link' = [link EXCEPT ![t] = NONE]
  /\ UNCHANGED <<injectIdSeq, loaded, adding, lockVars, mapVars, started,
                 events, lost, doneVars, ended>>

\* Mutant of OnRecord: any record at all is taken for this one.
OnRecord_Any(id) == mapInjectedRequests # {}

\* The map has this id.
OnRecord(id) == \E l \in LinkId : <<id, l>> \in mapInjectedRequests

\* addNewInjectedRequest ends the router over an id that is on record.  The exit
\* is in a branch for errors that are logged, as they are with the project's
\* HBSD.conf (logLevel=6).
Record(t) ==
  LET request == asked[mine[t]]
  IN  /\ t # "medeha" /\ At(t, "record")
      /\ IF OnRecord(request.id)
           THEN /\ ended' = TRUE
                /\ UNCHANGED <<pc, mine, bundlesLock, mapInjectedRequests>>
           ELSE /\ mapInjectedRequests' =
                     mapInjectedRequests \cup {<<request.id, request.link>>}
                /\ bundlesLock' = IF t = "peer" THEN NONE ELSE bundlesLock
                /\ Goes(t, "idle") /\ mine' = [mine EXCEPT ![t] = 0]
                /\ UNCHANGED ended
      /\ UNCHANGED <<numberVars, link, adding, medehaLock,
                     mapInjectedMeDeHaBundles, started, netVars, doneVars>>

\* addNewMeDeHaInjectedBundle, likewise, the logging included.
RecordMeDeHa(t) ==
  LET id == asked[mine[t]].id
  IN  /\ t = "medeha" /\ At(t, "record") /\ medehaLock = NONE
      /\ IF id \in mapInjectedMeDeHaBundles
           THEN /\ ended' = TRUE
                /\ UNCHANGED <<pc, mine, mapInjectedMeDeHaBundles>>
           ELSE /\ mapInjectedMeDeHaBundles' =
                     mapInjectedMeDeHaBundles \cup {id}
                /\ Goes(t, "idle") /\ mine' = [mine EXCEPT ![t] = 0]
                /\ UNCHANGED ended
      /\ UNCHANGED <<numberVars, link, adding, lockVars, mapInjectedRequests,
                     started, netVars, doneVars>>

------------------------------------------------------------------------------
(* dtnd *)

RouterOnly == UNCHANGED <<numberVars, threadVars, lockVars, mapVars, started,
                          asked, doneVars, ended>>

DtndInject(n) ==
  /\ n \in requests
  /\ requests' = requests \ {n} /\ events' = events \cup {n}
  /\ RouterOnly /\ UNCHANGED lost

Lose(n) ==
  /\ n \in requests \cup events /\ Cardinality(lost) < MaxLosses
  /\ requests' = requests \ {n} /\ events' = events \ {n}
  /\ lost' = lost \cup {n}
  /\ RouterOnly

------------------------------------------------------------------------------
(* The main thread's handler of bundle_injected *)

\* Mutant of MayHandle: answers are handled while a request is being made.
MayHandle_Anytime == ~ended

\* startRouterLoop takes an event when the handler of the one before is over.
MayHandle == At("main", "idle")

Takes(n) == MayHandle /\ n \in events /\ events' = events \ {n}

\* Mutant of Found: the first record of the map is taken for the one found.
Found_First(n, l) == \E record \in mapInjectedRequests : record[2] = l

\* mapInjectedRequests.find gives this link for the request id of the answer.
Found(n, l) == <<asked[n].id, l>> \in mapInjectedRequests

\* Mutant of Forward: the record is kept.
Forward_KeepsRecord(n, l) ==
  /\ asked[n].by # "medeha" /\ Takes(n) /\ Found(n, l)
  /\ forwarded' = forwarded \cup {<<n, l>>}
  /\ UNCHANGED <<numberVars, threadVars, lockVars, mapVars, started, asked,
                 requests, lost, stored, dropped, ended>>

\* askDtndToForwardTheInjectedBundle, with the id on record.
Forward(n, l) ==
  /\ asked[n].by # "medeha" /\ Takes(n) /\ Found(n, l)
  /\ forwarded' = forwarded \cup {<<n, l>>}
  /\ mapInjectedRequests' = mapInjectedRequests \ {<<asked[n].id, l>>}
  /\ UNCHANGED <<numberVars, threadVars, lockVars, mapInjectedMeDeHaBundles,
                 started, asked, requests, lost, stored, dropped, ended>>

\* "Invalid pending request ID"
Drop(n) ==
  /\ asked[n].by # "medeha" /\ Takes(n)
  /\ \A l \in LinkId : ~Found(n, l)
  /\ dropped' = dropped \cup {n}
  /\ UNCHANGED <<numberVars, threadVars, lockVars, mapVars, started, asked,
                 requests, lost, forwarded, stored, ended>>

\* addTheMeDeHaInjectedBundle: with the id on record, addIfNew waits for
\* bundlesLock while injectedMeDeHaBundlesLock is held.
TakeMeDeHa(n) ==
  /\ asked[n].by = "medeha" /\ Takes(n) /\ medehaLock = NONE
  /\ IF asked[n].id \in mapInjectedMeDeHaBundles
       THEN /\ medehaLock' = "main" /\ adding' = n /\ Goes("main", "add")
            /\ UNCHANGED dropped
       ELSE dropped' = dropped \cup {n} /\ UNCHANGED <<medehaLock, adding, pc>>
  /\ UNCHANGED <<numberVars, link, mine, bundlesLock, mapVars, started, asked,
                 requests, lost, forwarded, stored, ended>>

AddMeDeHa ==
  /\ At("main", "add") /\ bundlesLock = NONE
  /\ stored' = stored \cup {adding} /\ adding' = 0
  /\ mapInjectedMeDeHaBundles' = mapInjectedMeDeHaBundles \ {asked[adding].id}
  /\ medehaLock' = NONE /\ Goes("main", "idle")
  /\ UNCHANGED <<numberVars, link, mine, bundlesLock, mapInjectedRequests,
                 started, netVars, forwarded, dropped, ended>>

------------------------------------------------------------------------------
Handle ==
  \/ AddMeDeHa
  \/ \E n \in Asked : \/ Drop(n) \/ TakeMeDeHa(n)
                      \/ \E l \in LinkId : Forward(n, l)

ThreadStep(t) ==
  \/ Start(t) \/ ReadSeq(t) \/ LoadSeq(t) \/ StoreSeq(t) \/ Send(t)
  \/ Record(t) \/ RecordMeDeHa(t)

DtndStep == \E n \in Asked : DtndInject(n) \/ Lose(n)

Next == Handle \/ DtndStep \/ \E t \in Thread : ThreadStep(t)

Spec == Init /\ [][Next]_vars

------------------------------------------------------------------------------
(* Safety *)

\* The ids of n and k are looked up in the same map.
SameMap(n, k) == (asked[n].by = "medeha") <=> (asked[k].by = "medeha")

\* No other request of the same map has the id of n.
HasOwnId(n) ==
  \A k \in Asked \ {n} : SameMap(n, k) => asked[k].id # asked[n].id

\* A vector is forwarded over the link of the session it was made for, however
\* the answers to the requests of two threads come in, as long as the counter
\* gave its request an id of its own.
ForwardedOverItsLink ==
  \A n \in Asked, l \in LinkId :
    <<n, l>> \in forwarded /\ HasOwnId(n) => l = asked[n].link

\* The answer to a vector of the main thread always finds the record: the
\* thread that handles it is the one that was to write the record first.
MainFindsItsRecord ==
  \A n \in dropped : HasOwnId(n) => asked[n].by # "main"

\* The router ends over an id on record only when the counter gave two requests
\* the same number: no request is put on record twice.
EndsOnlyOverSharedId == ended => \E n \in Asked : ~HasOwnId(n)

\* A record is left behind only by a request whose answer was dropped or lost.
NoRecordWithoutCause ==
  \A n \in Asked :
    HasOwnId(n) /\ asked[n].by # "medeha" /\ OnRecord(asked[n].id)
      => n \in requests \cup events \cup dropped \cup lost

\* The thread that has bundlesLock waits for none of the two semaphores that
\* are held across a wait, so that whoever waits for it will get it.
HolderRuns == bundlesLock # NONE => pc[bundlesLock] \notin {"idle", "add"}

------------------------------------------------------------------------------
(* What the comments say, and the code does not do *)

\* HBSD_Policy.cpp:187: "It is a Meta Data bundle, asking DTN to forward the
\* injected Bundle": the answer to a request with an id of its own is not
\* dropped.
InjectedIsForwarded == \A n \in dropped : ~HasOwnId(n)

------------------------------------------------------------------------------
(* Liveness *)

\* Each thread is scheduled, and a semaphore that is free is given to it.
Fairness == WF_vars(Handle) /\ \A t \in Thread : WF_vars(ThreadStep(t))

FairSpec == Spec /\ Fairness

\* A thread that has begun an injection, or holds a MeDeHa bundle, gets to the
\* end of it: no two locks are taken in both orders.
InjectionsEnd ==
  \A t \in Thread : (pc[t] # "idle") ~> (pc[t] = "idle" \/ ended)
=============================================================================
