--------------------------- MODULE InjectionProofs ---------------------------
(***************************************************************************)
(* The pending injections, for any links, any number of injections and any *)
(* losses.  Everything rests on one fact about the maps: a record is that  *)
(* of a request whose thread is done with it.  A request with an id of its *)
(* own can then be told by its record.                                     *)
(***************************************************************************)
EXTENDS Injection, SequenceTheorems, TLAPS

\* No thread has yet to put n on record.
NobodysOwn(n) == \A t \in Thread : mine[t] # n

\* Each record is that of a request, and its thread is done with it.
Recorded ==
  /\ \A record \in mapInjectedRequests : \E n \in Asked :
       /\ asked[n].by # "medeha" /\ NobodysOwn(n)
       /\ asked[n].id = record[1] /\ asked[n].link = record[2]
  /\ \A id \in mapInjectedMeDeHaBundles : \E n \in Asked :
       asked[n].by = "medeha" /\ NobodysOwn(n) /\ asked[n].id = id

\* What a thread has in hand where it is in the protocol.
InHand ==
  \A t \in Thread :
    /\ pc[t] = "record" => mine[t] \in Asked /\ asked[mine[t]].by = t
    /\ pc[t] # "record" => mine[t] = 0
    /\ t # "medeha" /\ pc[t] \in {"read", "load", "store", "send"}
         => link[t] \in LinkId
    /\ pc[t] \in {"idle", "record", "add"} => use[t] = "file"
    /\ pc[t] = "add" => t = "main" /\ adding \in Asked

\* bundlesLock is with a thread that is on its way to give it back.
LocksHeld ==
  /\ bundlesLock = "main"
       => use["main"] = "file" /\ pc["main"] \in {"read", "load", "store"}
  /\ bundlesLock = "peer" => pc["peer"] \notin {"idle", "add"}

VectorsHaveLinks ==
  \A n \in Asked : asked[n].by # "medeha" => asked[n].link \in LinkId

IsForwarded(n) == \E l \in LinkId : <<n, l>> \in forwarded

\* Where a vector can be, as long as nothing was lost or dropped.
Accounted ==
  /\ requests \cap events = {}
  /\ \A n \in Asked : asked[n].by # "medeha"
       => n \in requests \cup events \cup dropped \cup lost \/ IsForwarded(n)

\* The main thread's vector is on record before its answer is taken.
MainOnRecord ==
  \A n \in requests \cup events : asked[n].by = "main" /\ HasOwnId(n)
    => <<asked[n].id, asked[n].link>> \in mapInjectedRequests
         \/ mine["main"] = n

\* What was forwarded is off the record.
ForwardedIsDone ==
  \A n \in Asked : IsForwarded(n)
    => /\ asked[n].by # "medeha"
       /\ HasOwnId(n) => ~OnRecord(asked[n].id) /\ NobodysOwn(n)

Requests ==
  /\ Recorded
  /\ Accounted
  /\ MainOnRecord
  /\ ForwardedIsDone
  /\ ForwardedOverItsLink
  /\ MainFindsItsRecord
  /\ EndsOnlyOverSharedId

IInv ==
  /\ TypeOK
  /\ InHand
  /\ LocksHeld
  /\ VectorsHaveLinks
  /\ Requests
------------------------------------------------------------------------------
\* Requests are counted from 1, so that 0 is none of them.
LEMMA NoZero == 0 \notin Asked
BY DEF Asked

\* A step that sends nothing leaves the requests what they are.
LEMMA SameRequests ==
  ASSUME UNCHANGED asked
  PROVE  /\ Asked' = Asked
         /\ \A n \in Asked : HasOwnId(n)' <=> HasOwnId(n)
BY DEF Asked, HasOwnId, SameMap

\* What a step that sends adds to the requests.
LEMMA NewAsked ==
  ASSUME TypeOK, NEW request, request \in Request,
         asked' = Append(asked, request)
  PROVE  /\ Asked' = Asked \cup {Len(asked) + 1}
         /\ Len(asked) + 1 \notin Asked
         /\ asked' \in Seq(Request)
         /\ asked'[Len(asked) + 1] = request
         /\ \A n \in Asked : asked'[n] = asked[n]
BY DEF TypeOK, Asked

\* An id that is shared stays shared.
LEMMA OwnIdWasOwn ==
  ASSUME TypeOK, NEW request, request \in Request,
         asked' = Append(asked, request)
  PROVE  \A n \in Asked : HasOwnId(n)' => HasOwnId(n)
BY NewAsked DEF HasOwnId, SameMap

LEMMA InitIInv == Init => IInv
<1> SUFFICES ASSUME Init PROVE IInv
  OBVIOUS
<1> USE DEF Init
<1>1. Asked = {}
  BY DEF Asked
<1>2. TypeOK
  <2>1. asked \in Seq(Request) /\ 0 \in Nat
    BY DEF Request
  <2>2. started \in 0 .. MaxInjections
    BY InjectionAssumption
  <2>3. QED
    BY <1>1, <2>1, <2>2 DEF TypeOK
<1>3. InHand
  BY DEF InHand
<1>4. LocksHeld
  BY InjectionAssumption DEF LocksHeld
<1>5. VectorsHaveLinks /\ Recorded /\ Accounted /\ MainOnRecord
  BY <1>1 DEF VectorsHaveLinks, Recorded, Accounted, MainOnRecord
<1>6. ForwardedIsDone /\ ForwardedOverItsLink /\ MainFindsItsRecord
  BY <1>1 DEF ForwardedIsDone, ForwardedOverItsLink, MainFindsItsRecord
<1>7. EndsOnlyOverSharedId
  BY DEF EndsOnlyOverSharedId
<1>8. QED
  BY <1>2, <1>3, <1>4, <1>5, <1>6, <1>7 DEF IInv, Requests

\* Steps that only take numbers leave everything about the requests alone.
LEMMA RequestsKept ==
  ASSUME TypeOK, Requests,
         UNCHANGED <<asked, mine, mapVars, netVars, doneVars, ended>>
  PROVE  Requests'
<1> USE SameRequests DEF mapVars, netVars, doneVars
<1>1. /\ \A n : NobodysOwn(n)' <=> NobodysOwn(n)
      /\ \A n : IsForwarded(n)' <=> IsForwarded(n)
      /\ \A id : OnRecord(id)' <=> OnRecord(id)
  BY DEF NobodysOwn, IsForwarded, OnRecord
<1>2. Recorded' /\ Accounted'
  BY <1>1 DEF Requests, Recorded, Accounted
<1>3. MainOnRecord'
  BY DEF Requests, MainOnRecord, HasOwnId, SameMap, Asked
<1>4. ForwardedIsDone'
  BY <1>1 DEF Requests, ForwardedIsDone
<1>5. ForwardedOverItsLink' /\ MainFindsItsRecord' /\ EndsOnlyOverSharedId'
  BY DEF Requests, ForwardedOverItsLink, MainFindsItsRecord,
         EndsOnlyOverSharedId, HasOwnId, SameMap, Asked
<1>6. QED
  BY <1>2, <1>3, <1>4, <1>5 DEF Requests

------------------------------------------------------------------------------
LEMMA TypeStep == TypeOK /\ InHand /\ VectorsHaveLinks /\ [Next]_vars => TypeOK'
<1> SUFFICES ASSUME TypeOK, InHand, VectorsHaveLinks, [Next]_vars PROVE TypeOK'
  OBVIOUS
<1> USE InjectionAssumption
<1>1. ASSUME NEW t \in Thread, Start(t) PROVE TypeOK'
  BY <1>1, SMTT(60) DEF TypeOK, Start, Asked, Request, Goes, Thread,
     numberVars, mapVars, netVars, doneVars
<1>2. ASSUME NEW t \in Thread, ReadSeq(t) \/ LoadSeq(t) PROVE TypeOK'
  <2>1. UNCHANGED <<injectIdSeq, use, link, mine, adding, lockVars, mapVars,
                    started, netVars, doneVars, ended>>
    BY <1>2 DEF ReadSeq, LoadSeq
  <2>2. pc' \in [Thread -> {"idle", "read", "load", "store", "send", "record",
                            "add"}]
    BY <1>2 DEF ReadSeq, LoadSeq, Goes, TypeOK
  <2>3. tmp' \in [Thread -> Nat] /\ loaded' \in [Thread -> Nat]
    <3>1. CASE ReadSeq(t)
      BY <3>1 DEF ReadSeq, TypeOK
    <3>2. CASE LoadSeq(t)
      BY <3>2 DEF LoadSeq, TypeOK
    <3>3. QED
      BY <1>2, <3>1, <3>2
  <2>4. QED
    BY <2>1, <2>2, <2>3 DEF TypeOK, Asked, lockVars, mapVars, netVars, doneVars
<1>3. ASSUME NEW t \in Thread, StoreSeq(t) PROVE TypeOK'
  <2>1. UNCHANGED <<link, mine, adding, medehaLock, mapVars, started, netVars,
                    doneVars, ended>>
    BY <1>3 DEF StoreSeq
  <2>2. injectIdSeq' \in Nat /\ loaded' \in [Thread -> Nat]
    BY <1>3 DEF TypeOK, StoreSeq
  <2>3. /\ pc' \in [Thread -> {"idle", "read", "load", "store", "send",
                               "record", "add"}]
        /\ use' \in [Thread -> {"file", "id"}] /\ tmp' \in [Thread -> Nat]
        /\ bundlesLock' \in {"main", "peer", NONE}
    <3>1. CASE use[t] = "file"
      <4>1. /\ pc' = [pc EXCEPT ![t] = "read"]
            /\ use' = [use EXCEPT ![t] = "id"]
            /\ tmp' = [tmp EXCEPT ![t] = 0]
            /\ bundlesLock' \in {NONE, bundlesLock}
        BY <1>3, <3>1 DEF StoreSeq, LockAfterFile, Goes
      <4>2. QED
        BY <4>1 DEF TypeOK
    <3>2. CASE use[t] # "file"
      BY <1>3, <3>2 DEF TypeOK, StoreSeq, Goes
    <3>3. QED
      BY <3>1, <3>2
  <2>4. QED
    BY <2>1, <2>2, <2>3, SameRequests DEF TypeOK, mapVars, netVars, doneVars
<1>4. ASSUME NEW t \in Thread, Send(t) PROVE TypeOK'
  <2>1. NewRequest(t) \in Request
    BY DEF TypeOK, NewRequest, Request
  <2>2. /\ Asked' = Asked \cup {Len(asked) + 1}
        /\ asked' \in Seq(Request)
    BY <1>4, <2>1, NewAsked DEF Send
  <2>3. QED
    BY <1>4, <2>2 DEF TypeOK, Send, Goes, lockVars, mapVars, doneVars
<1>5. ASSUME NEW t \in Thread, Record(t) PROVE TypeOK'
  <2>1. /\ mine[t] \in Asked /\ asked[mine[t]].by = t
        /\ asked[mine[t]] \in Request
    BY <1>5 DEF Record, At, InHand, TypeOK, Asked
  <2>2. <<asked[mine[t]].id, asked[mine[t]].link>> \in Nat \X LinkId
    BY <1>5, <2>1 DEF Record, VectorsHaveLinks, Request
  <2>3. Asked' = Asked
    BY <1>5, SameRequests DEF Record, netVars
  <2>4. /\ UNCHANGED <<numberVars, link, adding, medehaLock, started, netVars,
                       mapInjectedMeDeHaBundles, doneVars>>
        /\ ended' \in BOOLEAN
    BY <1>5 DEF Record, TypeOK
  <2>5. /\ pc' \in [Thread -> {"idle", "read", "load", "store", "send",
                               "record", "add"}]
        /\ mine' \in [Thread -> Asked \cup {0}]
        /\ mapInjectedRequests' \subseteq Nat \X LinkId
        /\ bundlesLock' \in {"main", "peer", NONE}
    <3>1. CASE OnRecord(asked[mine[t]].id)
      BY <1>5, <3>1 DEF TypeOK, Record
    <3>2. CASE ~OnRecord(asked[mine[t]].id)
      <4>1. /\ pc' = [pc EXCEPT ![t] = "idle"]
            /\ mine' = [mine EXCEPT ![t] = 0]
            /\ mapInjectedRequests' = mapInjectedRequests
                 \cup {<<asked[mine[t]].id, asked[mine[t]].link>>}
            /\ bundlesLock' \in {NONE, bundlesLock}
        BY <1>5, <3>2 DEF Record, Goes
      <4>2. QED
        BY <2>2, <4>1 DEF TypeOK
    <3>3. QED
      BY <3>1, <3>2
  <2>6. QED
    BY <2>3, <2>4, <2>5 DEF TypeOK, numberVars, netVars, doneVars
<1>6. ASSUME NEW t \in Thread, RecordMeDeHa(t) PROVE TypeOK'
  <2>1. asked[mine[t]].id \in Nat
    <3>1. mine[t] \in Asked
      BY <1>6 DEF RecordMeDeHa, At, InHand
    <3>2. asked[mine[t]] \in Request
      BY <3>1 DEF TypeOK, Asked
    <3>3. QED
      BY <3>2 DEF Request
  <2>2. Asked' = Asked
    BY <1>6, SameRequests DEF RecordMeDeHa, netVars
  <2>3. /\ UNCHANGED <<numberVars, link, adding, lockVars, started, netVars,
                       mapInjectedRequests, doneVars>>
        /\ ended' \in BOOLEAN
    BY <1>6 DEF RecordMeDeHa, TypeOK
  <2>4. /\ pc' \in [Thread -> {"idle", "read", "load", "store", "send",
                               "record", "add"}]
        /\ mine' \in [Thread -> Asked \cup {0}]
        /\ mapInjectedMeDeHaBundles' \subseteq Nat
    <3>1. CASE asked[mine[t]].id \in mapInjectedMeDeHaBundles
      BY <1>6, <3>1 DEF TypeOK, RecordMeDeHa
    <3>2. CASE asked[mine[t]].id \notin mapInjectedMeDeHaBundles
      <4>1. /\ pc' = [pc EXCEPT ![t] = "idle"]
            /\ mine' = [mine EXCEPT ![t] = 0]
            /\ mapInjectedMeDeHaBundles' =
                 mapInjectedMeDeHaBundles \cup {asked[mine[t]].id}
        BY <1>6, <3>2 DEF RecordMeDeHa, Goes
      <4>2. QED
        BY <2>1, <4>1 DEF TypeOK
    <3>3. QED
      BY <3>1, <3>2
  <2>5. QED
    BY <2>2, <2>3, <2>4 DEF TypeOK, numberVars, lockVars, netVars, doneVars
<1>7. ASSUME NEW n \in Asked, DtndInject(n) \/ Lose(n) PROVE TypeOK'
  BY <1>7, SameRequests DEF TypeOK, DtndInject, Lose, RouterOnly, numberVars,
     threadVars, lockVars, mapVars, doneVars
<1>8. ASSUME NEW n \in Asked, NEW l \in LinkId, Forward(n, l) PROVE TypeOK'
  BY <1>8, SameRequests DEF TypeOK, Forward, Takes, numberVars, threadVars,
     lockVars
<1>9. ASSUME NEW n \in Asked, Drop(n) PROVE TypeOK'
  BY <1>9, SameRequests DEF TypeOK, Drop, Takes, numberVars, threadVars,
     lockVars, mapVars
<1>10. ASSUME NEW n \in Asked, TakeMeDeHa(n) PROVE TypeOK'
  BY <1>10, SameRequests DEF TypeOK, TakeMeDeHa, Takes, Goes, numberVars,
     mapVars
<1>11. ASSUME AddMeDeHa PROVE TypeOK'
  <2>1. adding \in Asked
    BY <1>11 DEF AddMeDeHa, At, InHand, Thread
  <2>2. QED
    BY <1>11, <2>1, SameRequests DEF TypeOK, AddMeDeHa, Goes, numberVars,
       netVars
<1>12. CASE UNCHANGED vars
  BY <1>12, SameRequests DEF TypeOK, vars, numberVars, threadVars, lockVars,
     mapVars, netVars, doneVars
<1>13. QED
  BY <1>1, <1>2, <1>3, <1>4, <1>5, <1>6, <1>7, <1>8, <1>9, <1>10, <1>11, <1>12
  DEF Next, Handle, DtndStep, ThreadStep
------------------------------------------------------------------------------
\* The steps of dtnd and of the handler that change no thread's place.
LEMMA ThreadsKept ==
  ASSUME TypeOK, InHand, LocksHeld,
         UNCHANGED <<asked, use, threadVars, lockVars>>
  PROVE  InHand' /\ LocksHeld'
BY SameRequests DEF InHand, LocksHeld, threadVars, lockVars

LEMMA HandStep ==
  TypeOK /\ InHand /\ LocksHeld /\ [Next]_vars => InHand' /\ LocksHeld'
<1> SUFFICES ASSUME TypeOK, InHand, LocksHeld, [Next]_vars
             PROVE  InHand' /\ LocksHeld'
  OBVIOUS
<1> USE InjectionAssumption
<1>1. ASSUME NEW t \in Thread, Start(t) PROVE InHand' /\ LocksHeld'
  <2>1. /\ Asked' = Asked /\ UNCHANGED <<asked, mine, adding, use>>
        /\ pc[t] = "idle" /\ pc' = [pc EXCEPT ![t] = "read"]
    BY <1>1, SameRequests DEF Start, At, Goes, netVars, numberVars
  <2>2. t # "medeha" => \E l \in LinkId : link' = [link EXCEPT ![t] = l]
    BY <1>1 DEF Start
  <2>3. t = "medeha" => UNCHANGED <<link, bundlesLock>>
    BY <1>1 DEF Start
  <2>4. InHand'
    BY <2>1, <2>2, <2>3 DEF InHand, TypeOK
  <2>5. t # "medeha" => bundlesLock' = t
    BY <1>1 DEF Start
  <2>6. LocksHeld'
    BY <2>1, <2>3, <2>5 DEF InHand, LocksHeld, TypeOK, Thread
  <2>7. QED
    BY <2>4, <2>6
<1>2. ASSUME NEW t \in Thread, ReadSeq(t) \/ LoadSeq(t)
      PROVE  InHand' /\ LocksHeld'
  <2>1. /\ Asked' = Asked
        /\ UNCHANGED <<asked, mine, adding, use, link, bundlesLock>>
        /\ pc[t] \in {"read", "load"}
        /\ \E p \in {"load", "store"} : pc' = [pc EXCEPT ![t] = p]
    BY <1>2, SameRequests DEF ReadSeq, LoadSeq, At, Goes, netVars, lockVars
  <2>2. QED
    BY <2>1 DEF InHand, LocksHeld, TypeOK, Thread
<1>3. ASSUME NEW t \in Thread, StoreSeq(t) PROVE InHand' /\ LocksHeld'
  <2>1. /\ Asked' = Asked /\ UNCHANGED <<asked, mine, adding, link>>
        /\ pc[t] = "store"
    BY <1>3, SameRequests DEF StoreSeq, At, netVars
  <2>2. CASE use[t] = "file"
    <3>1. /\ pc' = [pc EXCEPT ![t] = "read"]
          /\ use' = [use EXCEPT ![t] = "id"]
          /\ bundlesLock' = IF t = "main" THEN NONE ELSE bundlesLock
      BY <1>3, <2>2 DEF StoreSeq, LockAfterFile, Goes
    <3>2. QED
      BY <2>1, <3>1 DEF InHand, LocksHeld, TypeOK, Thread
  <2>3. CASE use[t] # "file"
    <3>1. pc' = [pc EXCEPT ![t] = "send"] /\ UNCHANGED <<use, bundlesLock>>
      BY <1>3, <2>3 DEF StoreSeq, Goes
    <3>2. QED
      BY <2>1, <2>3, <3>1 DEF InHand, LocksHeld, TypeOK, Thread
  <2>4. QED
    BY <2>2, <2>3
<1>4. ASSUME NEW t \in Thread, Send(t) PROVE InHand' /\ LocksHeld'
  <2>1. NewRequest(t) \in Request /\ NewRequest(t).by = t
    BY DEF TypeOK, NewRequest, Request
  <2>2. /\ Asked' = Asked \cup {Len(asked) + 1}
        /\ asked'[Len(asked) + 1] = NewRequest(t)
        /\ \A n \in Asked : asked'[n] = asked[n]
    BY <1>4, <2>1, NewAsked DEF Send
  <2>3. /\ UNCHANGED <<adding, bundlesLock>>
        /\ pc[t] = "send" /\ pc' = [pc EXCEPT ![t] = "record"]
        /\ mine' = [mine EXCEPT ![t] = Len(asked) + 1]
        /\ use' = [use EXCEPT ![t] = "file"]
        /\ link' = [link EXCEPT ![t] = NONE]
    BY <1>4 DEF Send, At, Goes, lockVars
  <2>4. InHand'
    BY <2>1, <2>2, <2>3, SMTT(60) DEF InHand, TypeOK
  <2>5. LocksHeld'
    BY <2>3 DEF LocksHeld, TypeOK, Thread
  <2>6. QED
    BY <2>4, <2>5
<1>5. ASSUME NEW t \in Thread, Record(t) PROVE InHand' /\ LocksHeld'
  <2>1. /\ Asked' = Asked /\ UNCHANGED <<asked, adding, use, link>>
        /\ pc[t] = "record" /\ t # "medeha"
    BY <1>5, SameRequests DEF Record, At, netVars, numberVars
  <2>2. CASE OnRecord(asked[mine[t]].id)
    BY <1>5, <2>1, <2>2 DEF Record, InHand, LocksHeld
  <2>3. CASE ~OnRecord(asked[mine[t]].id)
    <3>1. /\ pc' = [pc EXCEPT ![t] = "idle"] /\ mine' = [mine EXCEPT ![t] = 0]
          /\ bundlesLock' = IF t = "peer" THEN NONE ELSE bundlesLock
      BY <1>5, <2>3 DEF Record, Goes
    <3>2. QED
      BY <2>1, <3>1 DEF InHand, LocksHeld, TypeOK, Thread
  <2>4. QED
    BY <2>2, <2>3
<1>6. ASSUME NEW t \in Thread, RecordMeDeHa(t) PROVE InHand' /\ LocksHeld'
  <2>1. /\ Asked' = Asked
        /\ UNCHANGED <<asked, adding, use, link, bundlesLock>>
        /\ pc[t] = "record" /\ t = "medeha"
    BY <1>6, SameRequests DEF RecordMeDeHa, At, netVars, numberVars, lockVars
  <2>2. CASE asked[mine[t]].id \in mapInjectedMeDeHaBundles
    BY <1>6, <2>1, <2>2 DEF RecordMeDeHa, InHand, LocksHeld
  <2>3. CASE asked[mine[t]].id \notin mapInjectedMeDeHaBundles
    <3>1. pc' = [pc EXCEPT ![t] = "idle"] /\ mine' = [mine EXCEPT ![t] = 0]
      BY <1>6, <2>3 DEF RecordMeDeHa, Goes
    <3>2. QED
      BY <2>1, <3>1 DEF InHand, LocksHeld, TypeOK, Thread
  <2>4. QED
    BY <2>2, <2>3
<1>7. ASSUME NEW n \in Asked, DtndInject(n) \/ Lose(n)
      PROVE  InHand' /\ LocksHeld'
  BY <1>7, ThreadsKept DEF DtndInject, Lose, RouterOnly, numberVars
<1>8. ASSUME NEW n \in Asked, Drop(n) \/ \E l \in LinkId : Forward(n, l)
      PROVE  InHand' /\ LocksHeld'
  BY <1>8, ThreadsKept DEF Forward, Drop, numberVars
<1>9. ASSUME NEW n \in Asked, TakeMeDeHa(n) PROVE InHand' /\ LocksHeld'
  <2>1. /\ Asked' = Asked
        /\ UNCHANGED <<asked, use, link, mine, bundlesLock>>
        /\ pc["main"] = "idle"
    BY <1>9, SameRequests DEF TakeMeDeHa, Takes, MayHandle, At, numberVars
  <2>2. CASE asked[n].id \in mapInjectedMeDeHaBundles
    <3>1. pc' = [pc EXCEPT !["main"] = "add"] /\ adding' = n
      BY <1>9, <2>2 DEF TakeMeDeHa, Goes
    <3>2. QED
      BY <2>1, <3>1 DEF InHand, LocksHeld, TypeOK, Thread
  <2>3. CASE asked[n].id \notin mapInjectedMeDeHaBundles
    BY <1>9, <2>1, <2>3 DEF TakeMeDeHa, InHand, LocksHeld
  <2>4. QED
    BY <2>2, <2>3
<1>10. ASSUME AddMeDeHa PROVE InHand' /\ LocksHeld'
  <2>1. /\ Asked' = Asked
        /\ UNCHANGED <<asked, use, link, mine, bundlesLock>>
        /\ pc["main"] = "add" /\ pc' = [pc EXCEPT !["main"] = "idle"]
    BY <1>10, SameRequests DEF AddMeDeHa, At, Goes, netVars, numberVars
  <2>2. QED
    BY <2>1 DEF InHand, LocksHeld, TypeOK, Thread
<1>11. CASE UNCHANGED vars
  BY <1>11, ThreadsKept DEF vars, numberVars, netVars
<1>12. QED
  BY <1>1, <1>2, <1>3, <1>4, <1>5, <1>6, <1>7, <1>8, <1>9, <1>10, <1>11
  DEF Next, Handle, DtndStep, ThreadStep

LEMMA LinksStep ==
  TypeOK /\ InHand /\ VectorsHaveLinks /\ [Next]_vars => VectorsHaveLinks'
<1> SUFFICES ASSUME TypeOK, InHand, VectorsHaveLinks, [Next]_vars
             PROVE  VectorsHaveLinks'
  OBVIOUS
<1>1. CASE UNCHANGED asked
  BY <1>1, SameRequests DEF VectorsHaveLinks
<1>2. ASSUME NEW t \in Thread, Send(t) PROVE VectorsHaveLinks'
  <2>1. /\ NewRequest(t) \in Request
        /\ NewRequest(t).by # "medeha" => NewRequest(t).link \in LinkId
    BY <1>2 DEF Send, At, InHand, TypeOK, NewRequest, Request
  <2>2. QED
    BY <1>2, <2>1, NewAsked DEF Send, VectorsHaveLinks
<1>3. QED
  BY <1>1, <1>2 DEF Next, Handle, DtndStep, ThreadStep, vars, netVars, Start,
     ReadSeq, LoadSeq, StoreSeq, Record, RecordMeDeHa, DtndInject, Lose,
     RouterOnly, Forward, Drop, TakeMeDeHa, AddMeDeHa
------------------------------------------------------------------------------
\* The record of a request with an id of its own is its own.
LEMMA OwnRecord ==
  ASSUME TypeOK, Recorded, NEW n \in Asked, asked[n].by # "medeha",
         HasOwnId(n), NEW l \in LinkId, <<asked[n].id, l>> \in mapInjectedRequests
  PROVE  l = asked[n].link /\ NobodysOwn(n)
<1>1. PICK k \in Asked : /\ asked[k].by # "medeha" /\ NobodysOwn(k)
                         /\ asked[k].id = asked[n].id /\ asked[k].link = l
  BY DEF Recorded
<1>2. k = n
  BY <1>1 DEF HasOwnId, SameMap
<1>3. QED
  BY <1>1, <1>2

\* A sent request has the id that its thread took, and is that thread's own.
LEMMA SendKeeps ==
  ASSUME TypeOK, InHand, Requests, NEW t \in Thread, Send(t)
  PROVE  Requests'
<1> DEFINE new == Len(asked) + 1
<1>1. /\ NewRequest(t) \in Request /\ NewRequest(t).by = t
      /\ asked' = Append(asked, NewRequest(t))
  BY DEF Send, TypeOK, NewRequest, Request
<1>2. /\ Asked' = Asked \cup {new} /\ new \notin Asked
      /\ asked'[new] = NewRequest(t)
      /\ \A n \in Asked : asked'[n] = asked[n]
      /\ \A n \in Asked : HasOwnId(n)' => HasOwnId(n)
  BY <1>1, NewAsked, OwnIdWasOwn
<1>3. /\ requests' = requests \cup {new}
      /\ mine' = [mine EXCEPT ![t] = new]
      /\ UNCHANGED <<mapVars, events, lost, doneVars, ended>>
  BY DEF Send
<1>4. /\ mine[t] = 0 /\ mine'[t] = new
      /\ \A n \in Asked : NobodysOwn(n) => NobodysOwn(n)'
  BY <1>2, <1>3 DEF Send, At, InHand, NobodysOwn, TypeOK
<1>5. Recorded'
  <2>1. ASSUME NEW record \in mapInjectedRequests'
        PROVE  \E n \in Asked' :
                 /\ asked'[n].by # "medeha" /\ NobodysOwn(n)'
                 /\ asked'[n].id = record[1] /\ asked'[n].link = record[2]
    BY <1>2, <1>3, <1>4, <2>1 DEF Requests, Recorded, mapVars
  <2>2. ASSUME NEW id \in mapInjectedMeDeHaBundles'
        PROVE  \E n \in Asked' : /\ asked'[n].by = "medeha" /\ NobodysOwn(n)'
                                 /\ asked'[n].id = id
    BY <1>2, <1>3, <1>4, <2>2 DEF Requests, Recorded, mapVars
  <2>3. QED
    BY <2>1, <2>2 DEF Recorded
<1>6. forwarded \subseteq Asked \X LinkId /\ dropped \subseteq Asked
  BY DEF TypeOK
<1>7. Accounted'
  <2>1. requests' \cap events' = {}
    BY <1>2, <1>3 DEF Requests, Accounted, TypeOK
  <2>2. \A n \in Asked : IsForwarded(n)' <=> IsForwarded(n)
    BY <1>3 DEF IsForwarded, doneVars
  <2>3. QED
    BY <1>2, <1>3, <2>1, <2>2 DEF Requests, Accounted, doneVars
<1>8. MainOnRecord'
  <2> SUFFICES ASSUME NEW n \in requests' \cup events',
                      asked'[n].by = "main", HasOwnId(n)'
               PROVE  \/ <<asked'[n].id, asked'[n].link>> \in mapInjectedRequests'
                      \/ mine'["main"] = n
    BY DEF MainOnRecord
  <2>1. CASE n = new
    BY <1>1, <1>2, <1>4, <2>1
  <2>2. CASE n # new
    <3>1. n \in requests \cup events /\ n \in Asked
      BY <1>3, <2>2 DEF TypeOK
    <3>2. \/ <<asked[n].id, asked[n].link>> \in mapInjectedRequests
          \/ mine["main"] = n
      BY <1>2, <3>1 DEF Requests, MainOnRecord
    <3>3. mine["main"] = n => mine'["main"] = n
      BY <1>3, <1>4, <3>1, NoZero DEF TypeOK
    <3>4. QED
      BY <1>2, <1>3, <3>1, <3>2, <3>3 DEF mapVars
  <2>3. QED
    BY <2>1, <2>2
<1>9. ForwardedIsDone'
  <2> SUFFICES ASSUME NEW n \in Asked', IsForwarded(n)'
               PROVE  /\ asked'[n].by # "medeha"
                      /\ HasOwnId(n)' => /\ ~OnRecord(asked[n].id)'
                                         /\ NobodysOwn(n)'
    BY DEF ForwardedIsDone
  <2>1. n \in Asked /\ IsForwarded(n)
    BY <1>3, <1>6 DEF IsForwarded, doneVars
  <2>2. \A id : OnRecord(id)' <=> OnRecord(id)
    BY <1>3 DEF OnRecord, mapVars
  <2>3. QED
    BY <1>2, <1>4, <2>1, <2>2 DEF Requests, ForwardedIsDone
<1>10. ForwardedOverItsLink' /\ MainFindsItsRecord'
  BY <1>2, <1>3, <1>6
  DEF Requests, ForwardedOverItsLink, MainFindsItsRecord, doneVars
<1>11. EndsOnlyOverSharedId'
  BY <1>2, <1>3 DEF Requests, EndsOnlyOverSharedId
<1>12. QED
  BY <1>5, <1>7, <1>8, <1>9, <1>10, <1>11 DEF Requests

\* The request of a thread goes on record, or shares its id with one that is.
LEMMA RecordKeeps ==
  ASSUME TypeOK, InHand, VectorsHaveLinks, Requests, NEW t \in Thread, Record(t)
  PROVE  Requests'
<1>0. PICK n0 \in Asked : n0 = mine[t]
  BY DEF Record, At, InHand
<1>1. /\ asked[n0].by = t /\ t # "medeha"
      /\ asked[n0].link \in LinkId /\ asked[n0] \in Request
  BY <1>0 DEF Record, At, InHand, VectorsHaveLinks, TypeOK, Asked
<1> DEFINE r0 == <<asked[n0].id, asked[n0].link>>
<1>2. /\ UNCHANGED <<asked, mapInjectedMeDeHaBundles, netVars, doneVars>>
      /\ Asked' = Asked /\ \A n \in Asked : HasOwnId(n)' <=> HasOwnId(n)
      /\ \A n : IsForwarded(n)' <=> IsForwarded(n)
  BY SameRequests DEF Record, netVars, doneVars, IsForwarded
<1>3. forwarded \subseteq Asked \X LinkId /\ dropped \subseteq Asked
      /\ requests \cup events \subseteq Asked
  BY DEF TypeOK
<1>4. Accounted' /\ ForwardedOverItsLink' /\ MainFindsItsRecord'
  BY <1>2, <1>3 DEF Requests, Accounted, ForwardedOverItsLink,
                    MainFindsItsRecord, netVars, doneVars
<1>5. CASE OnRecord(asked[n0].id)
  <2>1. ended' /\ UNCHANGED <<mine, mapVars>>
    BY <1>0, <1>5 DEF Record, mapVars
  <2>2. ~HasOwnId(n0)
    <3>1. PICK l \in LinkId : <<asked[n0].id, l>> \in mapInjectedRequests
      BY <1>5 DEF OnRecord
    <3>2. ~NobodysOwn(n0)
      BY <1>0 DEF NobodysOwn
    <3>3. QED
      BY <1>1, <3>1, <3>2, OwnRecord DEF Requests
  <2>3. \A n : NobodysOwn(n)' <=> NobodysOwn(n)
    BY <2>1 DEF NobodysOwn
  <2>4. \A id : OnRecord(id)' <=> OnRecord(id)
    BY <2>1 DEF OnRecord, mapVars
  <2>5. Recorded'
    BY <1>2, <2>1, <2>3 DEF Requests, Recorded, mapVars
  <2>6. MainOnRecord' /\ ForwardedIsDone'
    BY <1>2, <1>3, <2>1, <2>3, <2>4
    DEF Requests, MainOnRecord, ForwardedIsDone, mapVars, netVars
  <2>7. EndsOnlyOverSharedId'
    BY <1>1, <1>2, <2>1, <2>2 DEF EndsOnlyOverSharedId
  <2>8. QED
    BY <1>4, <2>5, <2>6, <2>7 DEF Requests
<1>6. CASE ~OnRecord(asked[n0].id)
  <2>1. /\ mapInjectedRequests' = mapInjectedRequests \cup {r0}
        /\ mine' = [mine EXCEPT ![t] = 0] /\ UNCHANGED ended
    BY <1>0, <1>6 DEF Record
  <2>2. \A n \in Asked : NobodysOwn(n) => NobodysOwn(n)'
    BY <2>1, NoZero DEF NobodysOwn, TypeOK
  <2>3. NobodysOwn(n0)'
    <3>1. ASSUME NEW u \in Thread, u # t PROVE mine[u] # n0
      BY <1>1, <3>1, NoZero DEF InHand
    <3>2. QED
      BY <2>1, <3>1, NoZero DEF NobodysOwn, TypeOK
  <2>4. Recorded'
    <3>1. ASSUME NEW record \in mapInjectedRequests'
          PROVE  \E n \in Asked' :
                   /\ asked'[n].by # "medeha" /\ NobodysOwn(n)'
                   /\ asked'[n].id = record[1] /\ asked'[n].link = record[2]
      <4>1. CASE record \in mapInjectedRequests
        BY <1>2, <2>2, <4>1 DEF Requests, Recorded
      <4>2. CASE record = r0
        BY <1>1, <1>2, <2>3, <4>2
      <4>3. QED
        BY <2>1, <4>1, <4>2
    <3>2. ASSUME NEW id \in mapInjectedMeDeHaBundles'
          PROVE  \E n \in Asked' : /\ asked'[n].by = "medeha"
                                   /\ NobodysOwn(n)' /\ asked'[n].id = id
      BY <1>2, <2>2 DEF Requests, Recorded
    <3>3. QED
      BY <3>1, <3>2 DEF Recorded
  <2>5. MainOnRecord'
    <3> SUFFICES ASSUME NEW n \in requests \cup events,
                        asked[n].by = "main", HasOwnId(n)
                 PROVE  \/ <<asked[n].id, asked[n].link>> \in mapInjectedRequests'
                        \/ mine'["main"] = n
      BY <1>2, <1>3 DEF MainOnRecord, netVars
    <3>1. CASE n = n0
      BY <2>1, <3>1
    <3>2. CASE n # n0
      BY <1>0, <1>3, <2>1, <3>2 DEF Requests, MainOnRecord, TypeOK
    <3>3. QED
      BY <3>1, <3>2
  <2>6. ForwardedIsDone'
    <3> SUFFICES ASSUME NEW n \in Asked, IsForwarded(n), HasOwnId(n)
                 PROVE  ~OnRecord(asked[n].id)' /\ NobodysOwn(n)'
      BY <1>2 DEF Requests, ForwardedIsDone
    <3>1. /\ asked[n].by # "medeha" /\ ~OnRecord(asked[n].id)
          /\ NobodysOwn(n)
      BY DEF Requests, ForwardedIsDone
    <3>2. n # n0
      BY <1>0, <3>1 DEF NobodysOwn
    <3>3. asked[n].id # asked[n0].id
      BY <1>1, <3>1, <3>2 DEF HasOwnId, SameMap
    <3>4. QED
      BY <1>2, <2>1, <2>2, <3>1, <3>3 DEF OnRecord
  <2>7. EndsOnlyOverSharedId'
    BY <1>2, <2>1 DEF Requests, EndsOnlyOverSharedId
  <2>8. QED
    BY <1>4, <2>4, <2>5, <2>6, <2>7 DEF Requests
<1>7. QED
  BY <1>5, <1>6

\* Likewise for the data of a MeDeHa gateway.
LEMMA RecordMeDeHaKeeps ==
  ASSUME TypeOK, InHand, Requests, NEW t \in Thread, RecordMeDeHa(t)
  PROVE  Requests'
<1>0. PICK n0 \in Asked : n0 = mine[t]
  BY DEF RecordMeDeHa, At, InHand
<1>1. asked[n0].by = "medeha" /\ t = "medeha"
  BY <1>0 DEF RecordMeDeHa, At, InHand
<1>2. /\ UNCHANGED <<asked, mapInjectedRequests, netVars, doneVars>>
      /\ Asked' = Asked /\ \A n \in Asked : HasOwnId(n)' <=> HasOwnId(n)
      /\ \A n : IsForwarded(n)' <=> IsForwarded(n)
      /\ \A id : OnRecord(id)' <=> OnRecord(id)
  BY SameRequests DEF RecordMeDeHa, netVars, doneVars, IsForwarded, OnRecord
<1>3. forwarded \subseteq Asked \X LinkId /\ dropped \subseteq Asked
      /\ requests \cup events \subseteq Asked
  BY DEF TypeOK
<1>4. Accounted' /\ ForwardedOverItsLink' /\ MainFindsItsRecord'
  BY <1>2, <1>3 DEF Requests, Accounted, ForwardedOverItsLink,
                    MainFindsItsRecord, netVars, doneVars
<1>5. CASE asked[n0].id \in mapInjectedMeDeHaBundles
  <2>1. ended' /\ UNCHANGED <<mine, mapVars>>
    BY <1>0, <1>2, <1>5 DEF RecordMeDeHa, mapVars
  <2>2. PICK k \in Asked : /\ asked[k].by = "medeha" /\ NobodysOwn(k)
                           /\ asked[k].id = asked[n0].id
    BY <1>5 DEF Requests, Recorded
  <2>3. ~HasOwnId(n0)
    BY <1>0, <1>1, <2>2 DEF NobodysOwn, HasOwnId, SameMap
  <2>4. \A n : NobodysOwn(n)' <=> NobodysOwn(n)
    BY <2>1 DEF NobodysOwn
  <2>5. Recorded' /\ MainOnRecord' /\ ForwardedIsDone'
    BY <1>2, <1>3, <2>1, <2>4
    DEF Requests, Recorded, MainOnRecord, ForwardedIsDone, mapVars, netVars
  <2>6. EndsOnlyOverSharedId'
    BY <1>2, <2>1, <2>3 DEF EndsOnlyOverSharedId
  <2>7. QED
    BY <1>4, <2>5, <2>6 DEF Requests
<1>6. CASE asked[n0].id \notin mapInjectedMeDeHaBundles
  <2>1. /\ mapInjectedMeDeHaBundles' =
             mapInjectedMeDeHaBundles \cup {asked[n0].id}
        /\ mine' = [mine EXCEPT ![t] = 0] /\ UNCHANGED ended
    BY <1>0, <1>6 DEF RecordMeDeHa
  <2>2. \A n \in Asked : NobodysOwn(n) => NobodysOwn(n)'
    BY <2>1, NoZero DEF NobodysOwn, TypeOK
  <2>3. NobodysOwn(n0)'
    <3>1. ASSUME NEW u \in Thread, u # t PROVE mine[u] # n0
      BY <1>1, <3>1, NoZero DEF InHand
    <3>2. QED
      BY <2>1, <3>1, NoZero DEF NobodysOwn, TypeOK
  <2>4. Recorded'
    <3>1. ASSUME NEW id \in mapInjectedMeDeHaBundles'
          PROVE  \E n \in Asked' : /\ asked'[n].by = "medeha"
                                   /\ NobodysOwn(n)' /\ asked'[n].id = id
      BY <1>1, <1>2, <2>1, <2>2, <2>3 DEF Requests, Recorded
    <3>2. ASSUME NEW record \in mapInjectedRequests'
          PROVE  \E n \in Asked' :
                   /\ asked'[n].by # "medeha" /\ NobodysOwn(n)'
                   /\ asked'[n].id = record[1] /\ asked'[n].link = record[2]
      BY <1>2, <2>2 DEF Requests, Recorded
    <3>3. QED
      BY <3>1, <3>2 DEF Recorded
  <2>5. mine'["main"] = mine["main"]
    BY <1>1, <2>1 DEF TypeOK, Thread
  <2>6. MainOnRecord'
    BY <1>2, <1>3, <2>5 DEF Requests, MainOnRecord, netVars
  <2>7. ForwardedIsDone'
    BY <1>2, <2>2 DEF Requests, ForwardedIsDone
  <2>8. EndsOnlyOverSharedId'
    BY <1>2, <2>1 DEF Requests, EndsOnlyOverSharedId
  <2>9. QED
    BY <1>4, <2>4, <2>6, <2>7, <2>8 DEF Requests
<1>7. QED
  BY <1>5, <1>6

\* A datagram that arrives or is lost changes no record.
LEMMA NetKeeps ==
  ASSUME TypeOK, Requests, NEW n \in Asked, DtndInject(n) \/ Lose(n)
  PROVE  Requests'
<1>1. /\ UNCHANGED <<asked, mine, mapVars, doneVars, ended>>
      /\ Asked' = Asked /\ \A k \in Asked : HasOwnId(k)' <=> HasOwnId(k)
      /\ \A k : IsForwarded(k)' <=> IsForwarded(k)
      /\ \A id : OnRecord(id)' <=> OnRecord(id)
      /\ \A k : NobodysOwn(k)' <=> NobodysOwn(k)
  BY SameRequests DEF DtndInject, Lose, RouterOnly, threadVars, mapVars,
     doneVars, IsForwarded, OnRecord, NobodysOwn
<1>2. forwarded \subseteq Asked \X LinkId /\ dropped \subseteq Asked
      /\ requests \cup events \subseteq Asked
  BY DEF TypeOK
<1>3. /\ requests' \cup events' \subseteq requests \cup events
      /\ requests' \cap events' = {}
      /\ requests \cup events \cup lost = requests' \cup events' \cup lost'
  BY DEF DtndInject, Lose, Requests, Accounted
<1>4. Recorded' /\ ForwardedIsDone' /\ EndsOnlyOverSharedId'
  BY <1>1 DEF Requests, Recorded, ForwardedIsDone, EndsOnlyOverSharedId,
              mapVars
<1>5. Accounted' /\ MainOnRecord'
  BY <1>1, <1>2, <1>3 DEF Requests, Accounted, MainOnRecord, mapVars, doneVars
<1>6. ForwardedOverItsLink' /\ MainFindsItsRecord'
  BY <1>1, <1>2
  DEF Requests, ForwardedOverItsLink, MainFindsItsRecord, doneVars
<1>7. QED
  BY <1>4, <1>5, <1>6 DEF Requests

\* What the handler leaves alone when it takes the answer to n.
LEMMA Taken ==
  ASSUME TypeOK, Requests, NEW n \in Asked, Takes(n),
         UNCHANGED <<asked, mine, requests, lost, ended>>
  PROVE  /\ Asked' = Asked /\ \A k \in Asked : HasOwnId(k)' <=> HasOwnId(k)
         /\ \A k : NobodysOwn(k)' <=> NobodysOwn(k)
         /\ EndsOnlyOverSharedId'
         /\ n \in events /\ events' = events \ {n}
         /\ n \notin requests' \cup events' /\ requests' \cap events' = {}
         /\ requests \cup events \subseteq Asked
         /\ forwarded \subseteq Asked \X LinkId /\ dropped \subseteq Asked
         /\ pc["main"] = "idle"
<1>1. /\ Asked' = Asked /\ \A k \in Asked : HasOwnId(k)' <=> HasOwnId(k)
      /\ \A k : NobodysOwn(k)' <=> NobodysOwn(k)
  BY SameRequests DEF NobodysOwn
<1>2. /\ n \in events /\ events' = events \ {n} /\ pc["main"] = "idle"
      /\ n \notin requests' \cup events' /\ requests' \cap events' = {}
  BY DEF Takes, MayHandle, At, Requests, Accounted
<1>3. EndsOnlyOverSharedId'
  BY <1>1 DEF Requests, EndsOnlyOverSharedId
<1>4. QED
  BY <1>1, <1>2, <1>3 DEF TypeOK

\* The record that an answer finds is that of its request, or of one that has
\* the same id.
LEMMA ForwardKeeps ==
  ASSUME TypeOK, Requests, NEW n \in Asked, NEW l \in LinkId, Forward(n, l)
  PROVE  Requests'
<1>1. /\ Takes(n) /\ asked[n].by # "medeha"
      /\ <<asked[n].id, l>> \in mapInjectedRequests
      /\ forwarded' = forwarded \cup {<<n, l>>}
      /\ mapInjectedRequests' = mapInjectedRequests \ {<<asked[n].id, l>>}
      /\ UNCHANGED <<asked, mine, mapInjectedMeDeHaBundles, requests, lost,
                     dropped, ended>>
  BY DEF Forward, Found, threadVars
<1>2. /\ Asked' = Asked /\ \A k \in Asked : HasOwnId(k)' <=> HasOwnId(k)
      /\ \A k : NobodysOwn(k)' <=> NobodysOwn(k)
      /\ EndsOnlyOverSharedId'
      /\ n \in events /\ events' = events \ {n}
      /\ n \notin requests' \cup events' /\ requests' \cap events' = {}
      /\ requests \cup events \subseteq Asked
      /\ forwarded \subseteq Asked \X LinkId /\ dropped \subseteq Asked
  BY <1>1, Taken
<1>3. \A k \in Asked : IsForwarded(k)' <=> IsForwarded(k) \/ k = n
  BY <1>1 DEF IsForwarded
<1>4. HasOwnId(n) => l = asked[n].link /\ NobodysOwn(n)
  BY <1>1, OwnRecord DEF Requests
<1>5. Recorded'
  BY <1>1, <1>2 DEF Requests, Recorded
<1>6. Accounted'
  BY <1>1, <1>2, <1>3 DEF Requests, Accounted
<1>7. MainOnRecord'
  <2> SUFFICES ASSUME NEW k \in requests' \cup events',
                      asked[k].by = "main", HasOwnId(k)
               PROVE  \/ <<asked[k].id, asked[k].link>> \in mapInjectedRequests'
                      \/ mine["main"] = k
    BY <1>1, <1>2 DEF MainOnRecord
  <2>1. k \in requests \cup events /\ k \in Asked /\ k # n
    BY <1>1, <1>2
  <2>2. asked[k].id # asked[n].id
    BY <1>1, <2>1 DEF HasOwnId, SameMap
  <2>3. QED
    BY <1>1, <2>1, <2>2 DEF Requests, MainOnRecord
<1>8. ForwardedIsDone'
  <2> SUFFICES ASSUME NEW k \in Asked, IsForwarded(k)'
               PROVE  /\ asked[k].by # "medeha"
                      /\ HasOwnId(k) => /\ ~OnRecord(asked[k].id)'
                                        /\ NobodysOwn(k)
    BY <1>1, <1>2 DEF ForwardedIsDone, OnRecord
  <2>1. CASE k = n
    <3>1. ASSUME HasOwnId(n), NEW m \in LinkId,
                 <<asked[n].id, m>> \in mapInjectedRequests'
          PROVE  FALSE
      BY <1>1, <1>4, <3>1, OwnRecord DEF Requests
    <3>2. QED
      BY <1>1, <1>4, <2>1, <3>1 DEF OnRecord
  <2>2. CASE k # n
    BY <1>1, <1>3, <2>2 DEF Requests, ForwardedIsDone, OnRecord
  <2>3. QED
    BY <2>1, <2>2
<1>9. ForwardedOverItsLink' /\ MainFindsItsRecord'
  BY <1>1, <1>2, <1>4 DEF Requests, ForwardedOverItsLink, MainFindsItsRecord
<1>10. QED
  BY <1>2, <1>5, <1>6, <1>7, <1>8, <1>9 DEF Requests

\* An answer that finds no record is not one of the main thread's own, unless
\* its id is shared.
LEMMA DropKeeps ==
  ASSUME TypeOK, InHand, VectorsHaveLinks, Requests, NEW n \in Asked,
         Takes(n), dropped' = dropped \cup {n},
         UNCHANGED <<asked, mine, mapVars, requests, lost, forwarded, ended>>,
         \/ asked[n].by = "medeha"
         \/ \A l \in LinkId : ~Found(n, l)
  PROVE  Requests'
<1>1. /\ Asked' = Asked /\ \A k \in Asked : HasOwnId(k)' <=> HasOwnId(k)
      /\ \A k : NobodysOwn(k)' <=> NobodysOwn(k)
      /\ EndsOnlyOverSharedId'
      /\ n \in events /\ events' = events \ {n}
      /\ n \notin requests' \cup events' /\ requests' \cap events' = {}
      /\ requests \cup events \subseteq Asked
      /\ forwarded \subseteq Asked \X LinkId /\ dropped \subseteq Asked
      /\ pc["main"] = "idle"
  BY Taken
<1>2. /\ \A k : IsForwarded(k)' <=> IsForwarded(k)
      /\ \A id : OnRecord(id)' <=> OnRecord(id)
  BY DEF IsForwarded, OnRecord, mapVars
<1>3. Recorded' /\ Accounted' /\ MainOnRecord' /\ ForwardedIsDone'
  BY <1>1, <1>2 DEF Requests, Recorded, Accounted, MainOnRecord,
                    ForwardedIsDone, mapVars
<1>4. ForwardedOverItsLink'
  BY <1>1 DEF Requests, ForwardedOverItsLink
<1>5. HasOwnId(n) => asked[n].by # "main"
  <2> SUFFICES ASSUME HasOwnId(n), asked[n].by = "main" PROVE FALSE
    OBVIOUS
  <2>1. mine["main"] # n
    BY <1>1, NoZero DEF InHand, Thread
  <2>2. <<asked[n].id, asked[n].link>> \in mapInjectedRequests
    BY <1>1, <2>1 DEF Requests, MainOnRecord
  <2>3. QED
    BY <2>2 DEF Found, VectorsHaveLinks
<1>6. MainFindsItsRecord'
  BY <1>1, <1>5 DEF Requests, MainFindsItsRecord
<1>7. QED
  BY <1>1, <1>3, <1>4, <1>6 DEF Requests

\* The MeDeHa handler forwards no vector and touches no vector's record.
LEMMA TakeMeDeHaKeeps ==
  ASSUME TypeOK, InHand, VectorsHaveLinks, Requests, NEW n \in Asked,
         TakeMeDeHa(n)
  PROVE  Requests'
<1>1. /\ Takes(n) /\ asked[n].by = "medeha"
      /\ UNCHANGED <<asked, mine, mapVars, requests, lost, forwarded, ended>>
  BY DEF TakeMeDeHa
<1>2. CASE asked[n].id \in mapInjectedMeDeHaBundles
  <2>1. UNCHANGED dropped
    BY <1>2 DEF TakeMeDeHa
  <2>2. /\ Asked' = Asked /\ \A k \in Asked : HasOwnId(k)' <=> HasOwnId(k)
        /\ \A k : NobodysOwn(k)' <=> NobodysOwn(k)
        /\ EndsOnlyOverSharedId'
        /\ n \in events /\ events' = events \ {n}
        /\ n \notin requests' \cup events' /\ requests' \cap events' = {}
        /\ requests \cup events \subseteq Asked
        /\ forwarded \subseteq Asked \X LinkId /\ dropped \subseteq Asked
    BY <1>1, Taken
  <2>3. /\ \A k : IsForwarded(k)' <=> IsForwarded(k)
        /\ \A id : OnRecord(id)' <=> OnRecord(id)
    BY <1>1 DEF IsForwarded, OnRecord, mapVars
  <2>4. Recorded' /\ Accounted' /\ MainOnRecord' /\ ForwardedIsDone'
    BY <1>1, <2>1, <2>2, <2>3 DEF Requests, Recorded, Accounted,
       MainOnRecord, ForwardedIsDone, mapVars
  <2>5. ForwardedOverItsLink' /\ MainFindsItsRecord'
    BY <1>1, <2>1, <2>2
    DEF Requests, ForwardedOverItsLink, MainFindsItsRecord
  <2>6. QED
    BY <2>2, <2>4, <2>5 DEF Requests
<1>3. CASE asked[n].id \notin mapInjectedMeDeHaBundles
  <2>1. dropped' = dropped \cup {n}
    BY <1>3 DEF TakeMeDeHa
  <2>2. QED
    BY <1>1, <2>1, DropKeeps
<1>4. QED
  BY <1>2, <1>3

LEMMA AddMeDeHaKeeps ==
  ASSUME TypeOK, Requests, AddMeDeHa
  PROVE  Requests'
<1>1. /\ UNCHANGED <<asked, mine, mapInjectedRequests, requests, events, lost,
                     forwarded, dropped, ended>>
      /\ mapInjectedMeDeHaBundles' \subseteq mapInjectedMeDeHaBundles
  BY DEF AddMeDeHa, netVars
<1>2. /\ Asked' = Asked /\ \A n \in Asked : HasOwnId(n)' <=> HasOwnId(n)
      /\ \A n : IsForwarded(n)' <=> IsForwarded(n)
      /\ \A id : OnRecord(id)' <=> OnRecord(id)
      /\ \A n : NobodysOwn(n)' <=> NobodysOwn(n)
  BY <1>1, SameRequests DEF IsForwarded, OnRecord, NobodysOwn
<1>3. forwarded \subseteq Asked \X LinkId /\ dropped \subseteq Asked
      /\ requests \cup events \subseteq Asked
  BY DEF TypeOK
<1>4. Recorded' /\ Accounted' /\ MainOnRecord' /\ ForwardedIsDone'
  BY <1>1, <1>2, <1>3 DEF Requests, Recorded, Accounted, MainOnRecord,
                          ForwardedIsDone
<1>5. /\ ForwardedOverItsLink' /\ MainFindsItsRecord'
      /\ EndsOnlyOverSharedId'
  BY <1>1, <1>2, <1>3 DEF Requests, ForwardedOverItsLink, MainFindsItsRecord,
                          EndsOnlyOverSharedId
<1>6. QED
  BY <1>4, <1>5 DEF Requests

LEMMA RequestsStep ==
  TypeOK /\ InHand /\ VectorsHaveLinks /\ Requests /\ [Next]_vars => Requests'
<1> SUFFICES ASSUME TypeOK, InHand, VectorsHaveLinks, Requests, [Next]_vars
             PROVE  Requests'
  OBVIOUS
<1>1. ASSUME NEW t \in Thread,
             Start(t) \/ ReadSeq(t) \/ LoadSeq(t) \/ StoreSeq(t)
      PROVE  Requests'
  BY <1>1, RequestsKept DEF Start, ReadSeq, LoadSeq, StoreSeq, netVars
<1>2. ASSUME NEW t \in Thread, Send(t) \/ Record(t) \/ RecordMeDeHa(t)
      PROVE  Requests'
  BY <1>2, SendKeeps, RecordKeeps, RecordMeDeHaKeeps
<1>3. ASSUME NEW n \in Asked, DtndInject(n) \/ Lose(n) PROVE Requests'
  BY <1>3, NetKeeps
<1>4. ASSUME NEW n \in Asked, NEW l \in LinkId, Forward(n, l) PROVE Requests'
  BY <1>4, ForwardKeeps
<1>5. ASSUME NEW n \in Asked, Drop(n) PROVE Requests'
  BY <1>5, DropKeeps DEF Drop, threadVars
<1>6. ASSUME NEW n \in Asked, TakeMeDeHa(n) PROVE Requests'
  BY <1>6, TakeMeDeHaKeeps
<1>7. CASE AddMeDeHa
  BY <1>7, AddMeDeHaKeeps
<1>8. CASE UNCHANGED vars
  BY <1>8, RequestsKept DEF vars, threadVars, netVars
<1>9. QED
  BY <1>1, <1>2, <1>3, <1>4, <1>5, <1>6, <1>7, <1>8
  DEF Next, Handle, DtndStep, ThreadStep

LEMMA NextIInv == IInv /\ [Next]_vars => IInv'
BY TypeStep, HandStep, LinksStep, RequestsStep DEF IInv

------------------------------------------------------------------------------
\* The invariant holds in every reachable state.
THEOREM Invariance == Spec => []IInv
BY InitIInv, NextIInv, PTL DEF Spec

\* Every variable keeps its type.
THEOREM TypeCorrect == Spec => []TypeOK
<1>1. IInv => TypeOK
  BY DEF IInv
<1>2. QED
  BY <1>1, Invariance, PTL

\* askDtndToForwardTheInjectedBundle forwards a vector over the link of its
\* session, unless getAndIncrement gave its id twice.
THEOREM RightLink == Spec => []ForwardedOverItsLink
<1>1. IInv => ForwardedOverItsLink
  BY DEF IInv, Requests
<1>2. QED
  BY <1>1, Invariance, PTL

\* The main thread never drops the answer to a vector of its own, unless the
\* id was given twice.
THEOREM MainNeverMisses == Spec => []MainFindsItsRecord
<1>1. IInv => MainFindsItsRecord
  BY DEF IInv, Requests
<1>2. QED
  BY <1>1, Invariance, PTL

\* addNewInjectedRequest and addNewMeDeHaInjectedBundle end the router over
\* nothing but an id that was given twice.
THEOREM EndNeedsSharedId == Spec => []EndsOnlyOverSharedId
<1>1. IInv => EndsOnlyOverSharedId
  BY DEF IInv, Requests
<1>2. QED
  BY <1>1, Invariance, PTL

\* A record stays in mapInjectedRequests only for want of an answer.
THEOREM RecordsCleared == Spec => []NoRecordWithoutCause
<1>1. IInv => NoRecordWithoutCause
  BY DEF IInv, Requests, Accounted, ForwardedIsDone, NoRecordWithoutCause
<1>2. QED
  BY <1>1, Invariance, PTL

\* The thread that has bundlesLock never waits for another one.
THEOREM HolderNeverWaits == Spec => []HolderRuns
<1>1. IInv => HolderRuns
  BY DEF IInv, TypeOK, LocksHeld, HolderRuns
<1>2. QED
  BY <1>1, Invariance, PTL

------------------------------------------------------------------------------
(* Who waits for whom *)

\* injectedMeDeHaBundlesLock is held across a wait in one place only.
MedehaLockHeld == medehaLock = "main" <=> pc["main"] = "add"

\* At "add" the main thread waits for bundlesLock, with the other semaphore in
\* hand; at "record" the MeDeHa thread waits for that one.
Waits(t) ==
  \/ pc[t] = "add" /\ bundlesLock # NONE
  \/ t = "medeha" /\ pc[t] = "record" /\ medehaLock # NONE

\* Of the threads at work one does not wait.
SomeoneRuns ==
  (\E t \in Thread : pc[t] # "idle")
    => \E t \in Thread : pc[t] # "idle" /\ ~Waits(t)

LEMMA MedehaLockStep ==
  ASSUME IInv, MedehaLockHeld, [Next]_vars
  PROVE  MedehaLockHeld'
<1> USE DEF MedehaLockHeld
<1>1. ASSUME NEW t \in Thread, ThreadStep(t) PROVE MedehaLockHeld'
  <2>1. /\ UNCHANGED medehaLock
        /\ \/ UNCHANGED pc
           \/ /\ pc[t] # "add"
              /\ \E p \in {"idle", "read", "load", "store", "send", "record"} :
                   pc' = [pc EXCEPT ![t] = p]
    BY <1>1 DEF ThreadStep, Start, ReadSeq, LoadSeq, StoreSeq, Send, Record,
       RecordMeDeHa, At, Goes, lockVars
  <2> QED
    BY <2>1 DEF IInv, TypeOK, Thread
<1>2. CASE AddMeDeHa
  BY <1>2, InjectionAssumption DEF AddMeDeHa, Goes, IInv, TypeOK, Thread
<1>3. ASSUME NEW n \in Asked, TakeMeDeHa(n) PROVE MedehaLockHeld'
  <2>1. pc["main"] = "idle"
    BY <1>3 DEF TakeMeDeHa, Takes, MayHandle, At
  <2>2. \/ UNCHANGED <<pc, medehaLock>>
        \/ pc' = [pc EXCEPT !["main"] = "add"] /\ medehaLock' = "main"
    BY <1>3 DEF TakeMeDeHa, Goes
  <2> QED
    BY <2>1, <2>2 DEF IInv, TypeOK, Thread
<1>4. ASSUME NEW n \in Asked, \/ DtndInject(n) \/ Lose(n) \/ Drop(n)
                              \/ \E l \in LinkId : Forward(n, l)
      PROVE  MedehaLockHeld'
  BY <1>4 DEF DtndInject, Lose, Drop, Forward, RouterOnly, threadVars, lockVars
<1>5. CASE UNCHANGED vars
  BY <1>5 DEF vars, threadVars, lockVars
<1> QED
  BY <1>1, <1>2, <1>3, <1>4, <1>5 DEF Next, Handle, DtndStep

\* The semaphores of Bundles and of the MeDeHa records are never waited for in a
\* ring: metaDataReceived holds bundlesLock across an injection, and
\* addTheMeDeHaInjectedBundle holds the other across a wait for bundlesLock, yet
\* as long as a thread is at work one can go on.
THEOREM NoRing == Spec => []SomeoneRuns
<1>1. Init => MedehaLockHeld
  BY InjectionAssumption DEF Init, MedehaLockHeld, Thread
<1>2. IInv /\ MedehaLockHeld /\ [Next]_vars => MedehaLockHeld'
  BY MedehaLockStep
<1>3. ASSUME IInv, MedehaLockHeld PROVE SomeoneRuns
  <2> SUFFICES ASSUME NEW t \in Thread, pc[t] # "idle",
                      \A u \in Thread : pc[u] # "idle" => Waits(u)
               PROVE  FALSE
    BY DEF SomeoneRuns
  <2>1. pc["main"] = "add" /\ bundlesLock # NONE
    BY <1>3 DEF IInv, TypeOK, InHand, Waits, MedehaLockHeld, Thread
  <2>2. bundlesLock \in Thread /\ pc[bundlesLock] \notin {"idle", "add"}
    BY <1>3, <2>1 DEF IInv, TypeOK, LocksHeld, Thread
  <2>3. bundlesLock # "medeha"
    BY <1>3, <2>1, InjectionAssumption DEF IInv, TypeOK
  <2> QED
    BY <2>2, <2>3 DEF Waits
<1> QED
  BY <1>1, <1>2, <1>3, Invariance, PTL DEF Spec
=============================================================================
