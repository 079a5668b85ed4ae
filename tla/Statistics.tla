----------------------------- MODULE Statistics -----------------------------
(***************************************************************************)
(* The statistics of one HBSD router (StatisticsManager.cpp), and what the *)
(* two schedulers of HBSD_Routing.cpp make of them, with the optimization  *)
(* on.  Time goes by in seconds, and is cut into bins by the age of a      *)
(* bundle.  For each bundle the statistics keep, bin by bin, which nodes   *)
(* held it and which had seen it, and reports with the sums over all nodes *)
(* that are made again when something was updated since.                   *)
(*                                                                         *)
(* No router passes its statistics on (the call is commented out), so that *)
(* the one node known of a bundle is this router.                          *)
(*                                                                         *)
(* Everything here runs with bundlesLock: addIfNew in the main thread,     *)
(* the schedulers in the PeerListener.                                     *)
(***************************************************************************)
EXTENDS Integers, FiniteSets, FiniteSetsExt

CONSTANTS
  Bundle,              \* the keys of bundles
  Fragment,            \* those of fragments, which newBundle stores twice when
                       \* they come twice
  Creation,            \* seconds in which bundles are made, by their sources
  ttl,                 \* their time to live: "all the generated messages have
                       \* the same TTL value" (HBSD.conf)
  axeLength,           \* HBSD.conf, numberOfBins
  axeSubdivision,      \* HBSD.conf, binSize; also the average meeting time
  Configured,          \* what else HBSD.conf may say
  MaxTime              \* bound: the last second

\* A node count of 0 is the one that useOnlineAproximatedNumberOfNodes gives.
\* exp does not overflow while no bin is more than 709 seconds past ttl.
ASSUME StatisticsAssumption ==
  /\ Creation \subseteq Int /\ Fragment \subseteq Bundle
  /\ ttl \in Nat \ {0} /\ MaxTime \in Nat \ {0}
  /\ axeLength \in Nat \ {0} /\ axeSubdivision \in Nat \ {0}
  /\ axeLength * axeSubdivision <= ttl + 709
  /\ Configured \subseteq [hbsdOptimizePerformance : {0, 1},
                           numberOfNodes : {0} \cup {n \in Nat : n > 2},
                           mchBufferCapacity : Nat]

Bin  == 0 .. axeLength - 1
Bits == [Bin -> {0, 1}]

VARIABLES
  now,            \* time(NULL)
  conf,           \* one of Configured
  creation,       \* [Bundle -> when it was made]
  buffered,       \* activeBundles
  messagesMatrix, \* the bundles that have a DtnStatMessage
  statVersion, miStartIndex, bitMap, miBitMap, \* this router's DtnStatNode
  updated,        \* [Bundle -> when its DtnStatMessage was]
  lastReport,     \* [Bundle -> when its reports were made]
  niMap, miMap,   \* [Bundle -> the reports: copies held, nodes that saw it]
  nullNode,       \* the bundles with a second node, a null pointer
  sent,           \* what the last session sent
  ended           \* "no", or why the process ended

nodeVars   == <<statVersion, miStartIndex, bitMap, miBitMap>>
reportVars == <<lastReport, niMap, miMap>>
vars == <<now, conf, creation, buffered, messagesMatrix, nodeVars, updated,
          reportVars, nullNode, sent, ended>>

TypeOK ==
  /\ now \in 1 .. MaxTime /\ conf \in Configured
  /\ creation \in [Bundle -> Creation]
  /\ buffered \subseteq Bundle /\ messagesMatrix \subseteq Bundle
  /\ statVersion \in [Bundle -> 0 .. axeLength]
  /\ miStartIndex \in [Bundle -> 0 .. axeLength]
  /\ bitMap \in [Bundle -> Bits] /\ miBitMap \in [Bundle -> Bits]
  /\ updated \in [Bundle -> 0 .. MaxTime]
  /\ lastReport \in [Bundle -> 0 .. MaxTime]
  /\ niMap \in [Bundle -> Bits] /\ miMap \in [Bundle -> Bits]
  /\ nullNode \subseteq messagesMatrix
  /\ sent \subseteq Bundle
  /\ ended \in {"no", "future", "null node"}

Empty == [i \in Bin |-> 0]

Init ==
  /\ now = 1 /\ conf \in Configured
  /\ creation \in [Bundle -> Creation]
  /\ buffered = {} /\ messagesMatrix = {} /\ nullNode = {}
  /\ statVersion = [b \in Bundle |-> 0]
  /\ miStartIndex = [b \in Bundle |-> 0]
  /\ bitMap = [b \in Bundle |-> Empty] /\ miBitMap = [b \in Bundle |-> Empty]
  /\ updated = [b \in Bundle |-> 0] /\ lastReport = [b \in Bundle |-> 0]
  /\ niMap = [b \in Bundle |-> Empty] /\ miMap = [b \in Bundle |-> Empty]
  /\ sent = {}
  /\ ended = "no"

------------------------------------------------------------------------------
(* Age and bins *)

\* getElapsedTimeSinceCreation, and getLifeTime as well: the life time is set to
\* it and then goes on with the clock.
Elapsed(b) == now - creation[b]

\* Mutant of BinOf: bins are counted from 1.
BinOf_FromOne(et) ==
  CASE et > axeSubdivision * axeLength -> axeLength
    [] et <= 0                         -> 0
    [] OTHER                           -> 1 + (et \div axeSubdivision)

\* convertElapsedTimeToBinIndex: bin i has the ages above axeSubdivision * i,
\* bin 0 age 0 as well, and older bundles are in the bin after the last one.
BinOf(et) ==
  CASE et > axeSubdivision * axeLength -> axeLength
    [] et <= 0                         -> 0
    [] OTHER                           -> (et - 1) \div axeSubdivision

------------------------------------------------------------------------------
(* The validity of messages *)

\* Mutant of Outlived: the last second is not lived.
Outlived_Early == {m \in messagesMatrix : Elapsed(m) >= ttl - 1}

\* isValid, with the lifetime over: mapNodes[HBSD::routerEndpoint] is no node of
\* a message, which all go by the local EID; operator[] makes a null pointer.
Outlived == {m \in messagesMatrix : Elapsed(m) >= ttl}

NullNodes == nullNode \cup Outlived

\* isValid, for a message with a version past the bins and two nodes: it brings
\* the averages up to date for the last time, over a null pointer.
Finishes(m) == m \in NullNodes /\ statVersion[m] >= axeLength

\* The messages that enter an average for a bin.
Valid(bin) == {m \in messagesMatrix : statVersion[m] >= bin}

------------------------------------------------------------------------------
(* addIfNew *)

\* addNode and setTimeBinValue: a bundle held in this bin, and seen from the one
\* it was first held in.
SetBit(bits, bin)   == [i \in Bin |-> IF i = bin THEN 1 ELSE bits[i]]
SetFrom(bits, bin)  == [i \in Bin |-> IF i >= bin THEN 1 ELSE bits[i]]

\* Mutant of Hold: a bundle that comes back is taken for a new one.
Hold_StartsAgain(b, bin) ==
  /\ statVersion'  = [statVersion EXCEPT ![b] = bin]
  /\ bitMap'       = [bitMap EXCEPT ![b] = SetBit(@, bin)]
  /\ miStartIndex' = [miStartIndex EXCEPT ![b] = bin]
  /\ miBitMap'     = [miBitMap EXCEPT ![b] = SetFrom(@, bin)]
  /\ updated'      = [updated EXCEPT ![b] = now]

\* Mutant of Hold: a message is updated when it is made.
Hold_UpdatesOnce(b, bin) ==
  /\ statVersion' = [statVersion EXCEPT ![b] = bin]
  /\ bitMap'      = [bitMap EXCEPT ![b] = SetBit(@, bin)]
  /\ IF b \in messagesMatrix
       THEN /\ miBitMap' = [miBitMap EXCEPT ![b] = SetBit(@, bin)]
            /\ UNCHANGED <<miStartIndex, updated>>
       ELSE /\ miStartIndex' = [miStartIndex EXCEPT ![b] = bin]
            /\ miBitMap' = [miBitMap EXCEPT ![b] = SetFrom(@, bin)]
            /\ updated' = [updated EXCEPT ![b] = now]

Hold(b, bin) ==
  /\ statVersion' = [statVersion EXCEPT ![b] = bin]
  /\ bitMap'      = [bitMap EXCEPT ![b] = SetBit(@, bin)]
  /\ updated'     = [updated EXCEPT ![b] = now]
  /\ IF b \in messagesMatrix
       THEN /\ miBitMap' = [miBitMap EXCEPT ![b] = SetBit(@, bin)]
            /\ UNCHANGED miStartIndex
       ELSE /\ miStartIndex' = [miStartIndex EXCEPT ![b] = bin]
            /\ miBitMap' = [miBitMap EXCEPT ![b] = SetFrom(@, bin)]

Incomplete == {m \in messagesMatrix : statVersion[m] < axeLength}
HasRoom    == Cardinality(Incomplete) < conf.mchBufferCapacity

\* addStatMessage counts the incomplete messages first, and that looks into
\* each of them.  convertElapsedTimeToBinIndex exits over a negative age.
AddStatMessage(b) ==
  /\ nullNode' = NullNodes
  /\ ended' = IF \E m \in messagesMatrix : Finishes(m) THEN "null node"
              ELSE IF HasRoom /\ Elapsed(b) < 0 THEN "future" ELSE "no"
  /\ IF ended' = "no" /\ HasRoom
       THEN /\ messagesMatrix' = messagesMatrix \cup {b}
            /\ Hold(b, BinOf(Elapsed(b)))
       ELSE UNCHANGED <<messagesMatrix, nodeVars, updated>>

\* newBundle drops a whole bundle that is stored already.
Receive(b) ==
  /\ ended = "no" /\ (b \in buffered => b \in Fragment)
  /\ AddStatMessage(b)
  /\ buffered' = buffered \cup {b}
  /\ UNCHANGED <<now, conf, creation, reportVars, sent>>

\* expire: updateBundleStatus is told the empty key, which has no message.
Expire(b) ==
  /\ ended = "no" /\ b \in buffered /\ Elapsed(b) >= ttl
  /\ buffered' = buffered \ {b}
  /\ UNCHANGED <<now, conf, creation, messagesMatrix, nodeVars, updated,
                 reportVars, nullNode, sent, ended>>

------------------------------------------------------------------------------
(* Reports *)

\* The four reports of a message are asked for together: they are all up to
\* date, or none is.
OutOfDate(m) == lastReport[m] < updated[m]

\* getStatFromAxe for each bundle of the list: the messages that enter its
\* averages make their reports again if they have been updated since.
Reporting(list) ==
  {m \in messagesMatrix :
     /\ OutOfDate(m)
     /\ \E b \in list : Elapsed(b) >= 0 /\ m \in Valid(BinOf(Elapsed(b)))}

MakeReports(ms) ==
  /\ lastReport' = [m \in Bundle |-> IF m \in ms THEN now ELSE lastReport[m]]
  /\ niMap' = [m \in Bundle |-> IF m \in ms THEN bitMap[m] ELSE niMap[m]]
  /\ miMap' = [m \in Bundle |-> IF m \in ms THEN miBitMap[m] ELSE miMap[m]]

\* getNumberOfCopiesAt, getNumberOfNodesThatHaveSeeniT: "if(... == 0) return 1".
AtLeastOne(map, bin) == IF bin \in Bin /\ map[bin] > 1 THEN map[bin] ELSE 1

------------------------------------------------------------------------------
(* Scheduling *)

N == conf.numberOfNodes

\* updateDdMap, from the reports as this step leaves them.
Dd(m, bin) ==
  (N - 1 - AtLeastOne(miMap'[m], bin)) \div AtLeastOne(niMap'[m], bin)

\* getAvgDdAt.  The division is exact: with one node for each message all the
\* terms are the same.
AvgDd(bin) ==
  IF bin \notin Bin \/ Valid(bin) = {} THEN 0
  ELSE MapThenSumSet(LAMBDA m : Dd(m, bin), Valid(bin))
         \div Cardinality(Valid(bin))

\* getAvgDrAt, as far as it matters which are zero: (1 - seen / (N - 1)), an
\* integer, and without a node count (1 - seen), is a factor.
DrIsZero(bin) ==
  \/ bin \notin Bin
  \/ \A m \in Valid(bin) :
       LET seen == AtLeastOne(miMap'[m], bin)
       IN  IF N > 1 THEN 1 - (seen \div (N - 1)) = 0 ELSE 1 - seen = 0

\* Utilities as far as it matters which are equal.  The rate policy's is the
\* product of the time that is left and of an exponential of the bin's: equal,
\* if not zero, only where the times are.  The delay policy's is the square of
\* the average and constants.
Utility(b) ==
  LET bin == BinOf(Elapsed(b))
  IN  IF conf.hbsdOptimizePerformance = 1 THEN AvgDd(bin)
      ELSE IF DrIsZero(bin) THEN 0 ELSE ttl - Elapsed(b)

\* Mutant of Scheduled: a multimap.
Scheduled_All(list) == {list}

\* map<double, string>::insert keeps one bundle of each utility, the first of
\* the list.
Scheduled(list) ==
  {part \in SUBSET list :
     /\ \A b, c \in part : b # c => Utility(b) # Utility(c)
     /\ \A b \in list : \E c \in part : Utility(b) = Utility(c)}

\* Why a session ends the process: a bundle of the list is from the future, as
\* only full statistics let it in, or a sum runs over a null pointer.  Without a
\* message getStatFromAxe returns at once.
Failures(list) ==
  {"future" : b \in {b \in list : messagesMatrix # {} /\ Elapsed(b) < 0}}
    \cup {"null node" : m \in {m \in messagesMatrix : Finishes(m)}
                              \cup (Reporting(list) \cap NullNodes)}

\* scheduleDRAndSend, scheduleDDAndSend.
Session(list) ==
  /\ ended = "no" /\ list # {} /\ list \subseteq buffered
  /\ nullNode' = NullNodes
  /\ IF Failures(list) # {}
       THEN /\ ended' \in Failures(list) /\ sent' = {}
            /\ UNCHANGED reportVars
       ELSE /\ MakeReports(Reporting(list))
            /\ sent' \in Scheduled(list)
            /\ UNCHANGED ended
  /\ UNCHANGED <<now, conf, creation, buffered, messagesMatrix, nodeVars,
                 updated>>

------------------------------------------------------------------------------
Tick ==
  /\ ended = "no" /\ now < MaxTime /\ now' = now + 1
  /\ UNCHANGED <<conf, creation, buffered, messagesMatrix, nodeVars, updated,
                 reportVars, nullNode, sent, ended>>

Next ==
  \/ Tick
  \/ \E b \in Bundle : Receive(b) \/ Expire(b)
  \/ \E list \in SUBSET Bundle : Session(list)

Spec == Init /\ [][Next]_vars

------------------------------------------------------------------------------
(* Safety *)

\* The report of a whole bundle that no update seems to be later than is what
\* the bits say.  Times are compared in whole seconds, which misses an update in
\* the second of the report: it cannot come, because the bundle only comes back
\* with its lifetime over, and the report of that second would have ended the
\* process.
ReportIsCurrent ==
  \A m \in messagesMatrix \ Fragment :
    ~OutOfDate(m) => niMap[m] = bitMap[m] /\ miMap[m] = miBitMap[m]

\* A bundle has been seen from the bin it first came in, and in no earlier one,
\* however often it leaves and comes back: miStartIndex and miBitMap agree.
SeenSinceStart ==
  \A m \in messagesMatrix :
    /\ miBitMap[m] = [i \in Bin |-> IF i >= miStartIndex[m] THEN 1 ELSE 0]
    /\ miStartIndex[m] <= statVersion[m]

\* The null pointer ends the process over a message with its lifetime over,
\* and only if no report was made of it since it came, or it came too late for
\* the bins.
EndsOverOutlived ==
  ended = "null node" =>
    \E m \in messagesMatrix :
      Elapsed(m) >= ttl /\ (OutOfDate(m) \/ statVersion[m] >= axeLength)

\* With no node count every utility of the rate policy is zero, and those of the
\* delay policy are two, with and without a message that enters the average:
\* of a list of any length so many bundles are sent.
FewSent ==
  /\ conf.hbsdOptimizePerformance = 1 => Cardinality(sent) <= 2
  /\ conf.hbsdOptimizePerformance = 0 /\ N = 0 => Cardinality(sent) <= 1
=============================================================================
