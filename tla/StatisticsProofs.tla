-------------------------- MODULE StatisticsProofs --------------------------
(***************************************************************************)
(* The statistics, for any bundles, creation times, bins, configurations   *)
(* and any time.  The clock and the bins only go up, and a report is made  *)
(* only of a message that still lives: a bundle that comes back, which it  *)
(* does after its lifetime, comes later than its last report.  The last    *)
(* part is about the averages that the schedulers make of the reports: the *)
(* sum of as many equal numbers as a set has members.                      *)
(***************************************************************************)
EXTENDS Statistics, FiniteSetTheorems, WellFoundedInduction, TLAPS

\* A whole bundle with a message leaves the buffer at the end of its lifetime.
GoneIsOutlived ==
  \A m \in messagesMatrix \ Fragment : m \notin buffered => Elapsed(m) >= ttl

\* The last report was made in the lifetime, if one was made.
ReportedAlive ==
  \A m \in Bundle :
    \/ lastReport[m] = 0
    \/ lastReport[m] <= now /\ lastReport[m] - creation[m] < ttl

\* What a bundle without a message has.
Untouched ==
  \A b \in Bundle \ messagesMatrix :
    /\ lastReport[b] = 0
    /\ miBitMap[b] = Empty

\* A message was last updated in a bin that is not later than today's.
BinsPassed ==
  \A m \in messagesMatrix :
    Elapsed(m) >= 0 /\ statVersion[m] <= BinOf(Elapsed(m))

NullNodesOutlived == \A m \in nullNode : Elapsed(m) >= ttl

IInv ==
  /\ TypeOK
  /\ GoneIsOutlived
  /\ ReportedAlive
  /\ Untouched
  /\ BinsPassed
  /\ NullNodesOutlived
  /\ ReportIsCurrent
  /\ SeenSinceStart
  /\ EndsOverOutlived

------------------------------------------------------------------------------
(* Bins *)

\* What integer division gives.
LEMMA Division ==
  ASSUME NEW x \in Nat, NEW s \in Nat \ {0}
  PROVE  /\ x \div s \in Nat
         /\ s * (x \div s) <= x
         /\ x < s * ((x \div s) + 1)
  OBVIOUS

\* convertElapsedTimeToBinIndex gives a bin, or the one after the last.
LEMMA BinOfType ==
  ASSUME NEW et \in Int
  PROVE  BinOf(et) \in 0 .. axeLength
<1> USE StatisticsAssumption
<1>1. CASE et > axeSubdivision * axeLength \/ et <= 0
  BY <1>1 DEF BinOf
<1>2. CASE 0 < et /\ et <= axeSubdivision * axeLength
  <2> DEFINE q == (et - 1) \div axeSubdivision
  <2>1. q \in Nat /\ axeSubdivision * q <= et - 1
    BY <1>2, Division
  <2>2. axeSubdivision * q < axeSubdivision * axeLength
    BY <1>2, <2>1
  <2>3. q < axeLength
    <3>1. SUFFICES ASSUME q >= axeLength PROVE FALSE
      BY <2>1
    <3>2. axeSubdivision * q >= axeSubdivision * axeLength
      BY <2>1, <3>1
    <3>3. QED
      BY <2>1, <2>2, <3>2
  <2>4. BinOf(et) = q
    BY <1>2 DEF BinOf
  <2>5. QED
    BY <2>1, <2>3, <2>4
<1>3. axeSubdivision * axeLength \in Int
  OBVIOUS
<1>4. QED
  BY <1>1, <1>2, <1>3

\* convertElapsedTimeToBinIndex agrees with statAxe: an age in the bins is above
\* minLt of its bin and not above maxLt, at the boundaries too; no other bin has
\* it.  Age 0 is in the first bin, a greater one in the bin after the last.
THEOREM BinHoldsAge ==
  ASSUME NEW et \in Int, 0 < et, et <= axeSubdivision * axeLength,
         NEW i \in 0 .. axeLength - 1
  PROVE  i = BinOf(et) <=> axeSubdivision * i < et /\ et <= axeSubdivision * (i + 1)
<1> USE StatisticsAssumption
<1> DEFINE q == (et - 1) \div axeSubdivision
<1>0. axeSubdivision * axeLength \in Nat
  OBVIOUS
<1>1. BinOf(et) = q
  BY <1>0 DEF BinOf
<1>2. q \in Nat /\ axeSubdivision * q <= et - 1 /\ et - 1 < axeSubdivision * (q + 1)
  BY Division
<1> HIDE DEF q
<1>3. axeSubdivision * q < et /\ et <= axeSubdivision * (q + 1)
  <2>1. axeSubdivision * q \in Int /\ axeSubdivision * (q + 1) \in Int
    BY <1>2
  <2> QED
    BY <1>2, <2>1
<1>4. ASSUME axeSubdivision * i < et, et <= axeSubdivision * (i + 1), i # q
      PROVE  FALSE
  <2>1. CASE i + 1 <= q
    <3>1. axeSubdivision * (i + 1) <= axeSubdivision * q
      BY <1>2, <2>1
    <3> QED
      BY <1>2, <1>3, <1>4, <3>1
  <2>2. CASE q + 1 <= i
    <3>1. axeSubdivision * (q + 1) <= axeSubdivision * i
      BY <1>2, <2>2
    <3> QED
      BY <1>2, <1>3, <1>4, <3>1
  <2> QED
    BY <1>2, <1>4, <2>1, <2>2
<1> QED
  BY <1>1, <1>3, <1>4

\* An older bundle is in the same bin or in a later one.
LEMMA BinOfGrows ==
  ASSUME NEW x \in Int, NEW y \in Int, x <= y
  PROVE  BinOf(x) <= BinOf(y)
<1> USE StatisticsAssumption
<1>0. axeSubdivision * axeLength \in Nat
  OBVIOUS
<1>1. CASE y > axeSubdivision * axeLength
  BY <1>0, <1>1, BinOfType DEF BinOf
<1>2. CASE x <= 0
  BY <1>0, <1>2, BinOfType DEF BinOf
<1>3. CASE 0 < x /\ y <= axeSubdivision * axeLength
  <2> DEFINE p == (x - 1) \div axeSubdivision
             q == (y - 1) \div axeSubdivision
  <2>1. /\ p \in Nat /\ axeSubdivision * p <= x - 1
        /\ q \in Nat /\ y - 1 < axeSubdivision * (q + 1)
    BY <1>3, Division
  <2>2. BinOf(x) = p /\ BinOf(y) = q
    BY <1>0, <1>3 DEF BinOf
  <2> HIDE DEF p, q
  <2>3. ASSUME q + 1 <= p PROVE FALSE
    <3>1. axeSubdivision * (q + 1) <= axeSubdivision * p
      BY <2>1, <2>3
    <3>2. QED
      BY <2>1, <3>1
  <2>4. QED
    BY <2>1, <2>2, <2>3
<1>4. QED
  BY <1>0, <1>1, <1>2, <1>3

\* The age of a bundle is a number of seconds.
LEMMA AgeType ==
  ASSUME TypeOK, NEW b \in Bundle
  PROVE  /\ creation[b] \in Int /\ now \in Nat /\ now >= 1
         /\ Elapsed(b) \in Int /\ BinOf(Elapsed(b)) \in 0 .. axeLength
<1>1. creation[b] \in Int
  <2>1. creation[b] \in Creation
    BY DEF TypeOK
  <2>2. QED
    BY <2>1, StatisticsAssumption
<1>2. now \in Nat /\ now >= 1
  <2>1. now \in 1 .. MaxTime /\ MaxTime \in Nat
    BY StatisticsAssumption DEF TypeOK
  <2>2. QED
    BY <2>1
<1>3. Elapsed(b) \in Int
  BY <1>1, <1>2 DEF Elapsed
<1>4. QED
  BY <1>1, <1>2, <1>3, BinOfType

------------------------------------------------------------------------------
(* The steps *)

LEMMA InitIInv == Init => IInv
<1> SUFFICES ASSUME Init PROVE IInv
  OBVIOUS
<1>1. TypeOK
  <2>1. Empty \in Bits
    BY DEF Empty, Bits
  <2>2. 0 \in 0 .. axeLength /\ 0 \in 0 .. MaxTime /\ 1 \in 1 .. MaxTime
    BY StatisticsAssumption
  <2>3. QED
    BY <2>1, <2>2 DEF Init, TypeOK
<1>2. QED
  BY <1>1 DEF Init, IInv, GoneIsOutlived, ReportedAlive, Untouched, BinsPassed,
     NullNodesOutlived, ReportIsCurrent, SeenSinceStart, EndsOverOutlived

LEMMA TickStep == IInv /\ Tick => IInv'
<1> SUFFICES ASSUME IInv, Tick PROVE IInv'
  OBVIOUS
<1> USE DEF IInv
<1>1. TypeOK'
  <2>1. now' \in 1 .. MaxTime
    BY StatisticsAssumption DEF TypeOK, Tick
  <2>2. QED
    BY <2>1 DEF TypeOK, Tick, nodeVars, reportVars
<1>2. ASSUME NEW b \in Bundle
      PROVE  /\ Elapsed(b) \in Int /\ Elapsed(b)' \in Int
             /\ Elapsed(b)' = Elapsed(b) + 1
  BY AgeType DEF Tick, Elapsed
<1>3. GoneIsOutlived'
  BY <1>2, StatisticsAssumption DEF GoneIsOutlived, Tick, TypeOK
<1>4. ReportedAlive'
  <2>1. SUFFICES ASSUME NEW m \in Bundle, lastReport[m] <= now
                 PROVE  lastReport[m] <= now + 1
    BY DEF ReportedAlive, Tick, reportVars
  <2>2. lastReport[m] \in 0 .. MaxTime /\ now \in Nat /\ MaxTime \in Nat
    BY AgeType, StatisticsAssumption DEF TypeOK
  <2>3. QED
    BY <2>1, <2>2
<1>5. Untouched'
  BY DEF Untouched, Tick, nodeVars, reportVars
<1>6. BinsPassed'
  <2>1. SUFFICES ASSUME NEW m \in messagesMatrix
                 PROVE  Elapsed(m)' >= 0 /\ statVersion[m] <= BinOf(Elapsed(m)')
    BY DEF BinsPassed, Tick, nodeVars, BinOf
  <2>2. m \in Bundle /\ statVersion[m] \in 0 .. axeLength
    BY DEF TypeOK
  <2>3. BinOf(Elapsed(m)) <= BinOf(Elapsed(m)')
    BY <1>2, <2>2, BinOfGrows
  <2>4. /\ BinOf(Elapsed(m)) \in 0 .. axeLength
        /\ BinOf(Elapsed(m)') \in 0 .. axeLength
    BY <1>2, <2>2, BinOfType
  <2>5. Elapsed(m) >= 0 /\ statVersion[m] <= BinOf(Elapsed(m))
    BY DEF BinsPassed
  <2>6. QED
    BY <1>2, <2>2, <2>3, <2>4, <2>5, StatisticsAssumption
<1>7. NullNodesOutlived'
  BY <1>2, StatisticsAssumption DEF NullNodesOutlived, Tick, TypeOK
<1>8. ReportIsCurrent' /\ SeenSinceStart'
  BY DEF ReportIsCurrent, SeenSinceStart, OutOfDate, Tick,
     nodeVars, reportVars
<1>9. EndsOverOutlived'
  BY DEF EndsOverOutlived, Tick
<1>10. QED
  BY <1>1, <1>3, <1>4, <1>5, <1>6, <1>7, <1>8, <1>9

LEMMA ExpireStep ==
  ASSUME IInv, NEW b \in Bundle, Expire(b)
  PROVE  IInv'
<1> USE DEF IInv
<1>1. TypeOK'
  BY DEF TypeOK, Expire, nodeVars, reportVars
<1>2. GoneIsOutlived'
  BY DEF GoneIsOutlived, Expire, Elapsed
<1>3. ReportedAlive' /\ Untouched'
  BY DEF ReportedAlive, Untouched, Expire, nodeVars, reportVars
<1>4. BinsPassed' /\ NullNodesOutlived'
  BY DEF BinsPassed, NullNodesOutlived, Expire, nodeVars, Elapsed, BinOf
<1>5. ReportIsCurrent' /\ SeenSinceStart'
  BY DEF ReportIsCurrent, SeenSinceStart, OutOfDate, Expire,
     nodeVars, reportVars
<1>6. EndsOverOutlived'
  BY DEF EndsOverOutlived, Expire
<1>7. QED
  BY <1>1, <1>2, <1>3, <1>4, <1>5, <1>6

\* What a call of addStatMessage does, if it does anything.
LEMMA Adds ==
  ASSUME IInv, NEW b \in Bundle, Receive(b)
  PROVE  \/ /\ UNCHANGED <<messagesMatrix, nodeVars, updated>>
         \/ /\ ended' = "no" /\ Elapsed(b) >= 0
            /\ BinOf(Elapsed(b)) \in Bin \cup {axeLength}
            /\ messagesMatrix' = messagesMatrix \cup {b}
            /\ Hold(b, BinOf(Elapsed(b)))
<1>1. Elapsed(b) \in Int /\ BinOf(Elapsed(b)) \in 0 .. axeLength
  BY AgeType DEF IInv
<1>2. BinOf(Elapsed(b)) \in Bin \cup {axeLength}
  BY <1>1, StatisticsAssumption DEF Bin
<1>3. CASE ended' = "no" /\ HasRoom
  <2>1. Elapsed(b) >= 0
    BY <1>1, <1>3 DEF Receive, AddStatMessage
  <2>2. QED
    BY <1>2, <1>3, <2>1 DEF Receive, AddStatMessage
<1>4. CASE ~(ended' = "no" /\ HasRoom)
  BY <1>4 DEF Receive, AddStatMessage
<1>5. QED
  BY <1>3, <1>4

LEMMA ReceiveType ==
  ASSUME IInv, NEW b \in Bundle, Receive(b)
  PROVE  TypeOK'
<1> USE DEF IInv
<1> DEFINE bin == BinOf(Elapsed(b))
<1>1. bin \in 0 .. axeLength /\ now \in 0 .. MaxTime
  <2>1. now \in 1 .. MaxTime /\ MaxTime \in Nat
    BY StatisticsAssumption DEF TypeOK
  <2>2. QED
    BY <2>1, AgeType
<1>2. /\ buffered' \subseteq Bundle /\ nullNode' \subseteq messagesMatrix'
      /\ ended' \in {"no", "future", "null node"}
  <2>1. messagesMatrix \subseteq messagesMatrix'
    BY Adds
  <2>2. QED
    BY <2>1 DEF Receive, AddStatMessage, NullNodes, Outlived, TypeOK
<1>3. CASE UNCHANGED <<messagesMatrix, nodeVars, updated>>
  BY <1>2, <1>3 DEF TypeOK, Receive, nodeVars, reportVars
<1>4. CASE /\ messagesMatrix' = messagesMatrix \cup {b}
           /\ Hold(b, bin)
  <2> HIDE DEF bin
  <2>0. bitMap[b] \in Bits /\ miBitMap[b] \in Bits
    BY DEF TypeOK
  <2>1. /\ SetBit(bitMap[b], bin) \in Bits /\ SetBit(miBitMap[b], bin) \in Bits
        /\ SetFrom(miBitMap[b], bin) \in Bits
    BY ONLY <2>0, SMTT(30) DEF Bits, SetBit, SetFrom
  <2>2. /\ statVersion' \in [Bundle -> 0 .. axeLength]
        /\ miStartIndex' \in [Bundle -> 0 .. axeLength]
        /\ updated' \in [Bundle -> 0 .. MaxTime]
    <3>1. /\ statVersion' = [statVersion EXCEPT ![b] = bin]
          /\ updated' = [updated EXCEPT ![b] = now]
          /\ \/ miStartIndex' = miStartIndex
             \/ miStartIndex' = [miStartIndex EXCEPT ![b] = bin]
      BY <1>4 DEF Hold
    <3>2. /\ statVersion \in [Bundle -> 0 .. axeLength]
          /\ miStartIndex \in [Bundle -> 0 .. axeLength]
          /\ updated \in [Bundle -> 0 .. MaxTime]
      BY DEF TypeOK
    <3>3. QED
      BY ONLY <1>1, <3>1, <3>2, SMTT(30)
  <2>3. bitMap' \in [Bundle -> Bits] /\ miBitMap' \in [Bundle -> Bits]
    <3>1. /\ bitMap' = [bitMap EXCEPT ![b] = SetBit(bitMap[b], bin)]
          /\ \/ miBitMap' = [miBitMap EXCEPT ![b] = SetBit(miBitMap[b], bin)]
             \/ miBitMap' = [miBitMap EXCEPT ![b] = SetFrom(miBitMap[b], bin)]
      BY <1>4 DEF Hold
    <3>2. bitMap \in [Bundle -> Bits] /\ miBitMap \in [Bundle -> Bits]
      BY DEF TypeOK
    <3>3. QED
      BY ONLY <2>1, <3>1, <3>2, SMTT(30)
  <2>4. QED
    BY <1>2, <1>4, <2>2, <2>3 DEF TypeOK, Receive, reportVars
<1>5. QED
  BY <1>3, <1>4, Adds

LEMMA ReceiveStep ==
  ASSUME IInv, NEW b \in Bundle, Receive(b)
  PROVE  IInv'
<1> USE DEF IInv
<1> DEFINE bin == BinOf(Elapsed(b))
<1>1. TypeOK'
  BY ReceiveType
<1>2. /\ Elapsed(b) \in Int /\ bin \in 0 .. axeLength /\ now \in Nat
      /\ now >= 1 /\ axeLength \in Nat
  BY AgeType, StatisticsAssumption
<1>3. /\ \A m : Elapsed(m)' = Elapsed(m)
      /\ \A m : BinOf(Elapsed(m))' = BinOf(Elapsed(m))
  BY DEF Receive, Elapsed, BinOf
<1>4. NullNodesOutlived'
  BY <1>3 DEF NullNodesOutlived, Receive, AddStatMessage, NullNodes, Outlived
<1>5. ReportedAlive'
  BY DEF ReportedAlive, Receive, reportVars
<1>6. EndsOverOutlived'
  <2>1. SUFFICES ASSUME ended' = "null node" PROVE EndsOverOutlived'
    BY DEF EndsOverOutlived
  <2>2. PICK m \in messagesMatrix : Finishes(m)
    BY <2>1 DEF Receive, AddStatMessage
  <2>3. Elapsed(m) >= ttl /\ statVersion[m] >= axeLength
    BY <2>2 DEF Finishes, NullNodes, Outlived, NullNodesOutlived
  <2>4. UNCHANGED <<messagesMatrix, statVersion>>
    BY <2>1 DEF Receive, AddStatMessage, nodeVars
  <2>5. QED
    BY <1>3, <2>3, <2>4 DEF EndsOverOutlived
<1>7. CASE UNCHANGED <<messagesMatrix, nodeVars, updated>>
  <2>1. GoneIsOutlived' /\ BinsPassed'
    BY <1>3, <1>7 DEF GoneIsOutlived, BinsPassed, Receive, nodeVars
  <2>2. Untouched' /\ ReportIsCurrent' /\ SeenSinceStart'
    BY <1>7 DEF Untouched, ReportIsCurrent, SeenSinceStart, OutOfDate, Receive,
       nodeVars, reportVars
  <2>3. QED
    BY <1>1, <1>4, <1>5, <1>6, <2>1, <2>2
<1>8. CASE /\ Elapsed(b) >= 0
           /\ messagesMatrix' = messagesMatrix \cup {b}
           /\ Hold(b, bin)
  <2> HIDE DEF bin
  <2>1. /\ \A m \in Bundle \ {b} :
             /\ statVersion'[m] = statVersion[m]
             /\ miStartIndex'[m] = miStartIndex[m]
             /\ bitMap'[m] = bitMap[m] /\ miBitMap'[m] = miBitMap[m]
             /\ updated'[m] = updated[m]
        /\ statVersion'[b] = bin /\ updated'[b] = now
    BY <1>8 DEF Hold, TypeOK
  <2>2. messagesMatrix \subseteq Bundle
    BY DEF TypeOK
  <2>3. GoneIsOutlived'
    BY <1>3, <1>8 DEF GoneIsOutlived, Receive
  <2>4. Untouched'
    BY <1>8, <2>1, <2>2 DEF Untouched, Receive, reportVars
  <2>5. BinsPassed'
    <3>1. SUFFICES ASSUME NEW m \in messagesMatrix'
                   PROVE  /\ Elapsed(m) >= 0
                          /\ statVersion'[m] <= BinOf(Elapsed(m))
      BY <1>3 DEF BinsPassed
    <3>2. CASE m = b
      BY <1>2, <1>8, <2>1, <3>2 DEF bin
    <3>3. CASE m # b
      BY <1>8, <2>1, <2>2, <3>1, <3>3 DEF BinsPassed
    <3>4. QED
      BY <3>2, <3>3
  <2>6. ReportIsCurrent'
    <3>1. SUFFICES ASSUME NEW m \in messagesMatrix' \ Fragment,
                          ~OutOfDate(m)'
                   PROVE  (niMap[m] = bitMap[m] /\ miMap[m] = miBitMap[m])'
      BY DEF ReportIsCurrent
    <3>2. CASE m # b
      BY <1>8, <2>1, <2>2, <3>1, <3>2
      DEF ReportIsCurrent, OutOfDate, Receive, reportVars
    <3>3. CASE m = b
      <4>1. b \notin buffered
        BY <3>1, <3>3 DEF Receive
      <4>2. lastReport[b] < now
        <5>1. /\ lastReport[b] \in Int /\ creation[b] \in Int /\ ttl \in Int
              /\ Elapsed(b) = now - creation[b]
          <6>1. lastReport[b] \in 0 .. MaxTime
            BY DEF TypeOK
          <6>2. QED
            BY <6>1, AgeType, StatisticsAssumption DEF Elapsed
        <5>2. CASE b \notin messagesMatrix
          BY <1>2, <5>2 DEF Untouched
        <5>3. CASE b \in messagesMatrix
          <6>1. Elapsed(b) >= ttl
            BY <3>1, <3>3, <4>1, <5>3 DEF GoneIsOutlived
          <6>2. \/ lastReport[b] = 0
                \/ lastReport[b] - creation[b] < ttl
            BY DEF ReportedAlive
          <6>3. QED
            BY <1>2, <5>1, <6>1, <6>2
        <5>4. QED
          BY <5>2, <5>3
      <4>3. QED
        BY <2>1, <3>1, <3>3, <4>2 DEF OutOfDate, Receive, reportVars
    <3>4. QED
      BY <3>2, <3>3
  <2>7. SeenSinceStart'
    <3>1. SUFFICES ASSUME NEW m \in messagesMatrix'
                   PROVE  /\ miBitMap'[m] = [i \in Bin |->
                               IF i >= miStartIndex'[m] THEN 1 ELSE 0]
                          /\ miStartIndex'[m] <= statVersion'[m]
      BY DEF SeenSinceStart
    <3>2. CASE m # b
      BY <1>8, <2>1, <2>2, <3>1, <3>2 DEF SeenSinceStart
    <3>3. CASE m = b /\ b \in messagesMatrix
      <4>1. /\ miStartIndex[b] <= statVersion[b] /\ statVersion[b] <= bin
            /\ miBitMap[b] =
                 [i \in Bin |-> IF i >= miStartIndex[b] THEN 1 ELSE 0]
        BY <3>3 DEF SeenSinceStart, BinsPassed, bin
      <4>2. miStartIndex'[b] = miStartIndex[b]
        BY <1>8, <3>3 DEF Hold
      <4>3. miBitMap'[b] = [i \in Bin |-> IF i = bin THEN 1 ELSE miBitMap[b][i]]
        BY <1>8, <3>3 DEF Hold, SetBit, TypeOK
      <4>4. miStartIndex[b] \in Nat /\ statVersion[b] \in Nat
        <5>1. /\ miStartIndex[b] \in 0 .. axeLength
              /\ statVersion[b] \in 0 .. axeLength
          BY DEF TypeOK
        <5>2. QED
          BY <5>1
      <4>5. miStartIndex[b] <= bin
        BY <1>2, <4>1, <4>4
      <4>6. miBitMap'[b] = [i \in Bin |-> IF i >= miStartIndex[b] THEN 1 ELSE 0]
        BY <4>1, <4>3, <4>5
      <4>7. QED
        BY <2>1, <3>3, <4>2, <4>5, <4>6
    <3>4. CASE m = b /\ b \notin messagesMatrix
      <4>1. miBitMap[b] = Empty
        BY <3>4 DEF Untouched
      <4>2. miStartIndex'[b] = bin
        BY <1>8, <3>4 DEF Hold, TypeOK
      <4>3. miBitMap'[b] =
              [i \in Bin |-> IF i >= bin THEN 1 ELSE miBitMap[b][i]]
        BY <1>8, <3>4 DEF Hold, SetFrom, TypeOK
      <4>4. miBitMap'[b] = [i \in Bin |-> IF i >= bin THEN 1 ELSE 0]
        BY <4>1, <4>3 DEF Empty
      <4>5. QED
        BY <1>2, <2>1, <3>4, <4>2, <4>4
    <3>5. QED
      BY <3>2, <3>3, <3>4
  <2>8. QED
    BY <1>1, <1>4, <1>5, <1>6, <2>3, <2>4, <2>5, <2>6, <2>7
<1>9. QED
  BY <1>7, <1>8, Adds

\* A session that does not end the process makes reports of living messages.
LEMMA ReportsLive ==
  ASSUME NEW list, Failures(list) = {}
  PROVE  \A m \in Reporting(list) : m \notin NullNodes
<1> SUFFICES ASSUME NEW m \in Reporting(list) \cap NullNodes PROVE FALSE
  OBVIOUS
<1>1. "null node" \in Failures(list)
  BY DEF Failures
<1>2. QED
  BY <1>1

LEMMA SessionStep ==
  ASSUME IInv, NEW list \in SUBSET Bundle, Session(list)
  PROVE  IInv'
<1> USE DEF IInv
<1>1. /\ \A m : Elapsed(m)' = Elapsed(m)
      /\ \A m : BinOf(Elapsed(m))' = BinOf(Elapsed(m))
  BY DEF Session, Elapsed, BinOf
<1>2. /\ Reporting(list) \subseteq messagesMatrix
      /\ messagesMatrix \subseteq Bundle
  BY DEF Reporting, TypeOK
<1>3. GoneIsOutlived' /\ BinsPassed'
  BY <1>1 DEF GoneIsOutlived, BinsPassed, Session, nodeVars
<1>4. NullNodesOutlived'
  BY <1>1 DEF NullNodesOutlived, Session, NullNodes, Outlived
<1>5. SeenSinceStart'
  BY DEF SeenSinceStart, Session, nodeVars
<1>6. nullNode' \subseteq messagesMatrix'
  BY DEF Session, NullNodes, Outlived, TypeOK
<1>7. CASE Failures(list) # {}
  <2>1. ended' \in Failures(list) /\ sent' = {} /\ UNCHANGED reportVars
    BY <1>7 DEF Session
  <2>2. ended' \in {"future", "null node"}
    BY <2>1 DEF Failures
  <2>3. TypeOK'
    BY <1>6, <2>1, <2>2 DEF TypeOK, Session, nodeVars, reportVars
  <2>4. ReportedAlive' /\ Untouched' /\ ReportIsCurrent'
    BY <2>1 DEF ReportedAlive, Untouched, ReportIsCurrent, OutOfDate, Session,
       nodeVars, reportVars
  <2>5. EndsOverOutlived'
    <3>1. SUFFICES ASSUME ended' = "null node"
                   PROVE  \E m \in messagesMatrix :
                            /\ Elapsed(m) >= ttl
                            /\ OutOfDate(m) \/ statVersion[m] >= axeLength
      BY <1>1, <2>1 DEF EndsOverOutlived, OutOfDate, Session, nodeVars,
         reportVars
    <3>2. PICK m \in messagesMatrix :
            Finishes(m) \/ m \in Reporting(list) \cap NullNodes
      BY <2>1, <3>1, <1>2 DEF Failures
    <3>3. m \in NullNodes
      BY <3>2 DEF Finishes
    <3>4. Elapsed(m) >= ttl
      BY <3>3 DEF NullNodes, Outlived, NullNodesOutlived
    <3>5. OutOfDate(m) \/ statVersion[m] >= axeLength
      BY <3>2 DEF Finishes, Reporting
    <3>6. QED
      BY <3>4, <3>5
  <2>6. QED
    BY <1>3, <1>4, <1>5, <2>3, <2>4, <2>5
<1>8. CASE Failures(list) = {}
  <2>1. /\ MakeReports(Reporting(list)) /\ sent' \in Scheduled(list)
        /\ UNCHANGED ended /\ ended = "no"
    BY <1>8 DEF Session
  <2>2. sent' \subseteq list
    BY <2>1 DEF Scheduled
  <2>3. TypeOK'
    <3>1. now \in 1 .. MaxTime /\ MaxTime \in Nat
      BY StatisticsAssumption DEF TypeOK
    <3>2. now \in 0 .. MaxTime
      BY <3>1
    <3>3. /\ lastReport' \in [Bundle -> 0 .. MaxTime]
          /\ niMap' \in [Bundle -> Bits] /\ miMap' \in [Bundle -> Bits]
      BY <2>1, <3>2 DEF MakeReports, TypeOK
    <3>4. QED
      BY <1>6, <2>1, <2>2, <3>3 DEF TypeOK, Session, nodeVars
  <2>4. ReportedAlive'
    <3>1. SUFFICES ASSUME NEW m \in Bundle, lastReport'[m] # lastReport[m]
                   PROVE  lastReport'[m] <= now /\ lastReport'[m] - creation[m] < ttl
      BY DEF ReportedAlive, Session
    <3>2. m \in Reporting(list) /\ lastReport'[m] = now
      BY <2>1, <3>1 DEF MakeReports
    <3>3. ~(Elapsed(m) >= ttl)
      BY <1>2, <1>8, <3>2, ReportsLive DEF NullNodes, Outlived
    <3>4. QED
      BY <3>2, <3>3, AgeType, StatisticsAssumption DEF Elapsed
  <2>5. Untouched'
    BY <1>2, <2>1 DEF Untouched, MakeReports, Session, nodeVars
  <2>6. ReportIsCurrent'
    <3>1. SUFFICES ASSUME NEW m \in messagesMatrix \ Fragment, ~OutOfDate(m)'
                   PROVE  niMap'[m] = bitMap[m] /\ miMap'[m] = miBitMap[m]
      BY DEF ReportIsCurrent, Session, nodeVars
    <3>2. CASE m \in Reporting(list)
      BY <1>2, <2>1, <3>2 DEF MakeReports
    <3>3. CASE m \notin Reporting(list)
      <4>1. /\ lastReport'[m] = lastReport[m]
            /\ niMap'[m] = niMap[m] /\ miMap'[m] = miMap[m]
        BY <1>2, <2>1, <3>3 DEF MakeReports
      <4>2. ~OutOfDate(m)
        BY <3>1, <4>1 DEF OutOfDate, Session
      <4>3. QED
        BY <3>1, <4>1, <4>2 DEF ReportIsCurrent
    <3>4. QED
      BY <3>2, <3>3
  <2>7. EndsOverOutlived'
    BY <2>1 DEF EndsOverOutlived
  <2>8. QED
    BY <1>3, <1>4, <1>5, <2>3, <2>4, <2>5, <2>6, <2>7
<1>9. QED
  BY <1>7, <1>8

LEMMA StepIInv == IInv /\ [Next]_vars => IInv'
<1> SUFFICES ASSUME IInv, [Next]_vars PROVE IInv'
  OBVIOUS
<1>1. CASE Tick
  BY <1>1, TickStep
<1>2. ASSUME NEW b \in Bundle, Receive(b) PROVE IInv'
  BY <1>2, ReceiveStep
<1>3. ASSUME NEW b \in Bundle, Expire(b) PROVE IInv'
  BY <1>3, ExpireStep
<1>4. ASSUME NEW list \in SUBSET Bundle, Session(list) PROVE IInv'
  BY <1>4, SessionStep
<1>5. CASE UNCHANGED vars
  <2> USE <1>5 DEF vars, nodeVars, reportVars, IInv
  <2>1. TypeOK'
    BY DEF TypeOK
  <2>2. GoneIsOutlived' /\ BinsPassed' /\ NullNodesOutlived'
    BY DEF GoneIsOutlived, BinsPassed, NullNodesOutlived, Elapsed, BinOf
  <2>3. ReportedAlive' /\ Untouched' /\ ReportIsCurrent'
    BY DEF ReportedAlive, Untouched, ReportIsCurrent, OutOfDate
  <2>4. SeenSinceStart'
    BY DEF SeenSinceStart
  <2>5. EndsOverOutlived'
    BY DEF EndsOverOutlived, OutOfDate, Elapsed
  <2>6. QED
    BY <2>1, <2>2, <2>3, <2>4, <2>5
<1>6. QED
  BY <1>1, <1>2, <1>3, <1>4, <1>5 DEF Next

------------------------------------------------------------------------------
(* Averages.  What a sum over a finite set is would be shown by induction;   *)
(* here it is shown by the smallest set of which it is not true.             *)

\* There is a least number of any numbers.
LEMMA Least ==
  ASSUME NEW T \in SUBSET Nat, T # {}
  PROVE  \E n \in T : \A m \in T : n <= m
<1> DEFINE R == OpToRel(<, Nat)
<1>1. IsWellFoundedOn(R, Nat)
  BY NatLessThanWellFounded
<1>2. \A x, y \in Nat : <<x, y>> \in R <=> x < y
  BY DEF OpToRel
<1> HIDE DEF R
<1>3. PICK n \in T : \A m \in T : ~(<<m, n>> \in R)
  BY <1>1, WFMin
<1>4. T \subseteq Nat
  OBVIOUS
<1>5. ASSUME NEW m \in T PROVE n <= m
  <2>1. n \in Nat /\ m \in Nat /\ ~(<<m, n>> \in R)
    BY <1>3, <1>4
  <2>2. ~(m < n)
    BY <1>2, <2>1
  <2> QED
    BY <2>1, <2>2
<1> QED
  BY <1>5

LEMMA OneMore ==
  ASSUME NEW c \in Int, NEW n \in Int
  PROVE  c + c * (n - 1) = c * n /\ c * 0 = 0
OBVIOUS

Picked(s) == CHOOSE x \in s : TRUE

\* g sums the constant c over the subsets of S, as MapThenSumSet does.
Sums(g, S, c) ==
  g = [s \in SUBSET S |-> IF s = {} THEN 0 ELSE c + g[s \ {Picked(s)}]]

LEMMA SubsetCount ==
  ASSUME NEW S, IsFiniteSet(S), NEW s \in SUBSET S
  PROVE  /\ Cardinality(s) \in Nat
         /\ s = {} => Cardinality(s) = 0
         /\ s # {} => /\ Picked(s) \in s /\ s \ {Picked(s)} \in SUBSET S
                      /\ Cardinality(s \ {Picked(s)}) = Cardinality(s) - 1
                      /\ Cardinality(s) - 1 \in Nat
<1>1. IsFiniteSet(s)
  BY FS_Subset
<1>2. Cardinality(s) \in Nat
  BY <1>1, FS_CardinalityType
<1>3. s # {} => Picked(s) \in s
  BY DEF Picked
<1>4. /\ IsFiniteSet(s \ {Picked(s)})
      /\ Picked(s) \in s => Cardinality(s \ {Picked(s)}) = Cardinality(s) - 1
  BY <1>1, FS_RemoveElement
<1>5. Cardinality(s \ {Picked(s)}) \in Nat
  BY <1>4, FS_CardinalityType
<1> QED
  BY <1>2, <1>3, <1>4, <1>5, FS_EmptySet

LEMMA SumsExist ==
  ASSUME NEW S, IsFiniteSet(S), NEW c \in Int
  PROVE  \E g : Sums(g, S, c)
<1> DEFINE g == [s \in SUBSET S |-> c * Cardinality(s)]
<1>1. ASSUME NEW s \in SUBSET S
      PROVE  g[s] = IF s = {} THEN 0 ELSE c + g[s \ {Picked(s)}]
  <2>1. CASE s = {}
    <3>1. Cardinality(s) = 0 /\ c * 0 = 0
      BY <2>1, SubsetCount, OneMore
    <3> QED
      BY <2>1, <3>1
  <2>2. CASE s # {}
    <3>1. /\ s \ {Picked(s)} \in SUBSET S /\ Cardinality(s) \in Int
          /\ Cardinality(s \ {Picked(s)}) = Cardinality(s) - 1
      BY <2>2, SubsetCount
    <3>2. c + c * (Cardinality(s) - 1) = c * Cardinality(s)
      BY <3>1, OneMore
    <3> QED
      BY <2>2, <3>1, <3>2
  <2> QED
    BY <2>1, <2>2
<1>2. g = [s \in SUBSET S |-> IF s = {} THEN 0 ELSE c + g[s \ {Picked(s)}]]
  BY <1>1
<1> HIDE DEF g
<1> QED
  BY <1>2 DEF Sums

\* Of the sets whose sum is not that many times c there is no smallest.
LEMMA SumIs ==
  ASSUME NEW S, IsFiniteSet(S), NEW c \in Int, NEW g, Sums(g, S, c)
  PROVE  g[S] = c * Cardinality(S)
<1> DEFINE T == {Cardinality(s) : s \in {r \in SUBSET S : g[r] # c * Cardinality(r)}}
<1> SUFFICES ASSUME T # {} PROVE FALSE
  OBVIOUS
<1>1. T \in SUBSET Nat
  <2>1. \A s \in SUBSET S : Cardinality(s) \in Nat
    BY SubsetCount
  <2> QED
    BY <2>1
<1>2. PICK n \in T : \A m \in T : n <= m
  BY <1>1, Least
<1>3. PICK s \in SUBSET S : g[s] # c * Cardinality(s) /\ n = Cardinality(s)
  OBVIOUS
<1>4. g[s] = IF s = {} THEN 0 ELSE c + g[s \ {Picked(s)}]
  BY DEF Sums
<1>5. CASE s = {}
  <2>1. Cardinality(s) = 0 /\ c * 0 = 0
    BY <1>5, SubsetCount, OneMore
  <2> QED
    BY <1>3, <1>4, <1>5, <2>1
<1>6. CASE s # {}
  <2> DEFINE r == s \ {Picked(s)}
  <2>1. /\ r \in SUBSET S /\ n - 1 \in Nat /\ n \in Nat
        /\ Cardinality(r) = n - 1
    BY <1>3, <1>6, SubsetCount
  <2>2. n - 1 \notin T
    BY <1>2, <2>1
  <2>3. g[r] = c * (n - 1)
    BY <2>1, <2>2
  <2>4. g[s] = c * n
    BY <1>4, <1>6, <2>1, <2>3, OneMore
  <2> QED
    BY <1>3, <2>4
<1> QED
  BY <1>5, <1>6

\* The average of n numbers c is c: no rounding, of a negative c either.
LEMMA Average ==
  ASSUME NEW c \in Int, NEW n \in Nat \ {0}
  PROVE  (c * n) \div n = c
<1> DEFINE x == c * n
           q == x \div n
<1>1. x \in Int
  OBVIOUS
<1>2. q \in Int /\ n * q <= x /\ x < n * (q + 1)
  BY <1>1
<1> HIDE DEF q
<1>3. ASSUME q + 1 <= c PROVE FALSE
  <2>1. n * (q + 1) <= n * c
    BY <1>2, <1>3
  <2> QED
    BY <1>2, <2>1
<1>4. ASSUME c + 1 <= q PROVE FALSE
  <2>1. n * (c + 1) <= n * q
    BY <1>2, <1>4
  <2> QED
    BY <1>2, <2>1
<1>5. q = c
  BY <1>2, <1>3, <1>4
<1> QED
  BY <1>5 DEF q

------------------------------------------------------------------------------
(* How many utilities there are *)

\* The statistics have a message for each bundle that came, and no more.
Finite == IsFiniteSet(messagesMatrix)

\* With one node for each message every count is 1.
LEMMA CountsAreOne ==
  ASSUME NEW map \in Bits, NEW bin
  PROVE  AtLeastOne(map, bin) = 1
BY DEF AtLeastOne, Bits

LEMMA NodeCount == ASSUME TypeOK PROVE N \in Nat
<1>1. conf \in Configured
  BY DEF TypeOK
<1>2. conf.numberOfNodes \in {0} \cup {n \in Nat : n > 2}
  BY <1>1, StatisticsAssumption
<1> QED
  BY <1>2 DEF N

LEMMA DdIs ==
  ASSUME TypeOK, TypeOK', NEW m \in Bundle, NEW bin
  PROVE  Dd(m, bin) = N - 2
<1>1. miMap'[m] \in Bits /\ niMap'[m] \in Bits
  BY DEF TypeOK
<1>2. AtLeastOne(miMap'[m], bin) = 1 /\ AtLeastOne(niMap'[m], bin) = 1
  BY <1>1, CountsAreOne
<1>3. \A n \in Nat : (n - 1 - 1) \div 1 = n - 2
  OBVIOUS
<1> QED
  BY <1>2, <1>3, NodeCount DEF Dd

LEMMA AvgDdIs ==
  ASSUME TypeOK, TypeOK', Finite, NEW bin
  PROVE  AvgDd(bin) \in {0, N - 2}
<1>1. CASE bin \notin Bin \/ Valid(bin) = {}
  BY <1>1 DEF AvgDd
<1>2. CASE bin \in Bin /\ Valid(bin) # {}
  <2> DEFINE S == Valid(bin)
             c == N - 2
             f(m) == Dd(m, bin)
             Iterates(g) ==
               g = [s \in SUBSET S |-> IF s = {} THEN 0
                                       ELSE f(Picked(s)) + g[s \ {Picked(s)}]]
             iter == CHOOSE g : Iterates(g)
  <2>1. S \subseteq Bundle /\ S \subseteq messagesMatrix
    BY DEF Valid, TypeOK
  <2>2. IsFiniteSet(S) /\ Cardinality(S) \in Nat \ {0} /\ c \in Int
    <3>1. IsFiniteSet(S)
      BY <2>1, FS_Subset DEF Finite
    <3>2. Cardinality(S) \in Nat /\ Cardinality(S) # 0
      BY <1>2, <3>1, FS_CardinalityType, FS_EmptySet
    <3> QED
      BY <3>1, <3>2, NodeCount
  <2>3. MapThenSumSet(LAMBDA m : Dd(m, bin), S) = iter[S]
    BY DEF MapThenSumSet, MapThenFoldSet, Picked
  <2>4. \A s \in SUBSET S : s # {} => f(Picked(s)) = c
    <3>1. \A s \in SUBSET S : s # {} => Picked(s) \in Bundle
      BY <2>1 DEF Picked
    <3> QED
      BY <3>1, DdIs
  <2> HIDE DEF S, c, f
  <2>5. \A g : Iterates(g) <=> Sums(g, S, c)
    <3>1. ASSUME NEW g
          PROVE  [s \in SUBSET S |-> IF s = {} THEN 0
                                     ELSE f(Picked(s)) + g[s \ {Picked(s)}]]
                 = [s \in SUBSET S |-> IF s = {} THEN 0 ELSE c + g[s \ {Picked(s)}]]
      BY <2>4
    <3> QED
      BY <3>1 DEF Sums
  <2>6. \E g : Iterates(g)
    BY <2>2, <2>5, SumsExist
  <2> HIDE DEF Iterates
  <2>7. Sums(iter, S, c)
    BY <2>5, <2>6
  <2> HIDE DEF iter
  <2>8. iter[S] = c * Cardinality(S)
    BY <2>2, <2>7, SumIs
  <2>9. (c * Cardinality(S)) \div Cardinality(S) = c
    BY <2>2, Average
  <2>10. AvgDd(bin) = iter[S] \div Cardinality(S)
    BY <1>2, <2>3 DEF AvgDd, S
  <2> QED
    BY <2>8, <2>9, <2>10 DEF c
<1> QED
  BY <1>1, <1>2

\* As many bundles are sent as there are utilities.
LEMMA SentIsInjected ==
  ASSUME NEW list, NEW part \in Scheduled(list), NEW T, IsFiniteSet(T),
         \A b \in list : Utility(b) \in T
  PROVE  /\ Cardinality(part) \in Nat /\ Cardinality(T) \in Nat
         /\ Cardinality(part) <= Cardinality(T)
<1> DEFINE f == [b \in part |-> Utility(b)]
<1>1. part \subseteq list /\ \A b, c \in part : b # c => Utility(b) # Utility(c)
  BY DEF Scheduled
<1>2. f \in [part -> T]
  BY <1>1
<1>3. \A b, c \in part : f[b] = f[c] => b = c
  BY <1>1
<1> HIDE DEF f
<1>4. f \in Injection(part, T)
  BY <1>2, <1>3 DEF Injection, IsInjective
<1>5. IsFiniteSet(part) /\ Cardinality(part) <= Cardinality(T)
  BY <1>4, FS_Injection
<1> QED
  BY <1>5, FS_CardinalityType

LEMMA FewStep ==
  ASSUME TypeOK, TypeOK', Finite, FewSent, [Next]_vars
  PROVE  FewSent'
<1>1. CASE UNCHANGED <<conf, sent>>
  BY <1>1 DEF FewSent, N
<1>2. ASSUME NEW list \in SUBSET Bundle, Session(list) PROVE FewSent'
  <2>1. conf' = conf /\ N' = N
    BY <1>2 DEF Session, N
  <2>2. CASE sent' = {}
    <3>1. Cardinality(sent') = 0
      BY <2>2, FS_EmptySet
    <3> QED
      BY <3>1 DEF FewSent
  <2>3. CASE sent' \in Scheduled(list)
    <3>1. ASSUME conf.hbsdOptimizePerformance = 1 PROVE Cardinality(sent') <= 2
      <4>1. \A b \in list : Utility(b) \in {0, N - 2}
        BY <3>1, AvgDdIs DEF Utility
      <4>2. IsFiniteSet({0, N - 2}) /\ Cardinality({0, N - 2}) <= 2
        <5>1. IsFiniteSet({0}) /\ Cardinality({0}) = 1
          BY FS_Singleton
        <5>2. {0, N - 2} = {0} \cup {N - 2}
          OBVIOUS
        <5> QED
          BY <5>1, <5>2, FS_AddElement
      <4>3. /\ Cardinality(sent') \in Nat /\ Cardinality({0, N - 2}) \in Nat
            /\ Cardinality(sent') <= Cardinality({0, N - 2})
        BY <2>3, <4>1, <4>2, SentIsInjected
      <4> QED
        BY <4>2, <4>3
    <3>2. ASSUME conf.hbsdOptimizePerformance = 0, N = 0 PROVE Cardinality(sent') <= 1
      <4>1. \A bin : DrIsZero(bin)
        <5>1. ASSUME NEW bin, NEW m \in Valid(bin)
              PROVE  AtLeastOne(miMap'[m], bin) = 1
          <6>1. miMap'[m] \in Bits
            BY DEF Valid, TypeOK
          <6> QED
            BY <6>1, CountsAreOne
        <5> QED
          BY <3>2, <5>1 DEF DrIsZero
      <4>2. \A b \in list : Utility(b) \in {0}
        BY <3>2, <4>1 DEF Utility
      <4>3. IsFiniteSet({0}) /\ Cardinality({0}) = 1
        BY FS_Singleton
      <4>4. Cardinality(sent') <= Cardinality({0})
        BY <2>3, <4>2, <4>3, SentIsInjected
      <4> QED
        BY <4>3, <4>4
    <3> QED
      BY <2>1, <3>1, <3>2 DEF FewSent
  <2> QED
    BY <1>2, <2>2, <2>3 DEF Session
<1>3. UNCHANGED <<conf, sent>> \/ \E list \in SUBSET Bundle : Session(list)
  BY DEF Next, Tick, Receive, Expire, vars
<1> QED
  BY <1>1, <1>2, <1>3

LEMMA FiniteStep == Finite /\ [Next]_vars => Finite'
<1> SUFFICES ASSUME Finite, [Next]_vars PROVE Finite'
  OBVIOUS
<1>1. messagesMatrix' = messagesMatrix
      \/ \E b \in Bundle : messagesMatrix' = messagesMatrix \cup {b}
  BY DEF Next, Tick, Receive, AddStatMessage, Expire, Session, vars
<1> QED
  BY <1>1, FS_AddElement DEF Finite

------------------------------------------------------------------------------
(* Theorems *)

\* The inductive invariant holds of the statistics of every router.
THEOREM Invariance == Spec => []IInv
<1>1. QED
  BY InitIInv, StepIInv, PTL DEF Spec

\* Every variable of the statistics keeps its type.
THEOREM TypeCorrect == Spec => []TypeOK
<1>1. IInv => TypeOK
  BY DEF IInv
<1>2. QED
  BY <1>1, Invariance, PTL

\* Whole seconds are enough for sendAllMiReport and its like to know whether the
\* report of a whole bundle is out of date.
THEOREM ReportsCurrent == Spec => []ReportIsCurrent
<1>1. IInv => ReportIsCurrent
  BY DEF IInv
<1>2. QED
  BY <1>1, Invariance, PTL

\* addNode and setTimeBinValue keep miBitMap and miStartIndex in agreement.
THEOREM SeenFromStart == Spec => []SeenSinceStart
<1>1. IInv => SeenSinceStart
  BY DEF IInv
<1>2. QED
  BY <1>1, Invariance, PTL

\* The null pointer that isValid makes is followed only over messages with the
\* lifetime over, and without a later report or later than the bins.
THEOREM EndsOnlyOverOutlived == Spec => []EndsOverOutlived
<1>1. IInv => EndsOverOutlived
  BY DEF IInv
<1>2. QED
  BY <1>1, Invariance, PTL

\* scheduleDDAndSend and scheduleDRAndSend put the list in a map from utilities
\* to bundles: of a list of any length, and whatever the statistics hold, two
\* bundles go out at most, or one where the number of nodes is not configured.
THEOREM FewAreSent == Spec => []FewSent
<1>1. Init => Finite /\ FewSent
  BY FS_EmptySet DEF Init, Finite, FewSent
<1>2. TypeOK /\ TypeOK' /\ Finite /\ FewSent /\ [Next]_vars => (Finite /\ FewSent)'
  BY FiniteStep, FewStep
<1> QED
  BY <1>1, <1>2, TypeCorrect, PTL DEF Spec
=============================================================================
