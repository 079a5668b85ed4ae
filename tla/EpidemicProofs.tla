---------------------------- MODULE EpidemicProofs ----------------------------
(***************************************************************************)
(* What an epidemic promises, for any nodes and bundles.                   *)
(***************************************************************************)
EXTENDS Epidemic, TLAPS

Types ==
  /\ has \in [Node -> SUBSET Bundle] /\ over \in [Node -> SUBSET Bundle]
  /\ deliveries \in [Bundle -> Nat]

\* A bundle that its application got is still at the node, or has outlived its
\* lifetime there; in both cases the node does not take it again.
Kept ==
  \A b \in Bundle :
    deliveries[b] # 0 =>
      deliveries[b] = 1 /\ Dest[b] \in Node /\ b \in has[Dest[b]] \cup over[Dest[b]]

LEMMA TakeTypes ==
  ASSUME Types, NEW n \in Node, NEW b \in Bundle, Take(n, b) PROVE Types'
<1>1. has' \in [Node -> SUBSET Bundle] /\ over' \in [Node -> SUBSET Bundle]
  BY DEF Types, Take
<1>2. deliveries' \in [Bundle -> Nat]
  BY DEF Types, Take
<1> QED
  BY <1>1, <1>2 DEF Types

LEMMA TakeKept ==
  ASSUME Types, Kept, NEW n \in Node, NEW b \in Bundle, Take(n, b) PROVE Kept'
<1>1. /\ has'[n] = has[n] \cup {b} /\ \A m \in Node \ {n} : has'[m] = has[m]
      /\ over' = over
  BY DEF Types, Take
<1>2. b \notin has[n] \cup over[n]
  BY DEF Take
<1> SUFFICES ASSUME NEW c \in Bundle, deliveries'[c] # 0
    PROVE  /\ deliveries'[c] = 1 /\ Dest[c] \in Node
           /\ c \in has'[Dest[c]] \cup over'[Dest[c]]
  BY DEF Kept
<1>3. CASE c = b /\ Dest[b] = n
  <2>1. deliveries[b] = 0
    BY <1>2, <1>3 DEF Kept
  <2>2. deliveries'[b] = 1
    BY <1>3, <2>1 DEF Take, Types
  <2> QED
    BY <1>1, <1>3, <2>2
<1>4. CASE ~(c = b /\ Dest[b] = n)
  <2>1. deliveries'[c] = deliveries[c]
    BY <1>4 DEF Take, Types
  <2>2. /\ deliveries[c] = 1 /\ Dest[c] \in Node
        /\ c \in has[Dest[c]] \cup over[Dest[c]]
    BY <2>1 DEF Kept
  <2> QED
    BY <1>1, <2>1, <2>2
<1> QED
  BY <1>3, <1>4

LEMMA OverTypes ==
  ASSUME Types, NEW n \in Node, NEW b \in Bundle, LifetimeEnds(n, b) PROVE Types'
BY DEF Types, LifetimeEnds

LEMMA OverKept ==
  ASSUME Types, Kept, NEW n \in Node, NEW b \in Bundle, LifetimeEnds(n, b) PROVE Kept'
<1>1. /\ has'[n] = has[n] \ {b} /\ over'[n] = over[n] \cup {b}
      /\ \A m \in Node \ {n} : has'[m] = has[m] /\ over'[m] = over[m]
      /\ deliveries' = deliveries
  BY DEF Types, LifetimeEnds
<1>2. ASSUME NEW m \in Node, NEW c \in has[m] \cup over[m]
      PROVE  c \in has'[m] \cup over'[m]
  BY <1>1
<1> QED
  BY <1>1, <1>2 DEF Kept

\* An application gets a bundle at most once, whatever copies are under way:
\* the duplicates that dtnd suppresses (find_duplicate), and what its clock says
\* has expired.
THEOREM AtMostOnce ==
  ASSUME Origin \in [Bundle -> Node] PROVE Spec => []DeliveredOnce
<1>1. Init => Types /\ Kept
  BY DEF Init, Types, Kept
<1>2. Types /\ Kept /\ [Next]_vars => (Types /\ Kept)'
  <2> SUFFICES ASSUME Types, Kept, [Next]_vars PROVE Types' /\ Kept'
    OBVIOUS
  <2>1. ASSUME NEW b \in Bundle, Create(b) PROVE Types' /\ Kept'
    <3>1. Origin[b] \in Node /\ Take(Origin[b], b)
      BY <2>1 DEF Create
    <3> QED
      BY <3>1, TakeTypes, TakeKept
  <2>2. ASSUME NEW n \in Node, NEW b \in Bundle, Copy(n, b) PROVE Types' /\ Kept'
    BY <2>2, TakeTypes, TakeKept DEF Copy
  <2>3. ASSUME NEW n \in Node, NEW b \in Bundle, LifetimeEnds(n, b)
        PROVE  Types' /\ Kept'
    BY <2>3, OverTypes, OverKept
  <2>4. CASE UNCHANGED vars
    BY <2>4 DEF vars, Types, Kept
  <2> QED
    BY <2>1, <2>2, <2>3, <2>4 DEF Next
<1>3. Types /\ Kept => DeliveredOnce
  <2> SUFFICES ASSUME Types, Kept, NEW b \in Bundle PROVE deliveries[b] <= 1
    BY DEF DeliveredOnce
  <2>1. deliveries[b] \in Nat /\ (deliveries[b] # 0 => deliveries[b] = 1)
    BY DEF Types, Kept
  <2> QED
    BY <2>1
<1> QED
  BY <1>1, <1>2, <1>3, PTL DEF Spec
===============================================================================
