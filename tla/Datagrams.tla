------------------------------ MODULE Datagrams ------------------------------
(***************************************************************************)
(* Facts about a queue of datagrams, of which some are about links: what   *)
(* the last one about a link says, and in which order they come.  Gateway  *)
(* and Links use them for the datagrams that wait in a router's socket: a  *)
(* router's view of a link, followed by what those will make of it, is     *)
(* what dtnd last said.                                                    *)
(***************************************************************************)
EXTENDS Integers, Sequences, TLAPS

CONSTANT LinkEvents   \* the types of the datagrams about links

\* The i-th datagram of s is about the link l.
About(s, l, i) == s[i][2] = l /\ s[i][1] \in LinkEvents

\* After i datagrams of s, and starting from the view v of the link l: the last
\* of them that is about l is one of types, or there is none and v is one of views.
After(s, l, v, i, types, views) ==
  \/ \E j \in 1 .. i :
       /\ About(s, l, j) /\ s[j][1] \in types
       /\ \A k \in 1 .. i : About(s, l, k) => k <= j
  \/ v \in views /\ \A k \in 1 .. i : ~About(s, l, k)

\* A datagram that names l and is one of kinds comes next after one of types, or
\* after a view that is one of views.
Preceded(s, l, v, kinds, types, views) ==
  \A i \in 1 .. Len(s) :
    s[i][2] = l /\ s[i][1] \in kinds => After(s, l, v, i - 1, types, views)

------------------------------------------------------------------------------
(* One more datagram, or one less *)

LEMMA AppendAfter ==
  ASSUME NEW E, NEW s \in Seq(E), NEW e \in E, NEW l, NEW v, NEW types, NEW views,
         NEW i \in 0 .. Len(s), After(s, l, v, i, types, views)
  PROVE  After(Append(s, e), l, v, i, types, views)
<1> DEFINE t == Append(s, e)
<1>1. \A k \in 1 .. i : t[k] = s[k]
  OBVIOUS
<1> HIDE DEF t
<1>2. \A k \in 1 .. i : About(t, l, k) <=> About(s, l, k)
  BY <1>1 DEF About
<1>3. After(t, l, v, i, types, views)
  BY <1>1, <1>2 DEF After
<1> QED
  BY <1>3 DEF t

LEMMA AppendLast ==
  ASSUME NEW E, NEW s \in Seq(E), NEW e \in E, NEW l, NEW v, NEW types, NEW views,
         \/ e[2] = l /\ e[1] \in LinkEvents /\ e[1] \in types
         \/ /\ ~(e[2] = l /\ e[1] \in LinkEvents)
            /\ After(s, l, v, Len(s), types, views)
  PROVE  After(Append(s, e), l, v, Len(Append(s, e)), types, views)
<1> DEFINE t == Append(s, e)
<1>1. /\ Len(s) \in Nat /\ Len(t) = Len(s) + 1 /\ t[Len(t)] = e
      /\ \A k \in 1 .. Len(s) : t[k] = s[k]
  OBVIOUS
<1> HIDE DEF t
<1>2. \A k \in 1 .. Len(s) : About(t, l, k) <=> About(s, l, k)
  BY <1>1 DEF About
<1>3. CASE e[2] = l /\ e[1] \in LinkEvents /\ e[1] \in types
  <2>1. Len(t) \in 1 .. Len(t) /\ About(t, l, Len(t)) /\ t[Len(t)][1] \in types
    BY <1>1, <1>3 DEF About
  <2>2. \A k \in 1 .. Len(t) : k <= Len(t)
    BY <1>1
  <2>3. After(t, l, v, Len(t), types, views)
    BY <2>1, <2>2 DEF After
  <2> QED
    BY <2>3 DEF t
<1>4. CASE /\ ~(e[2] = l /\ e[1] \in LinkEvents)
           /\ After(s, l, v, Len(s), types, views)
  <2>1. ~About(t, l, Len(t))
    BY <1>1, <1>4 DEF About
  <2>2. ASSUME NEW k \in 1 .. Len(t), About(t, l, k)
        PROVE  k \in 1 .. Len(s) /\ About(s, l, k)
    <3>1. k \in 1 .. Len(s)
      BY <1>1, <2>1, <2>2
    <3> QED
      BY <1>2, <2>2, <3>1
  <2>3. CASE \E j \in 1 .. Len(s) :
               /\ About(s, l, j) /\ s[j][1] \in types
               /\ \A k \in 1 .. Len(s) : About(s, l, k) => k <= j
    <3>1. PICK j \in 1 .. Len(s) :
            /\ About(s, l, j) /\ s[j][1] \in types
            /\ \A k \in 1 .. Len(s) : About(s, l, k) => k <= j
      BY <2>3
    <3>2. j \in 1 .. Len(t) /\ About(t, l, j) /\ t[j][1] \in types
      BY <1>1, <1>2, <3>1
    <3>3. \A k \in 1 .. Len(t) : About(t, l, k) => k <= j
      BY <2>2, <3>1
    <3>4. After(t, l, v, Len(t), types, views)
      BY <3>2, <3>3 DEF After
    <3> QED
      BY <3>4 DEF t
  <2>4. CASE v \in views /\ \A k \in 1 .. Len(s) : ~About(s, l, k)
    <3>1. After(t, l, v, Len(t), types, views)
      BY <2>2, <2>4 DEF After
    <3> QED
      BY <3>1 DEF t
  <2> QED
    BY <1>4, <2>3, <2>4 DEF After
<1> QED
  BY <1>3, <1>4

\* w is the view of the link after the first datagram was handled.
LEMMA TailAfter ==
  ASSUME NEW E, NEW s \in Seq(E), s # <<>>, NEW l, NEW v, NEW w, NEW types, NEW views,
         NEW i \in 0 .. Len(Tail(s)), After(s, l, v, i + 1, types, views),
         About(s, l, 1) /\ s[1][1] \in types => w \in views,
         ~About(s, l, 1) /\ v \in views => w \in views
  PROVE  After(Tail(s), l, w, i, types, views)
<1> DEFINE t == Tail(s)
<1>1. /\ Len(s) \in Nat /\ Len(t) \in Nat /\ Len(s) = Len(t) + 1
      /\ \A k \in 1 .. Len(t) : t[k] = s[k + 1]
  OBVIOUS
<1>2. i \in Nat /\ i <= Len(t)
  BY <1>1
<1> HIDE DEF t
<1>3. \A k \in 1 .. i : /\ k + 1 \in 1 .. i + 1 /\ t[k] = s[k + 1]
                        /\ About(t, l, k) <=> About(s, l, k + 1)
  BY <1>1, <1>2 DEF About
<1>4. CASE \E j \in 1 .. i + 1 :
             /\ About(s, l, j) /\ s[j][1] \in types
             /\ \A k \in 1 .. i + 1 : About(s, l, k) => k <= j
  <2>1. PICK j \in 1 .. i + 1 :
          /\ About(s, l, j) /\ s[j][1] \in types
          /\ \A k \in 1 .. i + 1 : About(s, l, k) => k <= j
    BY <1>4
  <2>2. CASE j = 1
    <3>1. w \in views
      BY <2>1, <2>2
    <3>2. ASSUME NEW k \in 1 .. i, About(t, l, k) PROVE FALSE
      <4>1. k + 1 <= 1
        BY <1>3, <2>1, <2>2, <3>2
      <4> QED
        BY <1>2, <4>1
    <3>3. After(t, l, w, i, types, views)
      BY <3>1, <3>2 DEF After
    <3> QED
      BY <3>3 DEF t
  <2>3. CASE j # 1
    <3>1. j - 1 \in 1 .. i /\ (j - 1) + 1 = j
      BY <1>2, <2>3
    <3>2. About(t, l, j - 1) /\ t[j - 1][1] \in types
      BY <1>3, <2>1, <3>1
    <3>3. ASSUME NEW k \in 1 .. i, About(t, l, k) PROVE k <= j - 1
      <4>1. k + 1 <= j
        BY <1>3, <2>1, <3>3
      <4> QED
        BY <1>2, <4>1
    <3>4. After(t, l, w, i, types, views)
      BY <3>1, <3>2, <3>3 DEF After
    <3> QED
      BY <3>4 DEF t
  <2> QED
    BY <2>2, <2>3
<1>5. CASE v \in views /\ \A k \in 1 .. i + 1 : ~About(s, l, k)
  <2>1. 1 \in 1 .. i + 1
    BY <1>2
  <2>2. w \in views
    BY <1>5, <2>1
  <2>3. After(t, l, w, i, types, views)
    BY <1>3, <1>5, <2>2 DEF After
  <2> QED
    BY <2>3 DEF t
<1> QED
  BY <1>4, <1>5 DEF After

LEMMA AppendPreceded ==
  ASSUME NEW E, NEW s \in Seq(E), NEW e \in E, NEW l, NEW v,
         NEW kinds, NEW types, NEW views, Preceded(s, l, v, kinds, types, views),
         e[2] = l /\ e[1] \in kinds => After(s, l, v, Len(s), types, views)
  PROVE  Preceded(Append(s, e), l, v, kinds, types, views)
<1> SUFFICES ASSUME NEW i \in 1 .. Len(Append(s, e)), Append(s, e)[i][2] = l,
                    Append(s, e)[i][1] \in kinds
             PROVE  After(Append(s, e), l, v, i - 1, types, views)
  BY DEF Preceded
<1>1. Len(s) \in Nat /\ Len(Append(s, e)) = Len(s) + 1
  OBVIOUS
<1>2. i - 1 \in 0 .. Len(s)
  BY <1>1
<1>3. After(s, l, v, i - 1, types, views)
  <2>1. CASE i \in 1 .. Len(s)
    <3>1. Append(s, e)[i] = s[i]
      BY <2>1
    <3> QED
      BY <2>1, <3>1 DEF Preceded
  <2>2. CASE i = Len(s) + 1
    <3>1. Append(s, e)[i] = e
      BY <2>2
    <3>2. After(s, l, v, Len(s), types, views)
      BY <3>1
    <3>3. i - 1 = Len(s)
      BY <1>1, <2>2
    <3> QED
      BY <3>2, <3>3
  <2> QED
    BY <1>1, <2>1, <2>2
<1> QED
  BY <1>2, <1>3, AppendAfter

LEMMA TailPreceded ==
  ASSUME NEW E, NEW s \in Seq(E), s # <<>>, NEW l, NEW v, NEW w,
         NEW kinds, NEW types, NEW views, Preceded(s, l, v, kinds, types, views),
         About(s, l, 1) /\ s[1][1] \in types => w \in views,
         ~About(s, l, 1) /\ v \in views => w \in views
  PROVE  Preceded(Tail(s), l, w, kinds, types, views)
<1> SUFFICES ASSUME NEW i \in 1 .. Len(Tail(s)), Tail(s)[i][2] = l,
                    Tail(s)[i][1] \in kinds
             PROVE  After(Tail(s), l, w, i - 1, types, views)
  BY DEF Preceded
<1>1. /\ Len(s) \in Nat /\ Len(Tail(s)) \in Nat /\ Len(s) = Len(Tail(s)) + 1
      /\ Tail(s)[i] = s[i + 1]
  OBVIOUS
<1>2. i + 1 \in 1 .. Len(s) /\ (i + 1) - 1 = (i - 1) + 1 /\ i - 1 \in 0 .. Len(Tail(s))
  BY <1>1
<1>3. After(s, l, v, (i + 1) - 1, types, views)
  BY <1>1, <1>2 DEF Preceded
<1>4. After(s, l, v, (i - 1) + 1, types, views)
  BY <1>2, <1>3
<1> QED
  BY <1>2, <1>4, TailAfter

\* What is true of the whole queue and of the view, for the whole rest of it.
LEMMA TailLast ==
  ASSUME NEW E, NEW s \in Seq(E), s # <<>>, NEW l, NEW v, NEW w, NEW types, NEW views,
         After(s, l, v, Len(s), types, views),
         About(s, l, 1) /\ s[1][1] \in types => w \in views,
         ~About(s, l, 1) /\ v \in views => w \in views
  PROVE  After(Tail(s), l, w, Len(Tail(s)), types, views)
<1>1. Len(Tail(s)) \in 0 .. Len(Tail(s)) /\ Len(Tail(s)) + 1 = Len(s)
  OBVIOUS
<1> QED
  BY <1>1, TailAfter

\* The first datagram has nothing before it.
LEMMA HeadPreceded ==
  ASSUME NEW E, NEW s \in Seq(E), s # <<>>, NEW l, NEW v,
         NEW kinds, NEW types, NEW views, Preceded(s, l, v, kinds, types, views),
         s[1][2] = l, s[1][1] \in kinds
  PROVE  v \in views
<1>1. 1 \in 1 .. Len(s) /\ 1 .. (1 - 1) = {}
  OBVIOUS
<1>2. After(s, l, v, 1 - 1, types, views)
  BY <1>1 DEF Preceded
<1> QED
  BY <1>1, <1>2 DEF After

\* Nothing has been said.
LEMMA NothingSaid ==
  ASSUME NEW l, NEW v, NEW types, NEW views
  PROVE  /\ After(<<>>, l, v, Len(<<>>), types, views) <=> v \in views
         /\ \A kinds : Preceded(<<>>, l, v, kinds, types, views)
<1>1. Len(<<>>) = 0 /\ 1 .. 0 = {}
  OBVIOUS
<1> QED
  BY <1>1 DEF After, Preceded
==============================================================================
