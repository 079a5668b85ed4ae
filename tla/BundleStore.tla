---------------------------- MODULE BundleStore ----------------------------
(***************************************************************************)
(* What a bundle store promises, without maps, locks or threads.           *)
(*                                                                         *)
(* dtnd announces bundles under local ids and says when their life ends.   *)
(* The store keeps at most Capacity keys.  It takes a key in only for a    *)
(* bundle dtnd has announced, and lets go of a key only for a bundle that  *)
(* dtnd has let go of: Bundles.h says of expire that it is called "to      *)
(* expire a bundle", and nothing else is meant to make a bundle leave a    *)
(* buffer that is not full.                                                *)
(***************************************************************************)
EXTENDS Integers, FiniteSets

CONSTANTS LocalId, Gbof, GbofOf, Capacity

VARIABLES
  buffered, \* the keys in the store
  life      \* [LocalId -> "new", "pending" or "gone"], what dtnd says of each

vars == <<buffered, life>>

Init == buffered = {} /\ life = [lid \in LocalId |-> "new"]

Announce(lid) ==
  /\ life[lid] = "new"
  /\ life' = [life EXCEPT ![lid] = "pending"]
  /\ UNCHANGED buffered

Retire(lid) ==
  /\ life[lid] # "new"
  /\ life' = [life EXCEPT ![lid] = "gone"]
  /\ UNCHANGED buffered

Store(lid) ==
  /\ life[lid] # "new"
  /\ Cardinality(buffered) < Capacity
  /\ buffered' = buffered \cup {GbofOf[lid]}
  /\ UNCHANGED life

Discard(lid) ==
  /\ life[lid] = "gone"
  /\ buffered' = buffered \ {GbofOf[lid]}
  /\ UNCHANGED life

Next == \E lid \in LocalId :
          Announce(lid) \/ Retire(lid) \/ Store(lid) \/ Discard(lid)

Spec == Init /\ [][Next]_vars
=============================================================================
