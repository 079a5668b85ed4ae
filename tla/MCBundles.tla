----------------------------- MODULE MCBundles -----------------------------
(* Small instances of Bundles: which bundles dtnd handles in each run. *)
EXTENDS Bundles, TLC

CONSTANTS b1, b2, b3, b4, k1, k2, k3

\* What HBSD.conf may say.
Off           == [enableOptimization |-> FALSE, hbsdOptimizePerformance |-> 0]
DeliveryRate  == [enableOptimization |-> TRUE, hbsdOptimizePerformance |-> 0]
DeliveryDelay == [enableOptimization |-> TRUE, hbsdOptimizePerformance |-> 1]
UnknownPolicy == [enableOptimization |-> TRUE, hbsdOptimizePerformance |-> 7]
NotOptimized  == {Off}
AnyConfigured == {Off, DeliveryRate, UnknownPolicy}
Optimized     == {Off, DeliveryDelay}

\* A transit bundle, one for the MeDeHa gateway, one for a registered endpoint
\* and a summary vector.
MixedKind == b1 :> "transit" @@ b2 :> "medeha" @@ b3 :> "group" @@ b4 :> "sv"
MixedGbof == b1 :> k1 @@ b2 :> k2 @@ b3 :> k3 @@ b4 :> k3
MixedSV   == b4 :> {k1}

\* A whole bundle and a fragment (b3, b4) that dtnd hands over twice each.
TwiceKind == [lid \in {b1, b2, b3, b4} |-> "transit"]
TwiceGbof == b1 :> k1 @@ b2 :> k1 @@ b3 :> k2 @@ b4 :> k2
NoVectors == [lid \in {} |-> {}]

\* A transit bundle, one for a local application and one injected here.
LeakKind == b1 :> "transit" @@ b2 :> "injected" @@ b3 :> "app" @@ b4 :> "sv"
LeakGbof == b1 :> k1 @@ b2 :> k2 @@ b3 :> k3 @@ b4 :> k3
LeakSV   == b4 :> {k1}

\* Two transit bundles and two summary vectors.
TransitKind == b1 :> "transit" @@ b2 :> "transit" @@ b3 :> "sv" @@ b4 :> "sv"
TransitGbof == b1 :> k1 @@ b2 :> k2 @@ b3 :> k3 @@ b4 :> k3
TransitSV   == b3 :> {k3} @@ b4 :> {k2}
=============================================================================
