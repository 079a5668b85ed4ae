------------------------------ MODULE MCLinks ------------------------------
(* Small instances of Links: which link leads where, and what dtnd does. *)
EXTENDS Links, TLC

CONSTANTS l1, l2, n1, n2

\* Each link has a peer of its own, or two links lead to one node, as when both
\* nodes open a connection.
OwnPeers == l1 :> n1 @@ l2 :> n2
OnePeer  == l1 :> n1 @@ l2 :> n1

Network(peers, deletable, carry) ==
  [peerOf |-> peers, mayDelete |-> deletable, early |-> {}, mayCarry |-> carry]

AnyNetwork == {Network(OwnPeers, {l1}, {l1}),     \* told of a bundle too late
               Network(OnePeer, {l1, l2}, {}),    \* a node freed under a link
               Network(OnePeer, {}, {l1})}        \* links are kept
=============================================================================
