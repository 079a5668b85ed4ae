------------------------------ MODULE MCSession ------------------------------
(* A small instance of Session: a bundle for a node elsewhere, made at one     *)
(* node, and one made at the other for the first, whose lifetime may end.      *)
EXTENDS Session, TLC

CONSTANTS x, y

MCOrigin == x :> Greater @@ y :> Smaller
MCDest == x :> Elsewhere @@ y :> Greater
==============================================================================
