------------------------------ MODULE MCGateway ------------------------------
(* A small instance of Gateway: two links to one node, another node that is    *)
(* only written to, and every configuration with a gateway, or none.           *)
EXTENDS Gateway, TLC

CONSTANTS l1, l2, n1

OnePeer == l1 :> n1 @@ l2 :> n1

Conf(medeha, optimization, terminate) ==
  [medeha |-> medeha, optimization |-> optimization,
   terminateWithDTN |-> terminate]

LinkSymmetry == Permutations({l1, l2})

AnyConf == {Conf(TRUE, FALSE, TRUE), Conf(TRUE, TRUE, FALSE),
            Conf(FALSE, FALSE, FALSE)}

NoGateway == {Conf(FALSE, FALSE, FALSE)}
==============================================================================
