---------------------------- MODULE MCInjection ----------------------------
(* Small instances of Injection.  The links are interchangeable. *)
EXTENDS Injection, TLC

CONSTANTS l1, l2

LinkSymmetry == Permutations({l1, l2})
=============================================================================
