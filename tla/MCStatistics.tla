---------------------------- MODULE MCStatistics ----------------------------
(* Small instances of Statistics.  Two of the bundles are
   interchangeable, the third is a fragment. *)
EXTENDS Statistics, TLC

CONSTANTS b1, b2, b3

\* What HBSD.conf may say: the policy, where the number of nodes is from, and
\* how many bundles the statistics take.
AnyConfigured ==
  [hbsdOptimizePerformance : {0, 1}, numberOfNodes : {0, 4},
   mchBufferCapacity : {1, 3}]

\* Before the router started, and ahead of its clock.
SomeTimes == {0, 2}

BundleSymmetry == Permutations({b1, b2})
=============================================================================
