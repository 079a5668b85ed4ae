------------------------------- MODULE Epidemic -------------------------------
(***************************************************************************)
(* What epidemic routing does for applications, without routers, vectors   *)
(* or links: a bundle spreads from the node where it was made; a node      *)
(* takes it when it has it not and its lifetime is not over there, and the *)
(* node it is for gives it to its application then.                        *)
(***************************************************************************)
EXTENDS Naturals

CONSTANTS Node, Bundle, Origin, Dest

VARIABLES
  made,       \* the bundles that were made
  has,        \* [Node -> the bundles it has]
  over,       \* [Node -> the bundles whose lifetime is over there]
  deliveries  \* [Bundle -> how often an application got it]

vars == <<made, has, over, deliveries>>

Init ==
  /\ made = {}
  /\ has = [n \in Node |-> {}] /\ over = [n \in Node |-> {}]
  /\ deliveries = [b \in Bundle |-> 0]

Take(n, b) ==
  /\ b \notin has[n] \cup over[n]
  /\ has' = [has EXCEPT ![n] = @ \cup {b}]
  /\ deliveries' = IF Dest[b] = n THEN [deliveries EXCEPT ![b] = @ + 1]
                   ELSE deliveries
  /\ UNCHANGED over

Create(b) == b \notin made /\ made' = made \cup {b} /\ Take(Origin[b], b)

\* A copy may be under way when the node it came from has it no more.
Copy(n, b) == b \in made /\ Take(n, b) /\ UNCHANGED made

LifetimeEnds(n, b) ==
  /\ b \in made
  /\ over' = [over EXCEPT ![n] = @ \cup {b}]
  /\ has' = [has EXCEPT ![n] = @ \ {b}]
  /\ UNCHANGED <<made, deliveries>>

Next ==
  \E b \in Bundle :
    Create(b) \/ \E n \in Node : Copy(n, b) \/ LifetimeEnds(n, b)

Spec == Init /\ [][Next]_vars

\* What applications rely on: nobody gets a bundle twice.
DeliveredOnce == \A b \in Bundle : deliveries[b] <= 1
=============================================================================
