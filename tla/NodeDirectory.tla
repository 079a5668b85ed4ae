---------------------------- MODULE NodeDirectory ----------------------------
(***************************************************************************)
(* What the router promises a gateway about the nodes of the network: a    *)
(* directory that never holds the router itself, whose yes is right (its   *)
(* no need not be), and whose list leaves nobody out.                      *)
(***************************************************************************)
CONSTANTS
  Node,      \* the nodes that can be asked for
  Self,      \* the router's own node
  NONE

VARIABLES
  members,   \* the nodes known
  answer     \* the answer a gateway is about to get

vars == <<members, answer>>

Answer == [list : SUBSET Node] \cup [node : Node \cup {NONE}, yes : BOOLEAN]

\* No answer under way.
Silent == [node |-> NONE, yes |-> FALSE]

Init == members = {} /\ answer = Silent

Learn(e) ==
  /\ e # Self
  /\ members' = members \cup {e} /\ UNCHANGED answer

Forget(e) == members' = members \ {e} /\ UNCHANGED answer

AnswerFind(e, yes) ==
  /\ yes => e \in members
  /\ answer' = [node |-> e, yes |-> yes] /\ UNCHANGED members

\* A question that names no node: any answer will do.
AnswerNothing ==
  /\ \E yes \in BOOLEAN : answer' = [node |-> NONE, yes |-> yes]
  /\ UNCHANGED members

AnswerList ==
  /\ \E listed \in SUBSET Node :
       members \subseteq listed /\ answer' = [list |-> listed]
  /\ UNCHANGED members

Send == answer' = Silent /\ UNCHANGED members

Next ==
  \/ \E e \in Node : Learn(e) \/ Forget(e)
  \/ \E e \in Node, yes \in BOOLEAN : AnswerFind(e, yes)
  \/ AnswerNothing \/ AnswerList \/ Send

Spec == Init /\ [][Next]_vars
==============================================================================
