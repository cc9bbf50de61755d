------------------------------ MODULE ForkJoin ------------------------------
(***************************************************************************)
(* What run_concurrently and run_sequentially promise the executors above  *)
(* them, with no semaphore, no callback and no exception: a node opens     *)
(* inside its open parent, the children of a sequential node open one      *)
(* after another in the order of the deque, and a node closes only after   *)
(* every child it opened.                                                  *)
(***************************************************************************)
EXTENDS Naturals, Sequences

CONSTANTS
  Node,        \* the executors
  Root,        \* the one that opens first
  Kids,        \* Kids[n] is the sequence of n's children
  Sequential   \* the nodes that open their children one after another

(* Every node but the root has one place in one sequence of children.        *)
Tree ==
  /\ Kids \in [Node -> Seq(Node)]
  /\ \A p, q \in Node : \A i \in DOMAIN Kids[p], j \in DOMAIN Kids[q] :
        Kids[p][i] = Kids[q][j] => p = q /\ i = j
  /\ \A p \in Node : \A i \in DOMAIN Kids[p] : Kids[p][i] # Root
  /\ Sequential \subseteq Node

VARIABLE state \* "idle", "open" or "closed"

ChildrenOf(n) == {Kids[n][i] : i \in DOMAIN Kids[n]}

Init == state = [n \in Node |-> IF n = Root THEN "open" ELSE "idle"]

InTurn(p, C) ==
  \E i \in DOMAIN Kids[p] :
    /\ C = {Kids[p][i]}
    /\ \A j \in 1..(i - 1) : state[Kids[p][j]] = "closed"

Fork(p) ==
  /\ state[p] = "open"
  /\ \E C \in SUBSET ChildrenOf(p) :
       /\ \A c \in C : state[c] = "idle"
       /\ p \in Sequential => InTurn(p, C)
       /\ state' = [n \in Node |-> IF n \in C THEN "open" ELSE state[n]]

Join(n) ==
  /\ state[n] = "open"
  /\ \A c \in ChildrenOf(n) : state[c] # "open"
  /\ state' = [state EXCEPT ![n] = "closed"]

Next == \E n \in Node : Fork(n) \/ Join(n)

Spec == Init /\ [][Next]_state

-----------------------------------------------------------------------------
(* Nothing runs outside its parent: a closed or idle node has no open child. *)
Nested ==
  \A p \in Node : \A c \in ChildrenOf(p) : state[c] = "open" => state[p] = "open"

(* A child of a sequential node has not been opened while an earlier one is  *)
(* still idle or open.                                                       *)
InOrder ==
  \A p \in Sequential : \A i, j \in DOMAIN Kids[p] :
    i < j /\ state[Kids[p][j]] # "idle" => state[Kids[p][i]] = "closed"

=============================================================================
