--------------------------- MODULE ForkJoin_proofs ---------------------------
(* What ForkJoin promises, for every tree.                                   *)
EXTENDS ForkJoin, TLAPS

StateOK == state \in [Node -> {"idle", "open", "closed"}]

LEMMA Typing == Tree => (Spec => []StateOK)
<1> SUFFICES ASSUME Tree PROVE Spec => []StateOK
  OBVIOUS
<1>1. Init => StateOK
  BY DEF Init, StateOK
<1>2. StateOK /\ [Next]_state => StateOK'
  BY DEF StateOK, Next, Fork, Join
<1> QED
  BY <1>1, <1>2, PTL DEF Spec

(* What a fork opens are idle children of one open node; nothing else moves. *)
LEMMA ForkOpensChildren ==
  ASSUME StateOK, NEW p \in Node, Fork(p)
  PROVE  /\ state[p] = "open" /\ state'[p] = "open"
         /\ \A n \in Node : state'[n] # state[n] =>
              n \in ChildrenOf(p) /\ state[n] = "idle" /\ state'[n] = "open"
BY DEF StateOK, Fork

(* A sequential node opens a child only when the earlier ones have closed.   *)
LEMMA ForkInTurn ==
  ASSUME Tree, StateOK, NEW p \in Sequential, Fork(p)
  PROVE  \A j \in DOMAIN Kids[p] : state'[Kids[p][j]] # state[Kids[p][j]] =>
           \A i \in 1..(j - 1) : state[Kids[p][i]] = "closed"
<1> PICK C \in SUBSET ChildrenOf(p) :
      /\ InTurn(p, C)
      /\ state' = [n \in Node |-> IF n \in C THEN "open" ELSE state[n]]
  BY DEF Fork
<1> PICK k \in DOMAIN Kids[p] :
      C = {Kids[p][k]} /\ \A i \in 1..(k - 1) : state[Kids[p][i]] = "closed"
  BY DEF InTurn
<1> SUFFICES ASSUME NEW j \in DOMAIN Kids[p], state'[Kids[p][j]] # state[Kids[p][j]]
             PROVE  \A i \in 1..(j - 1) : state[Kids[p][i]] = "closed"
  OBVIOUS
<1>1. p \in Node /\ Kids[p] \in Seq(Node)
  BY DEF Tree
<1>2. Kids[p][j] \in C
  BY <1>1 DEF StateOK
<1>3. j = k
  BY <1>1, <1>2 DEF Tree
<1> QED
  BY <1>3

(* Nothing runs outside its parent (run_concurrently awaits the group,       *)
(* run_sequentially every child).                                            *)
THEOREM NodesNest == Tree => (Spec => []Nested)
<1> SUFFICES ASSUME Tree PROVE Spec => []Nested
  OBVIOUS
<1>1. Init => Nested
  BY DEF Init, Nested, ChildrenOf, Tree
<1>2. StateOK /\ Nested /\ [Next]_state => Nested'
  <2> SUFFICES ASSUME StateOK, Nested, [Next]_state,
                      NEW p \in Node, NEW c \in ChildrenOf(p), state'[c] = "open"
               PROVE  state'[p] = "open"
    BY DEF Nested
  <2>0. c \in Node
    BY DEF ChildrenOf, Tree
  <2>1. ASSUME NEW q \in Node, Fork(q) PROVE state'[p] = "open"
    <3>1. CASE state[c] = "open"
      BY <2>1, <3>1, ForkOpensChildren DEF Nested
    <3>2. CASE state[c] # "open"
      <4>1. c \in ChildrenOf(q)
        BY <2>0, <2>1, <3>2, ForkOpensChildren
      <4>2. p = q
        BY <4>1 DEF ChildrenOf, Tree
      <4> QED
        BY <2>1, <4>2, ForkOpensChildren
    <3> QED
      BY <3>1, <3>2
  <2>2. ASSUME NEW q \in Node, Join(q) PROVE state'[p] = "open"
    BY <2>0, <2>2 DEF Join, Nested, StateOK
  <2> QED
    BY <2>0, <2>1, <2>2 DEF Next, Nested
<1> QED
  BY <1>1, <1>2, Typing, PTL DEF Spec

(* run_sequentially opens a child only after the ones before it are closed.  *)
THEOREM InDequeOrder == Tree => (Spec => []InOrder)
<1> SUFFICES ASSUME Tree PROVE Spec => []InOrder
  OBVIOUS
<1>1. Init => InOrder
  BY DEF Init, InOrder, Tree
<1>2. StateOK /\ InOrder /\ [Next]_state => InOrder'
  <2> SUFFICES ASSUME StateOK, InOrder, [Next]_state, NEW p \in Sequential,
                      NEW i \in DOMAIN Kids[p], NEW j \in DOMAIN Kids[p],
                      i < j, state'[Kids[p][j]] # "idle"
               PROVE  state'[Kids[p][i]] = "closed"
    BY DEF InOrder
  <2>0. p \in Node /\ Kids[p] \in Seq(Node) /\ Kids[p][i] \in Node /\ Kids[p][j] \in Node
    BY DEF Tree
  <2>1. ASSUME state[Kids[p][i]] = "closed" PROVE state'[Kids[p][i]] = "closed"
    BY <2>0, <2>1, ForkOpensChildren DEF Next, Join, StateOK
  <2>2. CASE state'[Kids[p][j]] = state[Kids[p][j]]
    BY <2>1, <2>2 DEF InOrder
  <2>3. CASE state'[Kids[p][j]] # state[Kids[p][j]] /\ state[Kids[p][j]] # "idle"
    BY <2>1, <2>3 DEF InOrder
  <2>4. CASE state'[Kids[p][j]] # state[Kids[p][j]] /\ state[Kids[p][j]] = "idle"
    <3>1. PICK q \in Node : Fork(q)
      BY <2>0, <2>4 DEF Next, Join, StateOK
    <3>2. Kids[p][j] \in ChildrenOf(q)
      BY <2>0, <2>4, <3>1, ForkOpensChildren
    <3>3. q = p
      BY <2>0, <3>2 DEF ChildrenOf, Tree
    <3>4. i \in 1..(j - 1)
      BY <2>0
    <3> QED
      BY <2>1, <2>4, <3>1, <3>3, <3>4, ForkInTurn
  <2> QED
    BY <2>2, <2>3, <2>4
<1> QED
  BY <1>1, <1>2, Typing, PTL DEF Spec

=============================================================================
