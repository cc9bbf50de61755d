---------------------------- MODULE ExecutorTree ----------------------------
(***************************************************************************)
(* The MultiwayTreeNode tree of one task execution: the task, its cases,   *)
(* their child cases and the steps below, each loop of a case or           *)
(* multitasker step unrolled into one virtual child per iteration.         *)
(***************************************************************************)
EXTENDS Naturals, Sequences, FiniteSets

CONSTANTS
  Executor,  \* the executors, one per node of the tree
  Root,      \* the task
  Kids,      \* Kids[e]: the deque of children built for e
  Kind       \* Kind[e]: the type of e's metadata

NoNode == "no node"

ContainerKind == {"group", "if", "case", "multitasker",
                  "child_step_case", "child_multitasker"}
StepKind == ContainerKind \cup {"leaf", "empty"}
OriginKind == {"group", "if", "case", "multitasker", "leaf", "empty"}

(* The kinds of executors that each kind of executor makes.                  *)
KindBelow(kind) ==
  CASE kind = "task"        -> {"main_case"}
    [] kind = "main_case"   -> {"child_case"}
    [] kind = "case"        -> {"child_step_case"}
    [] kind = "multitasker" -> {"child_multitasker"}
    [] kind \in {"child_case", "group", "if", "child_step_case", "child_multitasker"} -> OriginKind
    [] OTHER                -> {}

Children(e) == {Kids[e][i] : i \in DOMAIN Kids[e]}

(* MultiwayTreeNode.parent                                                  *)
Parent == [e \in Executor |->
  IF e = Root THEN NoNode ELSE CHOOSE p \in Executor : e \in Children(p)]

Above[e \in Executor] ==
  IF e = Root THEN {} ELSE {Parent[e]} \cup Above[Parent[e]]

(* One tree: every executor but the task is in one deque, once, and none is   *)
(* above itself.                                                              *)
ASSUME TreeAssumption ==
  /\ IsFiniteSet(Executor) /\ Root \in Executor /\ NoNode \notin Executor
  /\ Kids \in [Executor -> Seq(Executor)]
  /\ \A p, q \in Executor : \A i \in DOMAIN Kids[p], j \in DOMAIN Kids[q] :
       Kids[p][i] = Kids[q][j] => p = q /\ i = j
  /\ \A e \in Executor : e # Root <=> \E p \in Executor : e \in Children(p)
  /\ \A e \in Executor : e \notin Above[e]

ASSUME KindAssumption ==
  /\ Kind[Root] = "task"
  /\ \A e \in Executor : \A c \in Children(e) : Kind[c] \in KindBelow(Kind[e])

Below(e) == {d \in Executor : e \in Above[d]}

Steps == {e \in Executor : Kind[e] \in StepKind}
Leaves == {e \in Executor : Kind[e] = "leaf"}
ChildCases == {e \in Executor : Kind[e] = "child_case"}

(* RunnerExecutor.search_node: the nearest node strictly above e of a kind. *)
NearestAbove(e, kind) ==
  LET found == {a \in Above[e] : Kind[a] = kind}
  IN  IF found = {} THEN NoNode
      ELSE CHOOSE a \in found : \A b \in found \ {a} : b \in Above[a]

(* RunStepExecutor.in_case: set on everything built below a case step.      *)
InCase(e) == \E a \in Above[e] : Kind[a] = "case"

(* RunStepExecutor.search_step: whose flags e's outcome is reported to.     *)
Father(e) == IF InCase(e) THEN NearestAbove(e, "case") ELSE Parent[e]

=============================================================================
