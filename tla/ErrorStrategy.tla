---------------------------- MODULE ErrorStrategy ----------------------------
(***************************************************************************)
(* core/payload/utils/error_strategy.py: which node a failed step ends.    *)
(* The operators take the strategies as parameters: chosen[a] is           *)
(* a.metadata.error_strategy of a node with children, inner[a] is          *)
(* case_error_strategy of a case step.                                     *)
(***************************************************************************)
EXTENDS ExecutorTree

CONSTANT InnerStrategy  \* case_error_strategy of the case steps

VARIABLE strategy       \* error_strategy of each node

CaseStrategies == {"current_step", "current_case", "case", "raise", "task"}

(* The values the enums of core/enums/executor.py give each kind of node;   *)
(* the virtual children of a loop always hand an error on.                  *)
LegalStrategies(e) ==
  CASE Kind[e] = "task" -> CaseStrategies \ {"raise"}
    [] Kind[e] \in {"main_case", "child_case"} -> CaseStrategies
    [] Kind[e] = "case" ->
         CaseStrategies \cup {"ref_case_inner", "ref_child_case", "ref_case"}
    [] Kind[e] = "multitasker" ->
         CaseStrategies \cup {"current_multitasker", "multitasker"}
    [] Kind[e] \in {"group", "if"} -> CaseStrategies
    [] OTHER -> {"raise"}

(* The climb stops at the first node above that does not hand the error on;  *)
(* the task has nobody to hand it to, and its enum no RAISE.                 *)
HandsOn(a, chosen, inner) ==
  /\ a # Root
  /\ \/ chosen[a] = "raise"
     \/ chosen[a] = "ref_case_inner" /\ inner[a] = "raise"

(* Seeded fault: child_iter is the first child multitasker on the way up.    *)
RealErrorStrategyFirstIter(e, chosen, inner) ==
  LET climb[n \in Executor \ {Root}] ==
        LET up   == Parent[n]
            iter == IF Kind[up] = "child_multitasker" THEN up ELSE NoNode
        IN  IF HandsOn(up, chosen, inner)
              THEN <<climb[up][1], IF iter = NoNode THEN climb[up][2] ELSE iter>>
              ELSE <<up, iter>>
  IN  climb[e]

(* get_real_error_strategy: <<node whose strategy applies, child_iter>>,     *)
(* where a child multitasker further up replaces the one met before.         *)
RealErrorStrategy(e, chosen, inner) ==
  LET climb[n \in Executor \ {Root}] ==
        LET up   == Parent[n]
            iter == IF Kind[up] = "child_multitasker" THEN up ELSE NoNode
        IN  IF HandsOn(up, chosen, inner)
              THEN <<climb[up][1], IF climb[up][2] = NoNode THEN iter ELSE climb[up][2]>>
              ELSE <<up, iter>>
  IN  climb[e]

Decider(e, chosen, inner) == RealErrorStrategy(e, chosen, inner)[1]
ChildIter(e, chosen, inner) == RealErrorStrategy(e, chosen, inner)[2]

(* get_inner_case_node and its siblings start at the failed node itself.    *)
NearestFrom(e, kind) == IF Kind[e] = kind THEN e ELSE NearestAbove(e, kind)

(* Seeded faults of DecidesInside: every referenced case, or none, decides    *)
(* for itself.                                                               *)
AlwaysInside(e, chosen) == InCase(e)

NeverInside(e, chosen) == FALSE

(* Inside a referenced case that decides for itself, "the case" and "the     *)
(* current case" are the referenced ones; otherwise they are the main ones.  *)
DecidesInside(e, chosen) ==
  InCase(e) /\ chosen[NearestAbove(e, "case")] = "ref_case_inner"

(* change_parent_status: the node whose status becomes SKIPPED, if any.      *)
Target(e, chosen, inner) ==
  LET decision == chosen[Decider(e, chosen, inner)]
      iter     == ChildIter(e, chosen, inner)
  IN  CASE decision = "task" -> Root
        [] decision = "case" ->
             IF DecidesInside(e, chosen)
               THEN NearestAbove(e, "case") ELSE NearestFrom(e, "main_case")
        [] decision = "current_case" ->
             IF DecidesInside(e, chosen)
               THEN NearestFrom(e, "child_step_case")
               ELSE NearestFrom(e, "child_case")
        [] decision = "multitasker" ->
             IF iter = NoNode THEN NoNode ELSE Parent[iter]
        [] decision = "current_multitasker" -> iter
        [] decision = "ref_child_case" -> NearestFrom(e, "child_step_case")
        [] decision = "ref_case" -> NearestFrom(e, "case")
        [] OTHER -> NoNode

(* child_iter is still None: its attribute access raises out of the          *)
(* error_callback.                                                          *)
Unresolved(e, chosen, inner) ==
  /\ chosen[Decider(e, chosen, inner)] \in {"multitasker", "current_multitasker"}
  /\ ChildIter(e, chosen, inner) = NoNode

-----------------------------------------------------------------------------
Resolved == {e \in Steps : ~Unresolved(e, strategy, InnerStrategy)}

(* When the decision is a multitasker's own, "end the executor" ends that    *)
(* multitasker and "end the child executor" the one iteration of it that     *)
(* encloses the failed step, however many multitaskers lie between.          *)
MultitaskerEndsItself ==
  \A e \in Resolved :
    LET d == Decider(e, strategy, InnerStrategy)
    IN  Kind[d] = "multitasker" =>
          /\ strategy[d] = "multitasker" => Target(e, strategy, InnerStrategy) = d
          /\ strategy[d] = "current_multitasker" =>
               Target(e, strategy, InnerStrategy) \in Children(d) \cap Above[e]

(* Without a referenced case that decides for itself around the failed step, *)
(* "end the case" and "end the current case" reach the main case and the     *)
(* child case it is in, wherever the decision is taken.                      *)
CallerDecidesForItself ==
  \A e \in Resolved :
    LET decision == strategy[Decider(e, strategy, InnerStrategy)]
        Reaches(kind) ==
          \E a \in Above[e] : Kind[a] = kind /\ Target(e, strategy, InnerStrategy) = a
    IN  (\A a \in Above[e] : strategy[a] # "ref_case_inner") =>
          /\ decision = "case" => Reaches("main_case")
          /\ decision = "current_case" => Reaches("child_case")

(* A referenced case that decides for itself never ends more of its caller   *)
(* than itself: what is decided in it, about a step of its own and not of a  *)
(* case it refers to in turn, stays in it.                                   *)
InsideStaysInside ==
  \A e \in Resolved :
    LET d == Decider(e, strategy, InnerStrategy)
        c == NearestAbove(e, "case")
    IN  c \in Above[d] /\ strategy[c] = "ref_case_inner" /\ strategy[d] \in {"case", "current_case"}
          => Target(e, strategy, InnerStrategy) \in {c} \cup Below(c)

=============================================================================
