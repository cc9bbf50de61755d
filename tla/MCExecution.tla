----------------------------- MODULE MCExecution -----------------------------
(* Instances of Execution for TLC: nested loops, and a fan-out of child       *)
(* cases of which one calls a referenced case.                                *)
EXTENDS Execution

ASSUME LegalAssignments ==
  \A s \in Strategies : \A e \in Executor : s[e] \in LegalStrategies(e)

RaiseExcept(overrides) ==
  [e \in Executor |->
     IF e \in DOMAIN overrides THEN overrides[e]
     ELSE IF e = Root THEN "current_step" ELSE "raise"]

NoInner == [e \in Executor |-> "raise"]
NoExecutor == {}

(* A child case with a concurrent multitasker of two iterations, the first    *)
(* with a nested multitasker whose loop data may be missing, then a           *)
(* condition, then a step; and a child case with a disabled group, below which *)
(* a multitasker of no iterations may have no loop data either.               *)
LoopKids == [
  task  |-> <<"main">>, main |-> <<"cc", "cc2">>, cc2 |-> <<"off">>, off |-> <<"sub">>,
  sub   |-> <<"gap">>, gap |-> <<>>, cc |-> <<"multi", "cond", "last">>,
  multi |-> <<"iter1", "iter2">>, iter1 |-> <<"inner", "b">>,
  inner |-> <<"only">>, only |-> <<"a">>, iter2 |-> <<"c", "d">>, cond |-> <<"e">>,
  a |-> <<>>, b |-> <<>>, c |-> <<>>, d |-> <<>>, e |-> <<>>, last |-> <<>>]
LoopExecutor == DOMAIN LoopKids
LoopKind == [n \in LoopExecutor |->
  CASE n = "task"  -> "task"
    [] n = "main"  -> "main_case"
    [] n \in {"cc", "cc2"} -> "child_case"
    [] n \in {"off", "sub"} -> "group"
    [] n \in {"multi", "inner", "gap"} -> "multitasker"
    [] n \in {"iter1", "iter2", "only"} -> "child_multitasker"
    [] n = "cond"  -> "if"
    [] OTHER       -> "leaf"]
LoopMode == [n \in LoopExecutor |->
  IF n = "multi" THEN "concurrent" ELSE "sequential"]
LoopBeforeFails == {"inner", "gap"}
LoopRunFails == {"a", "c", "cond"}
LoopStrategies ==
  { RaiseExcept([multi |-> s]) :
      s \in {"current_step", "current_multitasker", "multitasker", "current_case"} }
  \cup { RaiseExcept([inner |-> "current_multitasker", multi |-> "multitasker"]) }

(* Two concurrent child cases, one with a group and an empty step, one with a *)
(* referenced case of two iterations; a second main case follows the first.   *)
FanKids == [
  task  |-> <<"main1", "main2">>, main1 |-> <<"cc1", "cc2">>, main2 |-> <<"cc3">>,
  cc1   |-> <<"group", "void">>, group |-> <<"a", "b">>,
  cc2   |-> <<"ref">>, ref |-> <<"it1", "it2">>, it1 |-> <<"sub", "d">>, sub |-> <<"c">>, it2 |-> <<"f">>,
  cc3   |-> <<"e">>,
  a |-> <<>>, b |-> <<>>, c |-> <<>>, d |-> <<>>, e |-> <<>>, f |-> <<>>, void |-> <<>>]
FanExecutor == DOMAIN FanKids
FanKind == [n \in FanExecutor |->
  CASE n = "task" -> "task"
    [] n \in {"main1", "main2"} -> "main_case"
    [] n \in {"cc1", "cc2", "cc3"} -> "child_case"
    [] n \in {"group", "sub"} -> "group"
    [] n = "ref"   -> "case"
    [] n \in {"it1", "it2"} -> "child_step_case"
    [] n = "void"  -> "empty"
    [] OTHER       -> "leaf"]
FanMode == [n \in FanExecutor |->
  IF n = "main1" THEN "concurrent" ELSE "sequential"]
FanRunFails == {"a", "c"}
FanStrategies ==
  { RaiseExcept([main1 |-> s]) : s \in {"current_step", "current_case", "case", "task"} }
  \cup { RaiseExcept([main1 |-> "current_case", ref |-> s]) :
           s \in {"ref_case_inner", "ref_child_case", "ref_case"} }
  \cup { RaiseExcept([main1 |-> "current_case", ref |-> "ref_case_inner", sub |-> "case"]) }

=============================================================================
