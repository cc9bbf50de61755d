--------------------------- MODULE MCAsyncContext ---------------------------
(* Instances of AsyncContext for TLC: small trees of executors.              *)
EXTENDS AsyncContext

(* A task whose first child runs three steps concurrently and whose second   *)
(* child is a leaf: the steps contend for the permits the two parents leave, *)
(* and the leaf runs beside steps abandoned by an exception.                 *)
WideExecutor == {"task", "multi", "s1", "s2", "s3", "leaf"}
WideKids == [e \in WideExecutor |->
  CASE e = "task"  -> <<"multi", "leaf">>
    [] e = "multi" -> <<"s1", "s2", "s3">>
    [] OTHER       -> <<>>]
WideMode == [e \in WideExecutor |->
  IF e = "multi" THEN "concurrent" ELSE "sequential"]

WideSteps == {"s1", "s2", "s3", "leaf"}
Parents == {"task", "multi"}

(* A chain of parents, one nested loop and one loop whose strategy is        *)
(* unknown: every shape run_loop_strategy can take.                          *)
DeepExecutor == {"task", "case1", "case2", "group", "a", "b", "c", "none", "n1"}
DeepKids == [e \in DeepExecutor |->
  CASE e = "task"  -> <<"case1", "case2">>
    [] e = "case1" -> <<"group", "c">>
    [] e = "group" -> <<"a", "b">>
    [] e = "case2" -> <<"none">>
    [] e = "none"  -> <<"n1">>
    [] OTHER       -> <<>>]
DeepMode == [e \in DeepExecutor |->
  CASE e = "task" -> "concurrent"
    [] e = "none" -> "none"
    [] OTHER      -> "sequential"]
DeepSteps == {"a", "b", "c", "n1"}
DeepNone == {}

(* Two cases run concurrently with one step each.                            *)
FanExecutor == {"task", "case1", "case2", "step1", "step2"}
FanKids == [e \in FanExecutor |->
  CASE e = "task"  -> <<"case1", "case2">>
    [] e = "case1" -> <<"step1">>
    [] e = "case2" -> <<"step2">>
    [] OTHER       -> <<>>]
FanMode == [e \in FanExecutor |->
  IF e = "task" THEN "concurrent" ELSE "sequential"]

=============================================================================
