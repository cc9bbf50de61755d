-------------------------------- MODULE Twins --------------------------------
(* What the code decides in two places.                                      *)
EXTENDS Variables, Comparisons

(* It decides it alike in both: where a variable is found (variable.py),     *)
(* which environment a step is in (tools.py), and how operands compare       *)
(* (if_exec.py, assertion.py).                                               *)
TwinsAgree == LookupsAgree /\ EnvironmentsAgree /\ OperatorsAgree
=============================================================================
