----------------------------- MODULE MCRecording -----------------------------
(* Instances of RecordReader for TLC.                                         *)
EXTENDS RecordReader

(* A concurrent multitasker executes a referenced case twice; its iterations, *)
(* whose writes are of the same kinds, are left out.  The first execution has *)
(* an interface and a script, which write to the keys of the case step.  The  *)
(* second, whose drive has no data, begins when the script has ended (a       *)
(* bound), while the first may not have.                                      *)
CaseVisits == {"m", "c", "i", "p", "d"}
CaseStep == [v \in CaseVisits |-> IF v = "m" THEN "multi" ELSE "case"]
CaseParent == [v \in CaseVisits |-> IF v = "m" THEN "none" ELSE "multi"]
CaseKind ==
  [m |-> "multitasker", c |-> "case", i |-> "interface", p |-> "script", d |-> "case"]
CaseAfter == [m |-> {}, c |-> {}, i |-> {}, p |-> {"i"}, d |-> {"p"}]
CaseWithin == [m |-> {"c", "d"}, c |-> {"i", "p"}, i |-> {}, p |-> {}, d |-> {}]
CaseOutcomes == [v \in CaseVisits |-> {"success"}]

CaseList == Process("case")
CaseExtra == {{Status("case")}}
SomeValues == {{Detail("i")}}
=============================================================================
