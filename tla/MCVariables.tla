----------------------------- MODULE MCVariables -----------------------------
(* An instance of Variables, and operands for Comparisons, for TLC.          *)
EXTENDS Twins

(* A loop whose iterations reference a case over a dataset each; a case that *)
(* references another one, with an interface of another project and a loop   *)
(* over the dataset itself at the bottom.                                    *)
Tree ==
  [cc |-> "main", loop |-> "cc", l1 |-> "loop", l2 |-> "loop",
   in1 |-> "l1", in2 |-> "l2", i1 |-> "in1", i2 |-> "in2", s1 |-> "i1", s2 |-> "i2",
   keyed |-> "r2", k1 |-> "keyed", k2 |-> "keyed", k3 |-> "keyed", s3 |-> "k1", s4 |-> "k2",
   ref |-> "cc", r1 |-> "ref", ref2 |-> "r1", r2 |-> "ref2", q |-> "r2", check |-> "l1"]
Types ==
  [main |-> "main_case", cc |-> "child_case", loop |-> "multitasker", in1 |-> "case",
   in2 |-> "case", l1 |-> "child_multitasker", l2 |-> "child_multitasker",
   i1 |-> "child_step_case", i2 |-> "child_step_case", s1 |-> "script", s2 |-> "database",
   keyed |-> "multitasker", k1 |-> "child_multitasker", k2 |-> "child_multitasker",
   k3 |-> "child_multitasker", s3 |-> "script", s4 |-> "database",
   ref |-> "case", ref2 |-> "case", r1 |-> "child_step_case", r2 |-> "child_step_case",
   q |-> "interface", check |-> "if"]
Projects == [main |-> "p1", in1 |-> "p1", in2 |-> "p1", ref |-> "p2", ref2 |-> "p1", q |-> "p2"]
Environments == [main |-> "e1", in1 |-> "e2", in2 |-> "e3", ref |-> "e2", ref2 |-> "e3"]
Made == [loop |-> <<"l1", "l2">>, in1 |-> <<"i1">>, in2 |-> <<"i2">>,
         keyed |-> <<"k1", "k2", "k3">>, ref |-> <<"r1">>, ref2 |-> <<"r2">>]

Variable(k, v) == [x \in {k} |-> v]
OverD == [by |-> "dataset", name |-> "d"]
Times(n) == [by |-> "times", parses |-> TRUE, times |-> n]
NotATime == [by |-> "times", parses |-> FALSE, times |-> 0]
Scripted(v) == [by |-> "script", value |-> v]
LoopDrives ==
  [loop |-> {Times(2), Scripted([is |-> "number", n |-> -2])},
   in1 |-> {OverD}, in2 |-> {OverD, [by |-> "dataset", name |-> "lost"]},
   keyed |-> {OverD},
   ref |-> { Scripted([is |-> "DataSet", columns |-> <<"x", "z">>, rows |-> <<<<"r">>, <<"s">>>>]),
             Scripted([is |-> "sized", n |-> 2]) },
   ref2 |-> {OverD, NotATime}]

Data ==
  [d |-> [e1 |-> [depend |-> 1, is_default |-> FALSE, data |-> <<Variable("y", "d1")>>],
          e2 |-> [depend |-> 0, is_default |-> FALSE, data |-> <<Variable("y", "d2")>>],
          e3 |-> [depend |-> 1, is_default |-> TRUE, data |-> <<Variable("x", "d3")>>]]]

Plain(kind, scope) == [by |-> "script", kind |-> kind, scope |-> scope, name |-> "x"]
Extraction(kind, action) ==
  [by |-> "extraction", kind |-> kind, scope |-> "case", name |-> "x", action |-> action]
Body(range, present) ==
  [source |-> "body", range |-> range, json |-> TRUE, present |-> present, template |-> 2, groups |-> 1]
Done ==
  [s1 |-> {Plain("temp", "case"), Plain("temp", "nearest"), Plain("env", "case"), Plain("global", "case")},
   s2 |-> {Plain("temp", "nearest"), Plain("env", "case")},
   s3 |-> {Plain("temp", "case"), Plain("temp", "nearest")},
   s4 |-> {Plain("temp", "case")},
   q |-> {Extraction("temp", Body("jsonpath", TRUE)), Extraction("env", Body("regexp", TRUE)),
          Extraction("global", Body("xpath", TRUE)), Extraction("temp", Body("jsonpath", FALSE)),
          Extraction("temp", [source |-> "header", present |-> FALSE])},
   ref |-> {Plain("temp", "case")},
   check |-> {Plain("temp", "case")}]

Written == <<"v1", "v2">>
Environ == [p1 |-> [e1 |-> Variable("x", "p1e1"), e2 |-> Nothing, e3 |-> Nothing],
            p2 |-> [e1 |-> Nothing, e2 |-> Variable("x", "p2e2")]]
Globals == Variable("g", "global")

-----------------------------------------------------------------------------
(* Texts that are equal as numbers and not as texts, that are no numbers,    *)
(* that hold one another, and that are no regular expression.                *)
Operands == {"", "None", "1", "1.0", "2", "nan", "a,1", "("}
Floats == [t \in Operands |-> CASE t \in {"1", "1.0"} -> 1
                                [] t = "2" -> 2
                                [] t = "nan" -> NaN
                                [] OTHER -> NoNumber]
Substrings == [t \in Operands |->
                 {"", t} \cup (IF t \in {"1.0", "a,1"} THEN {"1"} ELSE {})]
Parts == [t \in Operands |-> IF t = "a,1" THEN {"a", "1"} ELSE {t}]
Matched == [t \in Operands |-> {u \in Operands : t \in Substrings[u]}]
=============================================================================
