----------------------------- MODULE Comparisons -----------------------------
(***************************************************************************)
(* How assertion, if and error steps compare (assertion.py, if_exec.py,    *)
(* error_exec.py).  An operand is what str() makes of it; the relations    *)
(* between texts that the operators look at are parameters.                *)
(***************************************************************************)
EXTENDS Integers

CONSTANTS
  Texts,    \* the operands, None's text among them
  Number,   \* [Texts -> Int, or NaN, or NoNumber]: float(text)
  Subtexts, \* [Texts -> SUBSET Texts]: the texts found in a text
  Items,    \* [Texts -> SUBSET Texts]: its items between commas
  Matches,  \* [Texts -> SUBSET Texts]: the texts a regular expression matches
  Invalid,  \* the texts that are not regular expressions
  Empty,    \* the empty text
  None,     \* str(None)
  NaN, NoNumber

Ordered(p, a, b) ==
  CASE p = "gt"  -> a > b
    [] p = "gte" -> a >= b
    [] p = "lt"  -> a < b
    [] p = "lte" -> a <= b

(* The comparison of numbers: false if an operand is not one, or not a       *)
(* number in the sense of floating point.                                    *)
NumbersCompare(p, key, value) ==
  /\ {Number[key], Number[value]} \cap {NaN, NoNumber} = {}
  /\ Ordered(p, Number[key], Number[value])

(* IfAssertionCore.assertion, for if and error steps: a pattern it does not  *)
(* know leaves the result False.                                             *)
IfHolds(p, key, value) ==
  CASE p = "eq" -> key = value
    [] p = "neq" -> key # value
    [] p \in {"gt", "gte", "lt", "lte"} -> NumbersCompare(p, key, value)
    [] p = "contains" -> value \in Subtexts[key]
    [] p = "notContains" -> value \notin Subtexts[key]
    [] p = "regex" -> value \notin Invalid /\ key \in Matches[value]
    [] OTHER -> FALSE

(* AssertionCore.assertion and the overrides of its subclasses; exist and    *)
(* no_exist of the base class only describe themselves.                      *)
AssertionHolds(core, p, key, value) ==
  \/ p = "eq" /\ key = value
  \/ p = "neq" /\ key # value
  \/ p \in {"gt", "gte", "lt", "lte"} /\ NumbersCompare(p, key, value)
  \/ p = "contains" /\ value \in Subtexts[key]
  \/ p = "notContains" /\ value \notin Subtexts[key]
  \/ p = "regex" /\ value \notin Invalid /\ key \in Matches[value]
  \/ p = "inset" /\ key \in Items[value]
  \/ p = "uninset" /\ key \notin Items[value]
  \/ p = "exist" /\ \/ core = "jsonpath"
                    \/ core = "all" /\ key # Empty
  \/ p = "noexist" /\ core = "all" /\ key = Empty

(* The verdict of AssertionRunController.run on a response: a found jsonpath *)
(* or header is compared, what is missing is what exist and no_exist ask     *)
(* for.  r.found is FALSE when the jsonpath matches nothing or the header is *)
(* not there; r.json is FALSE when the body cannot be parsed.                *)
OnBody(p, r, value) ==
  CASE ~r.json -> "raised"
    [] r.json /\ r.found ->
         IF p # "noexist" /\ AssertionHolds("jsonpath", p, r.key, value) THEN "passed" ELSE "failed"
    [] r.json /\ ~r.found -> IF p = "noexist" THEN "passed" ELSE "raised"

OnHeader(p, r, value) ==
  LET key == IF r.found THEN r.key ELSE None
      holds == CASE p = "noexist" -> ~r.found
                 [] p = "exist" -> r.found
                 [] OTHER -> AssertionHolds("header", p, key, value)
  IN  IF holds THEN "passed" ELSE "failed"

Verdict(range, p, r, value) ==
  CASE range = "pattern" -> OnBody(p, r, value)
    [] range = "header" -> OnHeader(p, r, value)
    [] range \in {"all", "code", "fast"} ->
         IF AssertionHolds(range, p, r.key, value) THEN "passed" ELSE "failed"

-----------------------------------------------------------------------------
Ranges == {"pattern", "all", "header", "code", "fast"}
Responses == [json : BOOLEAN, found : BOOLEAN, key : Texts]

(* The patterns an if step knows, and the pairs that deny each other.        *)
IfPatterns == {"eq", "neq", "gt", "gte", "lt", "lte", "contains", "notContains", "regex"}
Opposites == { <<"eq", "neq">>, <<"contains", "notContains">>, <<"inset", "uninset">>,
               <<"exist", "noexist">> }

(* An if step and a fast assertion give one verdict on the same operands;    *)
(* and of two opposite patterns exactly one passes, unless both raise, on    *)
(* every range that implements the pair: code and fast assertions know no    *)
(* existence.                                                                *)
OperatorsAgree ==
  /\ \A p \in IfPatterns, key, value \in Texts :
       IfHolds(p, key, value) <=> AssertionHolds("fast", p, key, value)
  /\ \A range \in Ranges, pair \in Opposites, r \in Responses, value \in Texts :
       LET one == Verdict(range, pair[1], r, value)
           two == Verdict(range, pair[2], r, value)
       IN  \/ pair[1] = "exist" /\ range \in {"code", "fast"}
           \/ (one = "passed") # (two = "passed")
           \/ one = "raised" /\ two = "raised"
=============================================================================
