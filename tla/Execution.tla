------------------------------ MODULE Execution ------------------------------
(***************************************************************************)
(* One task execution: the executors of core/payload run by AsyncContext,  *)
(* their statuses, the flags children set on their parents, the skipping   *)
(* of steps below a stopped node, the error strategies and the counters of *)
(* the child cases.  Every action is an action of AsyncContext together    *)
(* with what the callback or body it stands for does to that state.        *)
(* The strategies of the nodes are fixed for the execution.                *)
(*                                                                         *)
(* Redis is up: the awaits on it return.  What a step's core computes is   *)
(* one of its outcomes: it returns, it raises, or (an if) its condition    *)
(* holds or not.                                                           *)
(***************************************************************************)
EXTENDS ErrorStrategy

CONSTANTS
  Mode,         \* loop_strategy of each executor with children
  Permits,      \* MAX_CONCURRENCY
  Disabled,     \* executors whose metadata.check is 'none'
  BeforeFails,  \* executors whose before_callback may raise
  RunFails,     \* executors whose core may raise
  Strategies    \* the assignments of error strategies to explore

(* Only loops have a strategy; the others walk their deque in order.          *)
ASSUME ExecutionAssumption ==
  /\ Permits \in Nat \ {0}
  /\ Mode \in [Executor -> {"sequential", "concurrent", "none"}]
  /\ \A e \in Executor :
       Kind[e] \notin {"task", "main_case", "case", "multitasker"} => Mode[e] = "sequential"
  /\ BeforeFails \subseteq Executor /\ RunFails \subseteq Executor

VARIABLES
  phase, queue, value, waiters, woken, tasks, runner, drained, \* of AsyncContext
  status,        \* RunnerExecutor.status
  result,        \* RunnerExecutor.result
  childError,    \* executors with has_child_error
  childSkipped,  \* executors with has_child_skipped
  skipped,       \* steps whose body yields a SkippedStepResult
  ran,           \* steps whose core was executed
  unmet,         \* if steps whose condition did not hold
  counts         \* the step counters of each child case in redis

scheduling == <<phase, queue, value, waiters, woken, tasks, runner, drained>>
outcome == <<status, result, childError, childSkipped>>
history == <<skipped, ran, unmet>>
vars == <<scheduling, strategy, outcome, history, counts>>

Sched == INSTANCE AsyncContext WITH
  CallbackFails <- {}, ErrorFails <- Steps, Fragile <- Steps

Status == {"pending", "running", "skipped", "skipped_child", "end", "error",
           "error_child", "conditional"}
Result == {"unknown", "success", "error_self", "error_child", "skipped_self",
           "skipped_child"}
Counter == {"done", "failed", "skipped"}

StopStatus == {"skipped", "conditional", "error"}

-----------------------------------------------------------------------------
(* RunnerExecutor.check_and_change_status.                                   *)

StoppedAt(n) == n # NoNode /\ status[n] \in StopStatus

(* The task, the main case and the child case that e's position names.       *)
Scopes(e) ==
  {Root} \cup {a \in Above[e] : Kind[a] \in {"main_case", "child_case"}}

Checks(e) == Kind[e] = "child_case" \/ e \in Steps

Stopped(e) == StoppedAt(Parent[e]) \/ \E a \in Scopes(e) : StoppedAt(a)

(* Seeded fault of Checked: a conditional parent does not stop its children. *)
CheckedScopesOnly(e) ==
  IF /\ Checks(e)
     /\ (\E a \in Scopes(e) : StoppedAt(a)) \/ (e \in Steps /\ e \in Disabled)
    THEN "skipped" ELSE status[e]

Checked(e) ==
  IF Checks(e) /\ (Stopped(e) \/ (e \in Steps /\ e \in Disabled))
    THEN "skipped" ELSE status[e]

-----------------------------------------------------------------------------
(* The outcome of an executor and what it reports upwards.                   *)

(* error_callback up to its first await.                                     *)
Fails(e) ==
  /\ status' = IF e \in Steps \cup ChildCases
                 THEN [status EXCEPT ![e] = "error"] ELSE status
  /\ IF e \in Steps
       THEN /\ result' = [result EXCEPT ![e] = "error_self"]
            /\ childError' = childError \cup {Father(e)}
       ELSE UNCHANGED <<result, childError>>
  /\ UNCHANGED childSkipped

(* error_callback(e) without a node: search_step(None) raises before the     *)
(* flag of the father is set.                                                *)
FailsUnplaced(e) ==
  /\ status' = IF e \in Steps \cup ChildCases
                 THEN [status EXCEPT ![e] = "error"] ELSE status
  /\ result' = IF e \in Steps THEN [result EXCEPT ![e] = "error_self"] ELSE result
  /\ UNCHANGED <<childError, childSkipped>>

StepSkipped(e) ==
  /\ status' = [status EXCEPT ![e] = "skipped"]
  /\ result' = [result EXCEPT ![e] = "skipped_self"]
  /\ childSkipped' = childSkipped \cup {Father(e)}
  /\ UNCHANGED childError

(* Seeded fault: a step keeps its children's errors to itself.               *)
StepEndsQuietly(e) ==
  /\ status' = [status EXCEPT ![e] = "end"]
  /\ result' = [result EXCEPT ![e] =
       IF e \in childError THEN "error_child"
       ELSE IF e \in childSkipped THEN "skipped_child" ELSE "success"]
  /\ UNCHANGED <<childError, childSkipped>>

(* Seeded fault: a member of the other enum is written as the status.        *)
StepEndsMixedUp(e) ==
  /\ status' = [status EXCEPT ![e] = IF e \in childError THEN "error_child" ELSE "success"]
  /\ UNCHANGED <<result, childError, childSkipped>>

(* RunStepExecutor.after_callback                                            *)
StepEnds(e) ==
  /\ status' = [status EXCEPT ![e] = "end"]
  /\ result' = [result EXCEPT ![e] =
       IF e \in childError THEN "error_child"
       ELSE IF e \in childSkipped THEN "skipped_child" ELSE "success"]
  /\ childError' = childError \cup (IF e \in childError THEN {Father(e)} ELSE {})
  /\ childSkipped' = childSkipped \cup
       (IF e \in childSkipped \ childError THEN {Father(e)} ELSE {})

(* RunChildCaseExecutor.after_callback                                       *)
ChildCaseEnds(e) ==
  /\ status' = [status EXCEPT ![e] =
       IF @ = "skipped" THEN @
       ELSE IF e \in childError THEN "error_child"
       ELSE IF e \in childSkipped THEN "skipped_child" ELSE "end"]
  /\ UNCHANGED <<result, childError, childSkipped>>

Ends(e) ==
  CASE e \in skipped    -> StepSkipped(e)
    [] e \in Steps \ skipped -> StepEnds(e)
    [] e \in ChildCases -> ChildCaseEnds(e)
    [] OTHER            -> UNCHANGED outcome

(* Seeded fault: every closing callback counts a step as done.               *)
CountDone(e, counter) ==
  counts' = IF e \in Steps
    THEN [counts EXCEPT ![NearestAbove(e, "child_case")]["done"] = @ + 1]
    ELSE counts

(* update_fields_to_list, which also counts the steps of referenced cases.   *)
Count(e, counter) ==
  counts' = IF e \in Steps
    THEN [counts EXCEPT ![NearestAbove(e, "child_case")][counter] = @ + 1]
    ELSE counts

-----------------------------------------------------------------------------
(* before_callback and the entry into run().                                 *)

(* RunChildCaseExecutor.before_callback marks the child case running before  *)
(* its first await.                                                          *)
Begun(S) ==
  status' = [e \in Executor |-> IF e \in S \cap ChildCases THEN "running" ELSE status[e]]

(* StepExecRunner: is_skipped is read when the permit is there; a step that  *)
(* is not skipped is running from then on.  An empty step outside a          *)
(* referenced case has no core.                                              *)
Enters(e, st) ==
  IF e \in Steps
    THEN LET idle == st = "skipped" \/ (Kind[e] = "empty" /\ ~InCase(e))
         IN  /\ status' = [status EXCEPT ![e] = IF st = "skipped" THEN st ELSE "running"]
             /\ skipped' = IF idle THEN skipped \cup {e} ELSE skipped
             /\ ran' = IF idle THEN ran ELSE ran \cup {e}
    ELSE status' = [status EXCEPT ![e] = st] /\ UNCHANGED <<skipped, ran>>

AcquireNow(e) ==
  /\ Sched!AcquireNow(e)
  /\ Enters(e, Checked(e))
  /\ UNCHANGED <<strategy, result, childError, childSkipped, unmet, counts>>

AcquireWait(e) ==
  /\ Sched!AcquireWait(e)
  /\ status' = [status EXCEPT ![e] = Checked(e)]
  /\ UNCHANGED <<strategy, result, childError, childSkipped, history, counts>>

Resume(e) ==
  /\ Sched!Resume(e)
  /\ Enters(e, status[e])
  /\ UNCHANGED <<strategy, result, childError, childSkipped, unmet, counts>>

BeforeRaises(e) ==
  /\ Sched!BeforeRaises(e)
  /\ IF e \in Steps THEN FailsUnplaced(e) ELSE Fails(e)
  /\ UNCHANGED <<strategy, history, counts>>

-----------------------------------------------------------------------------
(* run(): the core, then the children, which are run even when the core was  *)
(* not.                                                                      *)

CoreReturns(e) ==
  /\ Sched!CoreReturns(e)
  /\ IF Kind[e] = "if" /\ e \notin skipped
       THEN \/ status' = [status EXCEPT ![e] = "running"] /\ UNCHANGED unmet
            \/ /\ status' = [status EXCEPT ![e] = "conditional"]
               /\ unmet' = unmet \cup {e}
       ELSE UNCHANGED <<status, unmet>>
  /\ UNCHANGED <<strategy, result, childError, childSkipped, skipped, ran, counts>>

CoreRaises(e) ==
  /\ e \notin skipped
  /\ Sched!CoreRaises(e)
  /\ Fails(e)
  /\ UNCHANGED <<strategy, history, counts>>

StartNext(e) ==
  /\ Sched!StartNext(e)
  /\ Begun({Head(queue[e])})
  /\ UNCHANGED <<strategy, result, childError, childSkipped, history, counts>>

StartAll(e) ==
  /\ Sched!StartAll(e)
  /\ Begun(Sched!Queued(e))
  /\ UNCHANGED <<strategy, result, childError, childSkipped, history, counts>>

ChildRaises(e) ==
  /\ Sched!ChildRaises(e)
  /\ Fails(e)
  /\ UNCHANGED <<strategy, history, counts>>

RunReturns(e) ==
  /\ Sched!RunReturns(e)
  /\ Ends(e)
  /\ UNCHANGED <<strategy, history, counts>>

-----------------------------------------------------------------------------
(* The rest of the closing callbacks, after their awaits.                    *)

CallbackReturns(e) ==
  /\ Sched!CallbackReturns(e)
  /\ Count(e, IF e \in skipped THEN "skipped" ELSE "done")
  /\ UNCHANGED <<strategy, outcome, history>>

(* Seeded faults of AppliesStrategy: the strategy is not applied; whatever    *)
(* it says, the parent of the failed step is ended.                          *)
AppliesNothing(e) == UNCHANGED status

AppliesToParent(e) ==
  status' = IF e \in Steps THEN [status EXCEPT ![Parent[e]] = "skipped"] ELSE status

(* change_parent_status_on_error comes last, after the record is written.    *)
AppliesStrategy(e) ==
  LET ended == Target(e, strategy, InnerStrategy)
  IN  status' = IF e \in Steps /\ ended # NoNode
                  THEN [status EXCEPT ![ended] = "skipped"] ELSE status

ErrorReturns(e) ==
  /\ Sched!ErrorReturns(e)
  /\ e \in Steps => ~Unresolved(e, strategy, InnerStrategy)
  /\ AppliesStrategy(e)
  /\ Count(e, "failed")
  /\ UNCHANGED <<strategy, result, childError, childSkipped, history>>

ErrorRaises(e) ==
  /\ Sched!ErrorRaises(e)
  /\ Unresolved(e, strategy, InnerStrategy)
  /\ Count(e, "failed")
  /\ UNCHANGED <<strategy, outcome, history>>

-----------------------------------------------------------------------------
Init ==
  /\ Sched!Init
  /\ strategy \in Strategies
  /\ status = [e \in Executor |-> "pending"]
  /\ result = [e \in Executor |-> "unknown"]
  /\ childError = {}
  /\ childSkipped = {}
  /\ skipped = {}
  /\ ran = {}
  /\ unmet = {}
  /\ counts = [c \in ChildCases |-> [k \in Counter |-> 0]]

RunTask(e) ==
  \/ AcquireNow(e) \/ AcquireWait(e) \/ Resume(e) \/ BeforeRaises(e)
  \/ CoreReturns(e) \/ CoreRaises(e)
  \/ StartNext(e) \/ StartAll(e) \/ ChildRaises(e) \/ RunReturns(e)
  \/ CallbackReturns(e) \/ ErrorReturns(e) \/ ErrorRaises(e)

TaskRunner ==
  /\ Sched!TaskRunner
  /\ UNCHANGED <<strategy, outcome, history, counts>>

Quiescent ==
  /\ Sched!Quiescent
  /\ UNCHANGED <<strategy, outcome, history, counts>>

Next == (\E e \in Executor : RunTask(e)) \/ TaskRunner \/ Quiescent

Spec == Init /\ [][Next]_vars

-----------------------------------------------------------------------------
TypeOK ==
  /\ Sched!TypeOK
  /\ strategy \in Strategies
  /\ status \in [Executor -> Status]
  /\ result \in [Executor -> Result]
  /\ childError \subseteq Executor
  /\ childSkipped \subseteq Executor
  /\ skipped \subseteq Steps
  /\ ran \subseteq Steps
  /\ unmet \subseteq Steps
  /\ counts \in [ChildCases -> [Counter -> Nat]]

Failed == {e \in Steps : result[e] = "error_self"}

(* A skipped step, and an if whose condition does not hold, silence their    *)
(* whole subtree, although run_child still walks it: no core below ever      *)
(* runs, at any depth and whatever fails or is ended meanwhile.              *)
SkipsCascade == \A n \in skipped \cup unmet : Below(n) \cap ran = {}

(* Once the task, the main case, the child case or the parent of an executor *)
(* is stopped, by its own outcome or by a failed step's strategy, an         *)
(* executor that has not passed its check yet never runs its core and        *)
(* neither does anything below it: no stop is undone by a later callback,    *)
(* and only coroutines already suspended on the semaphore escape.            *)
EndedFor(e) ==
  \E f \in Failed :
    /\ phase[f] = "done"
    /\ Target(f, strategy, InnerStrategy) \in Scopes(e) \cup {Parent[e]}

StopIsFinal ==
  \A e \in Steps \cup ChildCases :
    [](phase[e] \in {"idle", "before"} /\ (Stopped(e) \/ EndedFor(e))
         => []((Below(e) \cup {e}) \cap ran = {}))

(* The status written for a child case is true of its steps: "end" only if   *)
(* every step below ran and nothing below failed or was skipped;             *)
(* "skipped_child" only if nothing below failed but what a skipped step, which *)
(* reports that it was skipped whatever happens in it, has kept to itself.    *)
VerdictIsTrue ==
  \A c \in ChildCases :
    /\ status[c] = "end" =>
         \A d \in Below(c) : d \in ran /\ result[d] = "success"
    /\ status[c] = "skipped_child" =>
         \A d \in Below(c) : result[d] = "error_self" => Above[d] \cap skipped # {}

Escaped(c) == \E d \in Below(c) : phase[d] = "raised"

(* Every step below a finished child case is counted exactly once, under the *)
(* counter of its own outcome.                                               *)
CountsAreExact ==
  \A c \in ChildCases : phase[c] = "done" /\ ~Escaped(c) =>
    /\ counts[c]["failed"] = Cardinality(Below(c) \cap Failed)
    /\ counts[c]["skipped"] = Cardinality({d \in Below(c) : result[d] = "skipped_self"})
    /\ counts[c]["done"] = Cardinality(
         {d \in Below(c) : result[d] \in {"success", "error_child", "skipped_child"}})

(* A strategy ends what it names and nothing else: every skipped step is     *)
(* disabled or empty, or has an ancestor that was skipped, did not meet its  *)
(* condition, failed, or is what a failed step's strategy ended.             *)
Ended == {Target(f, strategy, InnerStrategy) : f \in Failed}

SkipsHaveACause ==
  \A e \in skipped :
    \/ e \in Disabled
    \/ Kind[e] = "empty"
    \/ Above[e] \cap (skipped \cup unmet \cup Failed \cup Ended) # {}

=============================================================================
