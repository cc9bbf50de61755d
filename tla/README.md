# A TLA+ model of AsyncExecutor

AsyncExecutor executes the test tasks of AsyncTest: a request describes a task
with its cases, child cases and steps, a child process runs them as coroutines
of one event loop, and the record of what happened is written to redis, from
where the server reads it back. This directory holds TLA+ modules that model the
program, the TLC configurations that check them, and TLAPS proofs about them.

Contents: [inventory](#inventory) - [plan](#plan) - [modules and code](#modules-and-code) -
[runs](#runs) - [bounds](#bounds) - [fairness](#fairness) - [proofs](#proofs) -
[disagreements with the documentation](#disagreements-with-the-documentation) -
[not modelled](#not-modelled)

## Inventory

Paths are relative to `src/`.

### Task scheduler - `core/controller/async_task_runner.py`
State: one `asyncio.Semaphore` with `MAX_CONCURRENCY` permits, and the list
`AsyncContext.tasks` of what `run_concurrently` created. Operations: `_run_task`
(before callback, body under the semaphore, closing or error callback),
`run_concurrently`, `run_sequentially`, `TaskRunner.run` and
`wait_for_dynamic_tasks`. Every executor of every level goes through `_run_task`
of the same context, and a parent runs its children from inside its body.
Hard: nested waiting with one shared semaphore; exceptions out of the error
callback; dynamic tasks created while others are being awaited.
Correct when: permits are conserved, no parent leaves a child behind, the runner
ends, and only after everything it started.

### Executors - `core/payload/{core,task_exec,case_exec,child_case_exec,step_exec}.py`, `core/executor/core.py`
State: per executor a status, a result, `has_child_error`, `has_child_skipped`;
per step and child case a check before running. Operations: the callbacks the
scheduler calls, `run`, `make_child_executor`, `run_child`,
`check_and_change_status`, and the counters of the child case in redis.
Hard: the state of one executor is written by itself, by its children (flags)
and by failed steps far below (the strategy), all between awaits of each other.
Correct when: a verdict is true of the steps below; what is stopped stays
stopped; nothing is skipped without a cause; every step is counted once.

### Error strategies - `core/payload/utils/error_strategy.py`, `core/enums/executor.py`
No state of its own. A failed step climbs to the first node that does not hand
the error on, and sets the status of the node its strategy names to SKIPPED.
Hard: nested loops and referenced cases, where "the case" and "the executor"
depend on where the decision is taken.
Correct when: a strategy ends what its level means and nothing else.

### Step kinds - `core/payload/node_executor/*.py`
`if`, `case` (referenced case), `multitasker` (loop), `group`, `empty`,
`interface`, `assertion`, `database`, `script`, `delay`. The first three set a
status or unroll iterations; the others compute or do I/O.
Hard: the rows of a dataset are shared by the iterations over it.
Correct when: operators that ask the same question answer it alike.

### Interfaces - `core/payload/node_executor/interface.py`, `interface_utils`
State: the last interface and its result, kept per parent for the assertions
that follow; the flags of what a pre-action has covered; the times the trace
hooks of the HTTP client note for each other. Operations: fetching and copying
the cached interface, pre-actions, building, sending, the two callbacks,
post-actions.
Hard: iterations execute the same cached interface concurrently; failures before,
during and after the request leave different parts of the state behind.
Correct when: an assertion judges the response of the last request, and a request
is its own.

### Record - `core/record`, `core/lua_executor`, `core/lua_script`
State: redis lists of cases, child cases and steps, a hash of their positions,
details per step, the summary; all with an expiry. Operations: `record` by
unawaited tasks or awaited; lua scripts that update a field in place or
increment a counter; export to a backup file at the end and import from it.
Hard: messages nobody awaits, in no order; concurrent updates; reading while
writing; expiry; a redis that restarts.
Correct when: no message is lost or doubled, what a coroutine waited to write is
in the backup, and a reader that follows a list by chunks has what it holds.

### Record reader - `server/app/task/record_controller.py`
Reads lists by chunks from a remembered index while the task runs, and restores
the backup when nothing is found.
Correct when: it never says that what can be restored has expired.

### Process supervision - `server/app/task/execute.py`, `task_process`
A background thread per task starts a child process, watches its memory every
second, sends SIGUSR1 above the limit, joins it with a timeout and kills it.
The handler raises an exception in whatever the child is executing.
Hard: the exception may be caught as a step's error; the kill may come between
any two steps of the end of the task.

### Main executor - `core/executor/runner.py`, `core/signals`
Pre-action (files, start call), execution, post-action (end call, temporary
files, backup, closing of session, pools and files). An exception of the
first two is swallowed; the steps of the third are not protected, and a script that
leaves (`SystemExit`) passes every handler.

### Variables - `core/payload/variables_controller`, `core/utils/py_variable_parser.py`
Four scopes searched in order; written by steps, loops and scripts, also from
concurrent iterations; read by the replacement of `{{name}}` in texts, and by the
calls of scripts, in code of their own.
Correct when: both ways find the same variable, and a step reads what it has set.

### Resources - `core/task_object/database_client.py`, `core/ast_file`, `core/excel_controller`, `core/global_client`
Database pools created on demand and closed at the end; temporary files
registered and removed; the interpreter's recursion limit around a script; one
redis pool per process.
Correct when: no pool is lost, a key names a whole file, the limit comes back.

### Task objects, scripts, generated values - `core/task_object`, `core/customer_script`, `core/utils/mock_func.py`
Conversion of the request into objects, the sandbox of user scripts, and
random generators: no protocol.

### Interaction

    execute -> monitor thread -> child process -> MainExecutor
      -> PayloadExecutor -> TaskRunner -> AsyncContext._run_task (task)
           body: run_concurrently / run_sequentially -> _run_task (case) -> ... (step)
           callbacks: status, flags, error strategy, counters and record (redis)
    reader (server process) -> redis -> backup file

## Plan

Order of work, the most important behaviour first. All of it is written.

| # | module | component | abstract specification, theorems |
|---|---|---|---|
| 1 | `AsyncContext` | scheduler with its semaphore | conservation, wake-ups, hold-and-wait, nesting |
| 2 | `ForkJoin` | what the scheduler promises the executors | refined by 1 when no exception escapes |
| 3 | `ExecutorTree` | the tree of nodes and its lookups | induction over the tree, what the lookups find |
| 4 | `ErrorStrategy` | the decision of a failed step | its climb ends; each decision ends what its level means |
| 5 | `Execution` | 1 composed with statuses, flags, strategies, counters | an execution is one of 1; skips cascade and have a cause, stops are final, verdicts are true, counters exact |
| 6 | `TaskLifecycle` | monitor, child process, main executor | the end of a task is reported and resources closed, or why not |
| 7 | `RedisStore`, `Recording`, `RecordReader` | lua scripts; messages, export, expiry; chunked reader, import | the reader gives a beginning of the list |
| 8 | `InterfaceSteps` | requests, trace hooks, callbacks, the response an assertion reads | the last request is judged; a request is the step's own |
| 9 | `Variables`, `Comparisons`, `Twins` | scopes, loops and their rows; operators; what is decided twice | twins agree, a setting is read back |
| 10 | `SharedResources` | pools, recursion limit, temporary files, their closing | limit restored, pools accounted for, keys name files |

`Execution` composes `AsyncContext` (as an instance that shares its variables)
with `ErrorStrategy` and `ExecutorTree`. `TaskLifecycle` has the execution as one
stage, which returns or raises as `AsyncContext` says it can. `RecordReader` extends
`Recording`, which extends `RedisStore`: the reader and the task interleave on one
store. `Twins` puts `Variables` and `Comparisons` side by side.
`InterfaceSteps`, `Variables` and `SharedResources` take the steps of parents,
loops and groups from constants, in any interleaving the scheduler allows.

## Modules and code

### `AsyncContext`

One executor is one `_run_task` coroutine; its `phase` says where it is:

| phase | code |
|---|---|
| `idle` | not started yet, or still in a deque |
| `before` | inside `before_callback` |
| `waiting` | suspended in `async with self.semaphore` |
| `core` | inside `run`, before its children |
| `children` | inside `run`, in `run_concurrently` or `run_sequentially` |
| `closing`, `erroring` | inside `after_callback`/`skipped_callback`, or `error_callback` |
| `done`, `raised` | `_run_task` has returned, or an exception left it |

`queue[e]` is what is left of the deque, `value`, `waiters`, `woken` are
`asyncio.Semaphore` (external, CPython 3.12: `release` and `acquire` keep the
value consistent with the futures already set), `tasks` is `AsyncContext.tasks`
and `runner` is where `TaskRunner.run` is. `drained` is the list of tasks that
`wait_for_dynamic_tasks` has taken: what is started after it is not in it. That does no
harm, since it could only be started by an executor in the list, whose return
`gather` waits for, or by one whose parent has raised and is in the list
itself; `NormalEndIsComplete` rests on it. A coroutine moves atomically from one
await to the next, as the event loop guarantees, so an action is one stretch
between two awaits. Which callback or body may raise is a constant
(`BeforeFails`, `RunFails`, `CallbackFails`, `ErrorFails`); `Fragile` are the
executors whose `error_callback` raises when it is called without a node, which
is what `_run_task` does after a failed `before_callback`.

`NoEscape` says that no exception leaves an `error_callback`; under it the
scheduler implements `ForkJoin` (`FJ`, `ImplementsForkJoin`).

### `ForkJoin`

Nodes are idle, open or closed. A node opens its children one after another or
all at once, and closes when no child is open.

### `ExecutorTree`, `ErrorStrategy`

The tree is a constant: the loops are unrolled, so a `multitasker` has one
`child_multitasker` per iteration and a referenced `case` one `child_step_case`.
`NearestAbove` is `search_node`, `Father` is `search_step` (in a referenced case
the case step, not the parent). `RealErrorStrategy` is the climb with its
`child_iter` (a function of the node alone: the code replaces the `child_iter` it
carries upwards, so that of the rest of the climb wins if there is one), `Target`
the node that `change_parent_status` ends, `Unresolved` the case in which
`child_iter` is still None and it raises. These take any assignment of strategies;
`strategy` and `InnerStrategy` are the one of an execution.

### `Execution`

Every action is the action of the same name of `AsyncContext` conjoined with
what that callback or body does to the statuses, results, flags and counters:

| action | code |
|---|---|
| `AcquireNow`, `AcquireWait` | end of `before_callback`: `check_and_change_status` (`Checked`), then the semaphore |
| `Resume`, `AcquireNow` | `Enters`: `is_skipped` is read once the permit is there |
| `CoreReturns`, `CoreRaises` | the step's core; an `if` sets CONDITIONAL when its condition does not hold |
| `StartNext`, `StartAll` | the child case's RUNNING is set in the step that starts it (`Begun`) |
| `RunReturns` | `Ends`: the part of the closing callback before its first await |
| `CallbackReturns` | the counter of the child case |
| `CoreRaises`, `ChildRaises`, `BeforeRaises` | `Fails`: the part of `error_callback` before its first await |
| `ErrorReturns`, `ErrorRaises` | the counter, then the strategy, after the awaits of `error_callback` |

The split of the callbacks at their awaits is where the interleavings come from:
a sibling may pass its check after a step has failed and before its strategy is
applied. `ran`, `skipped` and `unmet` record what happened to each step's core.

### `TaskLifecycle`

One element of `Runs` is one request to `/execute`. `monitor`, `proc` and
`signal` are the thread of `monitor_and_run_task`, the process it has started and
SIGUSR1; `child` is where `MainExecutor.run` is in it (`at`, one stage for each
call it awaits), what it has opened and what it has told the server; `disk` is
what outlives processes and what runs share: the copies below
`static/task_temp/<task>`, the temporary directory of each run, and the backups.

| action | code |
|---|---|
| `Starts` .. `MonitorFails` | `monitor_and_run_task`, from `process.start()` to the callback |
| `Generate` .. `Returns` | the stages that succeed, in the order of `Following` |
| `ScriptExits` | a script's `SystemExit`: no `except Exception` catches it and the process ends |
| `StageCaught`, `StageEscapes` | an exception in a stage: within the try of `MainExecutor.run` the post-action follows, elsewhere the process ends |
| `DoomedEscapes` | the stages that cannot succeed: the end call's None is parsed, aiomysql's `close` is awaited |
| `SignalTerminates` .. `SignalSwallowed` | the handler's exception, by where the main thread is |
| `Crashes` | the kernel or an operator |

`Named` are the backups a prune may take: those whose file name begins with the
name of its task, by the digits of the ids (`TaskOf`), so task 1's prune takes task
10's too; it may come between another run's opening and writing of its file, which
then ends without one. The session is closed only where it has been set: the end of a
run that failed before is one of the `Doomed`.

A call to the outside counts as made when it is attempted. External: what the
server answers (any list of records), which pools the steps open, when memory is
over the limit.

### `RedisStore`, `Recording`, `RecordReader`

`RedisStore` has one operator for each command and lua script: a store maps the
live keys to their value and the time they have left. `Recording` gives every
execution of a step (a visit) the sequence of writes its callbacks and core make
(`Beginning`, `Core`, `Ending`), each with the messages it leaves to unawaited
tasks before the next await (`Stretch`); visits of one step write to the same keys.

| action | code |
|---|---|
| `MainWrites`, `MainRaises`, `StepsEnd` | the task, its case and its child case: `cache_info`, the callbacks, the end, the post-action |
| `VisitWrites`, `VisitRaises` | one awaited write of a step, or its exception, or a child's |
| `ChildrenUnmade` | a step that has written its start and cannot make its children: it raises, writes no end, and its parent abandons the rest |
| `Arrives` | the task of a message that nobody awaits reaches redis |
| `ExportBegins` .. `ExportWrites` | `export_by_prefix`, key by key, then the file |
| `Closes` | the pool and the event loop; what is still under way is lost |
| `Tick`, `RedisRestarts` | expiry, and a script cache that is empty |
| `AsksChunk`, `AsksValues`, `AsksRestore` | the reader's three requests |
| `ImportDeletes`, `ImportSets`, `ImportEnds` | `sync_import_from_file`: a pipeline that is no transaction |

A child case one of whose steps has raised writes its own end (`ClosingTheCase`), and
the others run on. Keys that nothing can write to any more are read or restored together
(`Handled`): no property tells their order. The export's scan is of keys that begin with
the record's id; the model has one record.

### `InterfaceSteps`

`run[s].at` is where `InterfaceRunController.run` is; `run[s].info` is its copy of the
interface, in which every part has an origin (the cache, or the step whose script
covered it), the number of times the server's prefix is in the url, and the form
of the body (`Generated` refuses a form that is not its type's). `Operate` is one call
of `CoverInterfaceController`. `Reads` and `Notes` are the keys the trace hooks ask
of their context and put into it: a hook that asks for one that is not there raises into the
request, which `Goes` models. `Points` comes after `Finishes`, as the details are
stored first. `Asks` is `get_last_interface_response`.

### `Variables`, `Comparisons`

A row of temporary variables has an identity: the iterations of a case over a dataset
hold the rows of the task's cache (`DatasetRows`), the iterations of a multitasker over
one get the keys of its entry (`EntryKeys`), texts below which nothing can be looked up
(`NoRow`, `Readable`), and all others a row of their own. `VariableMapping` is
what texts are rendered from, `TempGet` and `EnvGet` what scripts call; `Gpe` and
`SearchEnv` are the two searches for an environment; `LoopData` is what a
`multitasker` or `case` iterates over. `Sets` is one setting by a script, an
extraction or a database step; `Settles` says whether it gets there.
The model has a project's mapping for every project a node names (`ValueAssumption`):
`get_env_merged_variable` raises for another. `Comparisons` has the operators of `if` and `error`
steps (`IfHolds`) and of assertions (`AssertionHolds`, `Verdict`), over texts of which
only their relations are known. `Twins` states that what the code decides in two places
it decides alike.

### `SharedResources`

Steps run side by side (`group`), and the closings of the post-action wait for all but
the `Orphans`. `Asks`, `Stores`, `Executes` split `get_pool_client` at its awaits; `Enters`
and `Returns` are `RecursionLimitContext`; `Loads` .. `SavesBook` are `AstFile` and
`AsyncExcel`, with the threads they hand work to; `CloseBegins` .. `ForgetsBase`
are `PostActionExecutor`.

## Runs

| run | shows |
|---|---|
| `sched_wide` | The safety of the scheduler when anything may raise: conservation, the semaphore's deque, no step queued twice, no lost wake-up, no hold-and-wait with enough permits, no child left behind but for an exception of a sibling, a normal end only after everything; and that it ends. |
| `sched_deep` | The scheduler implements `ForkJoin`, and sequential children run in the order of the deque. |
| `sched_starved` | (violation) With as many nested parents as permits the execution hangs. |
| `exec_loop` | Nested loops, a condition and a disabled step: skipping reaches the whole subtree, the verdict of a child case is true, counters are exact; also when an iteration's children cannot be made and the exception climbs, and below a step that is skipped. The decision of a multitasker, the inner or the outer, ends it or the iteration it was taken in. |
| `exec_fan` | Concurrent child cases, one with a referenced case, compete for one permit while a step's strategy ends its case or the task: nothing that has not passed its check runs any more, and nothing else is skipped. A referenced case that hands errors on leaves the decision to its caller, and one that decides for itself ends nothing outside. |
| `lifecycle` | Runs of the tasks 1 and 10, one of which may fail at every stage, be signalled, crash, be left by a script, or lose its monitor: a start is followed by a report of the end unless a script leaves, an untroubled REMOTE run saves and releases everything and keeps its record from all but the runs its name is in reach of, no run removes another task's files, no process outlives its monitor, a child over the limit is ended even if it hangs, and every task ends. |
| `recording` | Two concurrent executions of a referenced case, one with an interface and a script below it and children that it may be impossible to make, against a reader and the surroundings: no list holds a message twice, and none is lost while the task lives; the client's chunks add up to the list, also after expiry and restore; the backup of a task shorter than the shorter expiry, none of whose steps an exception has ended, says what its coroutines waited to write; nothing told without waiting precedes what was awaited before it; "expired" is only said of what the backup does not hold. |
| `recording_expiry` | (violation) A task longer than that saves a backup from which keys are gone. |
| `interface` | Two parents, two interfaces, one of them sent by both: an assertion judges the response of the last request, or refuses when there is none or it failed; no trace hook makes a request fail; what is sent is the cached interface with the covers of the step's own script. |
| `values` | Two ways to look a variable of a row or the environment up, two searches for the environment, and two sets of operators agree wherever they are meant to; what a step sets it reads back, unless a nearer variable hides it. |
| `values_global` | (violation) A variable that is only global is in the text of a step and not in what its script is given. |
| `resources` | Racing pools, overlapping scripts, files shared and covered, orphans: a pool is lost only to a race, the limit is restored unless scripts overlap, a key names a whole file. |

The properties of `interface`, `values` and `resources` say exactly under which conditions the code
keeps them; the conditions are the disagreements listed
[below](#disagreements-with-the-documentation).

What the properties mean is said at each definition. The definitions marked
"Seeded fault" are plausible mistakes in the code next to them; each property
fails when one of them takes its place.

## Bounds

The trees and the permits are bounded; the counters that are capped are named below.

- `sched_wide` has three concurrent steps and a leaf below two parents and
  three permits, so steps queue behind one permit, a release meets several
  suspended coroutines, and steps abandoned by an exception contend with the
  leaf that runs next. Every executor may fail in every way.
- `sched_deep` has every kind of loop nested once, with six permits for five
  parents: exactly one beyond the bound of `EnoughPermits`.
- `exec_loop` and `exec_fan` have 19 and 17 executors. `exec_fan` gives one
  permit more than its parents need, so that waiting at the semaphore happens
  between a check and a core; `exec_loop` gives enough to let the two
  iterations run freely. Two steps of each may fail, which is what it takes for
  one failure to race the other's strategy.
  Their assignments of strategies (`LoopStrategies`, `FanStrategies`) let each level decide
  in turn, one or two levels at a time, and every other hand the error on; they are legal
  (`LegalAssignments`). What a decision ends in deeper nestings, of loops and of references
  in references, is left to the theorems, which hold of every tree and assignment.
- `lifecycle` has two runs because what they share (a directory per task, the
  archive) is shared by pairs: the id of one task begins with the other's; `Troubled` keeps the troubles to one of them, which
  may meet any number of them at any stage, while the other is at any stage of its
  own. The first may be REMOTE or DJANGO, and an archive exists from the start or
  not. The pools a run opens are none, a pgsql one, or one of each kind.
- `Permits` is at least 1: with `MAX_CONCURRENCY=0` there is no semaphore and
  the first `async with` raises.
- `recording`: four visits that write to one list, two of them from within the
  third and one beside it, are what it takes for messages of an earlier and a later step, of a
  repeated print and of a concurrent execution to be under way at once, and for two
  ends to meet in one status. The iterations of the loop around them are left out: they
  write what the others write. The second execution has no steps and begins when the script of the
  first has ended (`After`), and redis does not restart once it has (`Steady`). `MaxFlying` = 2 messages are under way when a
  step goes on; `Shown` keeps the messages of one recipient (the four lists get
  copies of the same, from the same tasks). `Week` and `Hour` are 2 and 1 ticks, of which `RunTicks` = 1
  may pass while steps run and `MaxTicks` = 2 in all: enough for a key to
  expire before the export, after it, or after a restore. Redis restarts once at most, and not in
  a run in which time passes. The client asks for a chunk when the list has one of the lengths in `Looks`,
  or when the task is over.
- `interface`: a request may be redirected once; the hooks of a second
  redirection would ask for the same times again. One parent sends twice, so that a stale
  response exists; the other shares the first interface. The operations of a script
  are up to two in order, which is what the flags relate.
- `values`: `Tokens` bounds the settings to two, one to be hidden or replaced by
  another. Two cases over one dataset, in the iterations of a loop, share a row, and a
  multitasker over the same dataset has none; an entry that depends on the default and one
  that does not; two referenced cases inside one another are where the searches for an environment
  differ. `MaxGenerated` is 1, so that a script's answer can exceed it. The operands
  of the comparisons are texts that are equal as numbers only, that are none, that
  hold each other, and that are no regular expression.
- `resources`: two steps race for a pool; one of a kind whose closing fails, one of a
  kind that has no client, one orphan; two scripts of at most three
  operations, which exchange a system file.

## Fairness

Safety runs assume none. `Termination` (and its violation) assumes weak
fairness of each coroutine and of `TaskRunner.run` (`Fairness`): the event loop
steps every coroutine that is ready, and every callback and body returns or
raises, which the code bounds with the time-outs of its clients. Weak fairness
is enough because an action of a coroutine, once enabled, is disabled only by
that coroutine's own steps: a resumed waiter keeps its result. `sched_starved`
fails under the same fairness, so it is a deadlock and not a coroutine that is
never stepped.

`TaskLifecycle` assumes weak fairness of the monitor's own steps in `Spec`: its
thread runs and `join` has a timeout. `LimitEnforced` needs no more, so it covers a
child that hangs. `EveryTaskEnds` also takes weak fairness of the child's stages
(`ChildFairness`): a stage returns or raises, as its calls have timeouts. That
memory is over the limit, that a signal is handled, and that anything fails is
never assumed.

The other modules state safety only: what must eventually happen to a step is
`AsyncContext`'s matter, and a message that nobody awaits need not arrive.

## Proofs

`AsyncContext_proofs` proves, for every finite tree of executors, every loop
strategy, every number of permits and every set of failing callbacks
(`TreeAssumption`, `ParameterAssumption`):

- `TypeCorrectness`: `[]TypeOK`.
- `StartedOnce`: `[]QueuedOnce`. Needs that a child is in one deque only, which
  the tree gives initially and `StartNext`/`StartAll` keep by emptying the deque
  in the step that starts the child.
- `Waiters`: `[]WaitersSuspended`, from the previous two: a coroutine enters the
  semaphore's deque from `before`, so it is not in it already.
- `Conservation`: `[]PermitsConserved`, and `Wakeups`: `[]NoLostWakeup`,
  together inductive with the types: a release either hands its permit to a
  waiter or finds none.
- `NoHoldAndWait`: `EnoughPermits => []ParentsLeaveAPermit`. Conservation counts
  the holders; with no permit on its way all permits are held, and there are more
  permits than executors with children, so a leaf is among the holders.
- `ChildrenAwaited`: `[]ActiveChildAwaited`, strengthened with the fact that
  the children of an executor that is not inside its body have all been queued
  or have ended.
- `NormalEnds`: `[]NormalEndIsComplete`. What has been started descends from the task
  (`Descent`), and each of it is either the one child a sequential parent has under way
  or among the tasks that are gathered (`InSight`, `Gathered`). The topmost executor that
  were still active would have neither: its parent has left its body because
  a child raised, and with a sequential parent that child is the executor itself.

`ForkJoin_proofs` proves of the abstract specification that nodes nest and that
sequential children run in order (`NodesNest`, `InDequeOrder`), for every tree.

The last part of `AsyncContext_proofs` proves, under `NoEscape`, `SchedulerImplementsForkJoin`
(`Spec => ImplementsForkJoin`) and with it `SchedulerKeepsOrder`. The step
simulation needs, beside the invariants above, that nobody is `raised`
(`NobodyRaised`), that a deque is the rest of the sequence of children
(`DequeIsRest`), and that what a sequential executor has taken from it has been
started (`TakenStarted`). A start is a fork, the end of a closing or error
callback is a join (its children have ended, by `ActiveChildAwaited`), and
every other step is a stutter.

`Execution_proofs` proves its theorems for every finite tree whose kinds nest as the
executors make them (`TreeAssumption`, `KindAssumption`), every set of disabled and
of failing executors and every set of strategies (`ExecutionAssumption`). It
begins with the tree: the recursion `Above` has a solution (`AboveIs`), what holds of
the task and is handed down holds of all (`TreeInduction`), a set of executors has a topmost
one (`Topmost`), the lookups find the nearest (`NearestIsFound`). Then:

- `ExecutionIsScheduled`: `Spec => SP!Spec`, so the invariants of `AsyncContext_proofs`
  hold here (`ScheduledAlways`).
- `ExecutionTypes`: `[]TypeOK`; needs that the father a step reports to is above it.
- `SkippedIsSilent`: `[]SkipsCascade`. Alone it is not inductive: a child passes its check by
  its parent's status, which the parent's own callback and strategies overwrite. The
  invariant (`Cascade`) says that what is started is below bodies that have run
  their core (`Within`, `Entered`), that a skipped step or unmet condition shows a
  stopping status until all its children are idle or done (`Silenced`), and that a child
  which waits for a permit has been told already (`Told`).
- `VerdictsAreTrue`: `[]VerdictIsTrue` if `NoLoopIsDropped` (a loop whose strategy is none of
  the two runs nothing and succeeds). Outcomes are told to the father (`Heard`) before the
  father concludes (`Believed`). That no report comes late needs the orphans: an executor
  that no longer waits for its child has failed and has told the same father (`Attended`,
  `NoLateReport`). The topmost executor with an outcome that does not fit then
  contradicts the verdict (`VerdictFollows`).
- `CountersAreExact`: `[]CountsAreExact`, from the stronger fact that the counters add up at
  every moment (`Counted`).

- `SkipsAreExplained`: `[]SkipsHaveACause`. Every stopping status is traced to what wrote it
  (`Stopping`): a skip, a failure, an unmet condition or a strategy. The invariant (`Caused`)
  says that each has such a cause, and that what a check finds lies above (`CheckedHasCause`).
  A child case that is over is the exception: its status may stem from its
  own callback. What is still under way in it then is below a failed step, since a sequential
  parent has one child under way (`InOrder`) and only a failure leaves it (`OrphansHaveFailed`).
- `StopsAreFinal`: `Spec => StopIsFinal`, a temporal property, by an invariant from the stop on:
  an executor stopped before its check is shut for good (`Shut`). Only the end of a step's
  own body overwrites a stopping status (`StopStays`), and then its children are all idle or done for
  good (`Served`). A child case that checks itself out hands its status to its
  steps as long as it is in its body (`CaseShut`). What a strategy ended stays stopped or has
  nothing to start (`Obeyed`).

Both need where the climb of `get_real_error_strategy` ends. The recursion has a solution
(`ClimbEnds`: stop at the nearest executor above that does not hand the error on, and keep the
topmost iteration on the way), which obeys its equation (`ClimbIs`), and what a strategy ends is above
the failed step or is the step (`TargetIsAbove`). On these rest also, for every tree and every
assignment of strategies, legal or not:

- `MultitaskersEndThemselves`: a climb that stops at a multitasker starts right below it or has
  kept the iteration below it (`IterOfMultitasker`);
- `CallersDecideForThemselves` and `InnerDecisionsStayInside`, from what the lookups find.
  The second needs that the deciding case is the one nearest to the failed step;
  see the disagreements for a case referenced from it.

The proofs about `Spec` sum a step up by what it does to others (`OthersKeep`) and to the
executor that takes it (`OwnSteps`, `Reports`).

`TaskLifecycle_proofs` proves every safety property of the run `lifecycle` for
any runs, however they share tasks and whatever ids these have, whatever methods they
name and with any of them in trouble (`RunsAssumption` is not even needed). Its first part is types
(`LifecycleTypes`); its second sums the steps up by what they leave of the state
(`StepCases`): the child waits (`WaitsEffect`), a stage succeeds (`StageEffect`) or
a stage fails (`FailEffect`). On these rest, each with a conjunct per run that
any step of any run keeps:

- `EndsAreReported`: `[]StartedIsEnded`, of children that end by themselves, unsignalled and
  not left by a script. Inductive with: a call that is not reported ended leaves the child in
  the try or at the end call (`Reports`).
- `BackupsTornByDeath`: `[]TornBackupByDeath`, with the fact that only a run with
  a record tears its backup, and so its write makes it whole (`Torn`).
- `CachedFilesKept`: `[]OwnFilesKept`.
- `NothingIsLeft` and `GraceAfterSignal`: `[]NothingLeftRunning` and that the grace
  period before the kill runs for a signalled child only (`[]KillIsLastResort`),
  with the fact that a queued run has no process (`Supervised`).
- `UntroubledRunsRelease`: `[]UntroubledRunReleases`, by what has been saved and
  closed when each stage is reached (`Releases`). A run once failed, left or signalled
  stays so (`UntouchedBefore`), and another run that may have pruned the backup, of
  this task or of one whose id this one's begins with, has made its end call for ever
  (`SharedStays`). The backup of an untroubled run can go missing at any moment from
  its opening on, and then only to such a run.

`InterfaceSteps_proofs`, for every number of parents, every order of interfaces and
assertions below each and every script, rests on one invariant (`IInv`):

- the cache is never written to (`CacheKept`), an answer is stored before the step
  tells of it (`StoredFirst`), and under a parent a step starts when those before it
  are over (`OneAtATime`);
- `RequestsInv` says of every request which times its hooks have noted at each
  place and whom the parts of its copy come from;
- `LastsInv` relates a parent's last node and result to the steps that have told of
  their request: the last that was answered, and whether it is also the last that was sent.

`AssertionsJudgeTheLast` (`[]AssertsTheLast`) follows because nothing before an
assertion is under way any more (`JudgedInv`), `RequestsAreOwn` (`[]SentIsOwn`) from
`RequestsInv`: `SentIsOwn` alone is not inductive, as it says nothing of a copy that
has not been sent.

`SharedResources_proofs` has an invariant for each of the resources, over any
steps, configurations and programs:

- `LimitRestoredAlways`: the saved limits are those of the scripts that run, one each
  (`EntriesOK`), and all but the first saved the limit of a script (`StackOK`).
- `PoolsAccountedAlways`: an open pool that is not a rival is the one in the mapping, and
  two steps that create a pool of one configuration make rivals (`RivalsInv`); a pool
  the closing has not passed will be closed unless the mapping has grown (`ClosingInv`).
- `KeysNameFilesAlways`: a path an object has is a system file or one the script made
  before, with a higher number than it will use again (`Earlier`); a torn read names a
  script that has a write back in one of its programs (`TornOK`).

`RecordReader_proofs` composes the task, the export, expiry, the import and the
reader's requests on one store, for any steps, visits, recipients and times:

- `ExpiredMeansGoneAlways`: `[]ExpiredMeansGone`, by what is left of the export
  (`SavedOK`) and of the import: a key of the backup is in the store, or among those
  still to be restored (`ImportOK`).
- `ReaderAgreesAlways`: `[]ReaderAgrees` if `RunTicks < Week`. The client has a beginning
  both of the list in redis and of the one the export has read, which are the same
  (`AgreeOK`). The hypothesis is needed: a list on which nothing is written for as
  long as a record is kept is gone while the task runs, and starts again empty. `TimeOK`
  carries it: the list has as much time left as the task had when it was written.
- `EachMessageOnceAlways`: `[]EachMessageOnce` under the same hypothesis. What a list
  holds and what is under way for it add up to what was sent, or to less once something
  may be lost; the same goes for what the export has read of it, which is what a restore
  puts back (`CountIs`). A set of messages cannot hold two alike, so they have to differ: by the
  visit, and within a visit by the stretch of it that sends them (`MessagesDiffer`). For this an
  interface must not be its own parent, and a visit not one of the texts of the task (`VisitAssumption`).
- `AwaitedComesFirstAlways`: `[]AwaitedComesFirst`, without that hypothesis. Every entry
  of a list is by a visit that has come far enough to tell it (`Known`), and a message
  under way is by one that has told of its own before (`BegunOK`); before the task
  has opened there is at most the first entry (`OpeningOK`).
- `AwaitedIsSavedAlways`: `[]AwaitedIsSaved`. While redis has its scripts, the backup is not
  whole, no step has been ended by an exception and less than an hour has passed
  (`Lasting`), the task ends after all its visits (`FlowOK`; a visit that raises ends this, `HeldRaised`), no key
  expires (`LastsOK`: `update_fields.lua` leaves a key an hour), and every value says how
  far the task and its visits are (`ValuesHeld`): the counters are the visits that have been
  counted (`CountersHeld`), a step's end is that of one of its executions, concurrent or not
  (`StatusHeld`), and its place
  in the statuses of the case has such an outcome once all of them have told theirs
  (`CaseHeld`): before, it may be "running" after one of them has ended. What the export
  has read is what there is (`ScanOK`), as by then only lists are still written to.

The proof of `AwaitedComesFirstAlways` showed that `late` had been too narrow: after a failure the
concurrent steps run on and their awaited writes, not only unawaited messages, reach a
list that the export has passed. `VisitWrites` now counts them (`Passed`).

`Variables_proofs`, for every tree of cases, loops and interfaces below one child case
(`TreeAssumption`, `LoopAssumption`), every choice of strategies, drives and datasets, any
values but the one that stands for none, and a mapping for every project that is named
(`ValueAssumption`, `IterationsAssumption`):

- The lookups are recursions up the tree. A set of nodes that one cannot climb out of does not
  exist, so there is induction (`NodeInduction`), and every such recursion has a solution
  (`ClimbEnds`); `PathIs`, `GtvIs`, `GpeIs`, `SearchEnvIs`, `TempsIs` and `StvIs` are the
  equations of the six.
- `VariablesStayKept`: `[]VariablesInv`. A row belongs to the iteration it was made for or to the
  entry of a dataset from which a case took it, with no value missing in it, and an iteration of a
  multitasker over a dataset has none (`RowsKept`), and the latest setting of
  every place is there (`SettingsKept`). The last needs the first: a setting of another step may be one of the
  same row under another iteration, and a loop that makes its iterations must not touch a row in use.
- `TwinsAlwaysAgree`: `[]TwinsAgree`. A text merges the rows from the child case inwards and a
  script asks them from its own outwards; both end at the nearest row with the name
  (`TempLookup`, `MappingIs`), as no row holds the value that stands for none. They need
  not agree on a variable that is only global (`OnlyGlobal`), and do not: see `values_global`. The
  searches for an environment agree by induction (`EnvironmentsFound`); the operators operand
  by operand (`OperatorsFound`).
- `SettingsAreRead`: `[]WrittenIsRead`, from `SettingsKept` and where the lookups end
  (`WrittenIsFound`).

Only model-checked: `Termination`, `LimitEnforced` and `EveryTaskEnds`, which are liveness
and out of the prover's reach.

## Disagreements with the documentation

With a run: `sched_starved`, `recording_expiry` and `values_global` (see PROJECT.json for
the quoted lines). Without one, met while modelling and visible in the same modules:

Executors and strategies

- `core/controller/async_task_runner.py:107` says that it waits for all dynamic
  tasks. `gather` raises the first exception, and `TaskRunner.run` is over while siblings run
  (`DrainRaises`).
- `core/payload/utils/error_strategy.py:64` says the executor is to be ended. Only
  the multitasker is: the iteration the failed step is in goes on, and so do its later
  steps, whose parent is the iteration.
- `core/enums/executor.py:121` says CONDITIONAL is a final status. `after_callback`
  sets END on every step, also on an `if` whose condition did not hold
  (`step_exec.py:55`).
- `core/enums/executor.py:126` says SUCCESS means that the child steps
  succeeded too. In a referenced case a step reports to the case step
  (`step_exec.py:127`), so a group in it with a failed step ends with SUCCESS.
- `core/enums/executor.py:114` says PENDING finally collapses. When the children
  of a loop cannot be made, `error_callback` is called without a node and raises
  (`step_exec.py:72`): the steps queued behind stay PENDING.
- `core/enums/executor.py:128` says END_ERROR_CHILD means that a child node had an exception.
  `before_callback` makes the children before it checks (`step_exec.py:38`, `:44`), so
  below a skipped step a loop can still fail; `skipped_callback` (`:98`) says SKIPPED
  whatever its children reported, and the child case ends as one with skipped steps.
- `core/payload/utils/error_strategy.py:62` says `child_iter` always has a value.
  For an iteration that fails itself the climb starts above it and it has none.
- `core/payload/utils/error_strategy.py:39` says a referenced case that decides
  for itself is ended. The climb stops at it with REF_CASE_INNER, for which there
  is no branch, so its own strategy is not carried out.
- `core/payload/utils/error_strategy.py:42` looks at the failed step's case step,
  not at the deciding node: when that case step handed the error on, the child
  case's own CURRENT_CASE ends the referenced child case instead.
- The same line, for cases that refer to cases: the comment says that ending the case
  inside a referenced case that decides for itself ends that case. When a loop in it decides
  so about a step of a further case which hands its errors on, the line looks at
  that further case, and the main case is ended.

Tasks and processes

- `core/executor/runner.py:47` gives files a cached copy below `static/task_temp/<task id>`;
  `_clean_temp_file` (`:124`) removes it with the copies of every other run of the task.
- `core/executor/runner.py:103`, `:105` save the record and close the resources. For
  DJANGO `end_task_rcp` returns None, `json.loads(None)` raises as soon as there is a
  directory of backups (`:138`), and neither happens.
- `core/executor/runner.py:38` keeps an exception of the execution from preventing the end call.
  A `SystemExit` of a script is no `Exception`: it passes `core/customer_script/execute.py:158`,
  `core/controller/async_task_runner.py:45` and this line, and the process ends with a start
  reported and no end, backup or closing (`ScriptExits`).
- `core/executor/runner.py:145` takes the backups whose file name begins with the name of the task, without a
  delimiter (`:134`): a run of task 1 deletes those of tasks 10 to 19 as well, unless the server
  lists them.
- `core/executor/runner.py:106` closes a session that is None when the session could not be made,
  which raises, and the pools, the files and redis stay open.
- `task_process/runner.py:12` says a signalled task ends gracefully. The handler's
  exception either leaves the event loop, past the post-action, or is taken for the
  error of a step and swallowed: in both cases no end is reported.

Record

- `server/app/task/record_controller.py:59`: when the list is there and the extra key has
  expired, `json.loads(None)` raises where a restore would answer.
- `core/lua_executor/redis_helper.py:22`: after redis has restarted its scripts are
  unknown until the server starts again; every counter and status update raises.
- A step whose children cannot be made has written its start (`core/payload/step_exec.py:36`) and
  writes no end and no counter: its `error_callback` gets no node and raises before (`:72`). Its
  status in the record stays as it was, and the steps behind it stay pending (`ChildrenUnmade`).
- `core/record/redis_client.py:212` scans for all keys that begin with the record's id, so the
  backup of a record would also hold the keys of one whose id begins with it.
- `core/record/redis_client.py:271`: a message that arrives between the deletion and the
  restore of its list comes before the restored entries. Only what reaches a list the export has
  passed can: a message nobody waited for, or a write of a concurrent step that runs on
  after the task has failed (`late`).

Interfaces and assertions

- `core/payload/node_executor/assertion.py:146` says the last interface raised, so that
  nothing can be asserted. An interface that fails before it sends leaves the
  previous node and result, and the assertion judges that response.
- A `json` body that a pre-action has generated, or covered with text, is generated
  again and refused: `has_cover_body` is set and never read. `cover_body(None)` raises a
  TypeError; the cover of a body of type `none` is dropped.
- `core/payload/node_executor/interface_utils/params_maker.py:269`: the index a file is
  looked up by counts all fields of the form, not the files.
- `exist` and `noexist` always fail for `code` and fast assertions, whose class does
  not define them; a header that is missing equals the text `None`.

Variables

- `core/payload/variables_controller/variable.py:255` compares the scope, a text, with a
  list: a script never finds a global variable through `env.get` or `temp.get`, though `:182` says
  it is looked for there.
- `search_env` (`core/payload/utils/tools.py:18`) asks the nearest referenced case
  only: a case in the environment of a case that has its own takes its datasets from the
  main case's environment and its variables from the other's.
- A `case` takes the rows (`data`) of its dataset's entry, or of the default's where the
  entry depends on it (`core/payload/node_executor/case.py:37`). A `multitasker` iterates
  the entry itself (`multitasker.py:37`, `:55`, `:65`): it makes an iteration for each key of the
  mapping, whose `temp_variables` are that key, a text; whatever looks a variable up below raises.
- `core/payload/variables_controller/variable.py:51` allows for a project without a mapping, and
  `:53` calls `get` on its None.

Resources

- `core/ast_file/core.py:37` says a covered file is written to the original. The
  coroutine that writes it is not awaited (`:49`), so the file keeps its content.
- `AsyncExcel.async_load` of bytes always fails: `AstFile.load` returns None.
- A system file is found by the first full name that contains the name asked for
  (`core/ast_file/core.py:93`), not by the one that equals it.
- Overlapping scripts restore each other's recursion limit, and the process keeps 100
  (`core/customer_script/execute.py:82`).
- Two steps that create the pool of one configuration at once leave one open and
  unknown (`core/task_object/database_client.py:18`); the `close` of a pool of
  aiomysql is no coroutine, and awaiting its result stops the closings.

## Not modelled

- Timestamps, wording and layout of the records, and the static path index.
- The parsing of requests into task objects, of texts into pieces, and of scripts:
  data conversion without state. The parser's result is what `Replace` starts from.
- `core/utils/mock_func.py` and the formatting of `pipeline_func.py`: random generators and
  functions of a single value; a property could only repeat the range each draws from.
- The sandbox's list of forbidden imports and calls; the sleep of `delay`; what a
  workbook holds; what a database answers.
- The pool of the server's synchronous redis client, which every import closes and the next
  request makes again: one request is handled at a time.
- The awaited announcements of a loop (`case.py:66`, `multitasker.py:54`, `:62`) and of the
  steps' cores other than interface and script: they are writes to a list like those that are
  modelled. A second record in the store.
- What nothing calls: the lock of `redis_client.py` and the counter it protects, the
  deletion of keys, the asynchronous import.
- In `Execution` redis is up, so that the awaits on it return; a redis error makes a
  callback raise, which `AsyncContext` covers with `CallbackFails` and `ErrorFails`, and
  `Recording` with the restart of redis.
