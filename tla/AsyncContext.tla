---------------------------- MODULE AsyncContext ----------------------------
(***************************************************************************)
(* The scheduler of core/controller/async_task_runner.py.  Every executor  *)
(* (task, case, child case, step) is run by AsyncContext._run_task: a      *)
(* before callback, the body under one shared semaphore, then a closing    *)
(* callback (after_callback or skipped_callback) or error_callback.  The   *)
(* body of a parent runs the executors of its deque while it still holds   *)
(* its permit.                                                             *)
(*                                                                         *)
(* What a callback or a body computes is left to the module Execution;     *)
(* here each of them may only return or raise.                             *)
(***************************************************************************)
EXTENDS Naturals, Sequences, FiniteSets

CONSTANTS
  Executor,       \* every executor of one task execution
  Root,           \* the RunTaskExecutor
  Kids,           \* Kids[e] is the deque of executors that e's body runs
  Mode,           \* how it runs them: "sequential", "concurrent" or "none"
  Permits,        \* MAX_CONCURRENCY, the initial value of the semaphore
  BeforeFails,    \* executors whose before_callback may raise
  RunFails,       \* executors whose own part of run() may raise
  CallbackFails,  \* executors whose after_/skipped_callback may raise
  ErrorFails,     \* executors whose error_callback(e, node) may raise
  Fragile         \* executors whose error_callback(e) raises without a node

Children(e) == {Kids[e][i] : i \in DOMAIN Kids[e]}

(* The executors form a tree: no executor is queued twice.                 *)
ASSUME TreeAssumption ==
  /\ IsFiniteSet(Executor)
  /\ Root \in Executor
  /\ Kids \in [Executor -> Seq(Executor)]
  /\ \A p, q \in Executor : \A i \in DOMAIN Kids[p], j \in DOMAIN Kids[q] :
        Kids[p][i] = Kids[q][j] => p = q /\ i = j
  /\ \A p \in Executor : Root \notin Children(p)

ASSUME ParameterAssumption ==
  /\ Permits \in Nat \ {0}
  /\ Mode \in [Executor -> {"sequential", "concurrent", "none"}]
  /\ BeforeFails \subseteq Executor
  /\ RunFails \subseteq Executor
  /\ CallbackFails \subseteq Executor
  /\ ErrorFails \subseteq Executor
  /\ Fragile \subseteq Executor

VARIABLES
  phase,     \* where _run_task(e) is
  queue,     \* the part of e's deque that has not been popped
  value,     \* Semaphore._value
  waiters,   \* Semaphore._waiters, oldest first
  woken,     \* how many of the first waiters already have their result set
  tasks,     \* AsyncContext.tasks: what run_concurrently has created
  runner,    \* where TaskRunner.run is
  drained    \* what wait_for_dynamic_tasks gathers

semaphore == <<value, waiters, woken>>
vars == <<phase, queue, value, waiters, woken, tasks, runner, drained>>

Phase == {"idle", "before", "waiting", "core", "children", "closing",
          "erroring", "done", "raised"}

Queued(e) == {queue[e][i] : i \in DOMAIN queue[e]}

Finished == {"done", "raised"}
Active(e) == phase[e] \notin Finished \cup {"idle"}
Holders == {e \in Executor : phase[e] \in {"core", "children"}}

Goto(e, from, to) ==
  /\ phase[e] = from
  /\ phase' = [phase EXCEPT ![e] = to]

-----------------------------------------------------------------------------
(* asyncio.Semaphore.  A release hands its permit to the first waiter whose *)
(* future is not done yet; the waiter leaves the deque when it resumes, and *)
(* then wakes as many others as the value still allows.                     *)

(* Seeded fault: the permit goes back to the semaphore and nobody is woken.  *)
ReleaseWithoutWaking ==
  /\ value' = value + 1
  /\ UNCHANGED <<waiters, woken>>

Release ==
  /\ IF woken < Len(waiters)
       THEN woken' = woken + 1 /\ value' = value
       ELSE woken' = woken /\ value' = value + 1
  /\ waiters' = waiters

Least(m, n) == IF m <= n THEN m ELSE n

(* before_callback returns and the semaphore is not locked().              *)
AcquireNow(e) ==
  /\ value > 0
  /\ waiters = <<>>
  /\ Goto(e, "before", "core")
  /\ value' = value - 1
  /\ UNCHANGED <<queue, waiters, woken, tasks, runner, drained>>

(* before_callback returns and the semaphore is locked(): also when it has  *)
(* a positive value and an older waiter has not resumed yet.                *)
AcquireWait(e) ==
  /\ value = 0 \/ waiters # <<>>
  /\ Goto(e, "before", "waiting")
  /\ waiters' = Append(waiters, e)
  /\ UNCHANGED <<queue, value, woken, tasks, runner, drained>>

(* Seeded faults of Resume: it wakes nobody; it sets results no waiter has;  *)
(* it leaves its own future in the deque.                                    *)
ResumeAlone(e) ==
  /\ woken > 0
  /\ e = Head(waiters)
  /\ Goto(e, "waiting", "core")
  /\ waiters' = Tail(waiters)
  /\ woken' = woken - 1
  /\ UNCHANGED <<queue, value, tasks, runner, drained>>

ResumeOverwaking(e) ==
  /\ woken > 0
  /\ e = Head(waiters)
  /\ Goto(e, "waiting", "core")
  /\ waiters' = Tail(waiters)
  /\ woken' = woken - 1 + value
  /\ value' = 0
  /\ UNCHANGED <<queue, tasks, runner, drained>>

ResumeStaying(e) ==
  /\ woken > 0
  /\ e = Head(waiters)
  /\ Goto(e, "waiting", "core")
  /\ woken' = woken - 1
  /\ UNCHANGED <<queue, value, waiters, tasks, runner, drained>>

Resume(e) ==
  /\ woken > 0
  /\ e = Head(waiters)
  /\ Goto(e, "waiting", "core")
  /\ waiters' = Tail(waiters)
  /\ LET more == Least(value, Len(waiters) - woken)
     IN  /\ woken' = woken - 1 + more
         /\ value' = value - more
  /\ UNCHANGED <<queue, tasks, runner, drained>>

-----------------------------------------------------------------------------
(* _run_task and the two ways a body runs its children.                     *)

(* error_callback(e) is called without the node before_callback would have  *)
(* returned; a Fragile executor raises out of it at once.                   *)
BeforeRaises(e) ==
  /\ e \in BeforeFails
  /\ Goto(e, "before", IF e \in Fragile THEN "raised" ELSE "erroring")
  /\ UNCHANGED <<queue, semaphore, tasks, runner, drained>>

CoreReturns(e) ==
  /\ Goto(e, "core", "children")
  /\ UNCHANGED <<queue, semaphore, tasks, runner, drained>>

(* Seeded fault: the semaphore is not left on the exception path.            *)
CoreRaisesKeepingPermit(e) ==
  /\ e \in RunFails
  /\ Goto(e, "core", "erroring")
  /\ UNCHANGED <<queue, semaphore, tasks, runner, drained>>

CoreRaises(e) ==
  /\ e \in RunFails
  /\ Goto(e, "core", "erroring")
  /\ Release
  /\ UNCHANGED <<queue, tasks, runner, drained>>

(* Seeded fault: each _run_task is started without awaiting the one before.  *)
StartNextAtOnce(e) ==
  /\ phase[e] = "children"
  /\ Mode[e] = "sequential"
  /\ queue[e] # <<>>
  /\ phase' = [phase EXCEPT ![Head(queue[e])] = "before"]
  /\ queue' = [queue EXCEPT ![e] = Tail(@)]
  /\ UNCHANGED <<semaphore, tasks, runner, drained>>

(* Seeded fault: the executor stays in the deque and is run over again.      *)
StartNextAgain(e) ==
  /\ phase[e] = "children"
  /\ Mode[e] = "sequential"
  /\ queue[e] # <<>>
  /\ \A c \in Children(e) : phase[c] \in {"idle", "done"}
  /\ phase' = [phase EXCEPT ![Head(queue[e])] = "before"]
  /\ UNCHANGED <<queue, semaphore, tasks, runner, drained>>

(* run_sequentially: the next executor of the deque, once the one before it *)
(* has returned.                                                            *)
StartNext(e) ==
  /\ phase[e] = "children"
  /\ Mode[e] = "sequential"
  /\ queue[e] # <<>>
  /\ \A c \in Children(e) : phase[c] \in {"idle", "done"}
  /\ phase' = [phase EXCEPT ![Head(queue[e])] = "before"]
  /\ queue' = [queue EXCEPT ![e] = Tail(@)]
  /\ UNCHANGED <<semaphore, tasks, runner, drained>>

(* run_concurrently: one asyncio task for each executor of the deque.       *)
StartAll(e) ==
  /\ phase[e] = "children"
  /\ Mode[e] = "concurrent"
  /\ queue[e] # <<>>
  /\ phase' = [c \in Executor |-> IF c \in Queued(e) THEN "before" ELSE phase[c]]
  /\ queue' = [queue EXCEPT ![e] = <<>>]
  /\ tasks' = tasks \cup Queued(e)
  /\ UNCHANGED <<semaphore, runner, drained>>

(* A child's exception surfaces in the parent's body: through the await of  *)
(* run_sequentially, or through gather, which does not wait for the others. *)
ChildRaises(e) ==
  /\ \E c \in Children(e) : phase[c] = "raised"
  /\ Goto(e, "children", "erroring")
  /\ Release
  /\ UNCHANGED <<queue, tasks, runner, drained>>

(* Seeded fault: the group of a concurrent loop is not awaited.              *)
RunReturnsAtOnce(e) ==
  /\ queue[e] = <<>> \/ Mode[e] = "none"
  /\ Goto(e, "children", "closing")
  /\ Release
  /\ UNCHANGED <<queue, tasks, runner, drained>>

(* The body returns and the permit is released.  A loop strategy that is    *)
(* neither of the two returns without running anything.                     *)
RunReturns(e) ==
  /\ queue[e] = <<>> \/ Mode[e] = "none"
  /\ \A c \in Children(e) : phase[c] \in {"idle", "done"}
  /\ Goto(e, "children", "closing")
  /\ Release
  /\ UNCHANGED <<queue, tasks, runner, drained>>

CallbackReturns(e) ==
  /\ Goto(e, "closing", "done")
  /\ UNCHANGED <<queue, semaphore, tasks, runner, drained>>

CallbackRaises(e) ==
  /\ e \in CallbackFails
  /\ Goto(e, "closing", "erroring")
  /\ UNCHANGED <<queue, semaphore, tasks, runner, drained>>

ErrorReturns(e) ==
  /\ Goto(e, "erroring", "done")
  /\ UNCHANGED <<queue, semaphore, tasks, runner, drained>>

ErrorRaises(e) ==
  /\ e \in ErrorFails
  /\ Goto(e, "erroring", "raised")
  /\ UNCHANGED <<queue, semaphore, tasks, runner, drained>>

-----------------------------------------------------------------------------
(* TaskRunner.run: the top-level task, then every dynamically added one.    *)

(* wait_for_dynamic_tasks hands gather the tasks there are when it is called: *)
(* one created while it waits is not among them.                             *)
TopLevelReturns ==
  /\ runner = "running"
  /\ phase[Root] = "done"
  /\ runner' = "draining"
  /\ drained' = tasks
  /\ UNCHANGED <<phase, queue, semaphore, tasks>>

TopLevelRaises ==
  /\ runner = "running"
  /\ phase[Root] = "raised"
  /\ runner' = "failed"
  /\ UNCHANGED <<phase, queue, semaphore, tasks, drained>>

(* Seeded fault: run() does not gather the tasks it has collected.           *)
DrainNothing ==
  /\ runner = "draining"
  /\ runner' = "ended"
  /\ UNCHANGED <<phase, queue, semaphore, tasks, drained>>

DrainReturns ==
  /\ runner = "draining"
  /\ \A t \in drained : phase[t] = "done"
  /\ runner' = "ended"
  /\ UNCHANGED <<phase, queue, semaphore, tasks, drained>>

(* gather without return_exceptions raises the first exception it sees.     *)
DrainRaises ==
  /\ runner = "draining"
  /\ \E t \in drained : phase[t] = "raised"
  /\ runner' = "failed"
  /\ UNCHANGED <<phase, queue, semaphore, tasks, drained>>

Over == runner \in {"ended", "failed"}

Quiescent ==
  /\ Over
  /\ \A e \in Executor : ~Active(e)
  /\ UNCHANGED vars

-----------------------------------------------------------------------------
Init ==
  /\ phase = [e \in Executor |-> IF e = Root THEN "before" ELSE "idle"]
  /\ queue = Kids
  /\ value = Permits
  /\ waiters = <<>>
  /\ woken = 0
  /\ tasks = {}
  /\ runner = "running"
  /\ drained = {}

Callback(e) ==
  \/ BeforeRaises(e)
  \/ CallbackReturns(e)
  \/ CallbackRaises(e)
  \/ ErrorReturns(e)
  \/ ErrorRaises(e)

Body(e) ==
  \/ CoreReturns(e)
  \/ CoreRaises(e)
  \/ StartNext(e)
  \/ StartAll(e)
  \/ ChildRaises(e)
  \/ RunReturns(e)

Admission(e) ==
  \/ AcquireNow(e)
  \/ AcquireWait(e)
  \/ Resume(e)

RunTask(e) == Callback(e) \/ Body(e) \/ Admission(e)

TaskRunner == TopLevelReturns \/ TopLevelRaises \/ DrainReturns \/ DrainRaises

Next == (\E e \in Executor : RunTask(e)) \/ TaskRunner \/ Quiescent

Spec == Init /\ [][Next]_vars

(* The event loop steps every ready coroutine, and every callback and body  *)
(* returns or raises.                                                       *)
Fairness ==
  /\ \A e \in Executor : WF_vars(RunTask(e))
  /\ WF_vars(TaskRunner)

FairSpec == Spec /\ Fairness

-----------------------------------------------------------------------------
TypeOK ==
  /\ phase \in [Executor -> Phase]
  /\ queue \in [Executor -> Seq(Executor)]
  /\ value \in Nat
  /\ waiters \in Seq(Executor)
  /\ woken \in 0..Len(waiters)
  /\ tasks \subseteq Executor /\ drained \subseteq tasks
  /\ runner \in {"running", "draining", "ended", "failed"}

(* No permit is lost or made up: those in the semaphore, those handed to a  *)
(* waiter that has not resumed and those of the bodies being run add up to  *)
(* max_concurrency, on every path out of `async with self.semaphore`.       *)
PermitsConserved == value + woken + Cardinality(Holders) = Permits

(* The semaphore's deque holds exactly the coroutines suspended in acquire. *)
WaitersSuspended ==
  /\ \A e \in Executor :
        phase[e] = "waiting" <=> \E i \in DOMAIN waiters : waiters[i] = e
  /\ \A i, j \in DOMAIN waiters : waiters[i] = waiters[j] => i = j

(* No executor is started twice: what a deque still holds has not started    *)
(* and is in no other place of a deque.                                      *)
QueuedOnce ==
  /\ \A p \in Executor : \A c \in Queued(p) : phase[c] = "idle"
  /\ \A p, q \in Executor : \A i \in DOMAIN queue[p], j \in DOMAIN queue[q] :
        queue[p][i] = queue[q][j] => p = q /\ i = j

(* No lost wake-up: when a permit is free and a coroutine is suspended with *)
(* no result set, an older waiter is about to resume and will wake it.      *)
NoLostWakeup == value > 0 /\ woken < Len(waiters) => woken > 0

(* Hold-and-wait cannot use up the semaphore when there are more permits     *)
(* than executors with children: a suspended coroutine always coexists with  *)
(* a permit on its way to a waiter or with a holder that needs no other.     *)
ParentsLeaveAPermit ==
  waiters # <<>> =>
    woken > 0 \/ \E e \in Holders : phase[e] = "core" \/ Kids[e] = <<>>

EnoughPermits == Permits > Cardinality({e \in Executor : Kids[e] # <<>>})

(* _run_task never leaves a child behind unless a sibling's exception made  *)
(* the parent's body stop waiting: an executor that is active has a parent  *)
(* still inside its body, or one with a child that raised.                  *)
ActiveChildAwaited ==
  \A p \in Executor : \A c \in Children(p) :
    Active(c) => \/ phase[p] = "children"
                 \/ \E d \in Children(p) : phase[d] = "raised"

(* TaskRunner.run returns normally only when every executor that was ever   *)
(* started has finished, however deep it was created: what the drain does   *)
(* not gather, a child an exception left behind may still be starting, and  *)
(* then that exception is among what it does gather.                        *)
NormalEndIsComplete == runner = "ended" => \A e \in Executor : ~Active(e)

(* TaskRunner.run returns or raises in the end: nobody waits for a permit    *)
(* whose holders all wait too, or for a child that never finishes.           *)
Termination == <>Over

-----------------------------------------------------------------------------
(* The scheduler implements ForkJoin as long as no exception leaves an       *)
(* error_callback.                                                          *)

NoEscape == ErrorFails = {} /\ BeforeFails \cap Fragile = {}

ForkJoinState ==
  [e \in Executor |->
     CASE phase[e] = "idle"       -> "idle"
       [] phase[e] \in Finished   -> "closed"
       [] OTHER                   -> "open"]

Sequential == {e \in Executor : Mode[e] = "sequential"}

FJ == INSTANCE ForkJoin WITH Node <- Executor, state <- ForkJoinState

(* Every step of the scheduler is a fork, a join or invisible in ForkJoin:   *)
(* the permits, the wake-ups and the callbacks in between never let a child  *)
(* run outside its parent or a sequential sibling out of turn.               *)
ImplementsForkJoin == FJ!Spec

(* The children of a sequential executor run in the order of its deque, each *)
(* only after the one before has finished, error callback included.          *)
SequentialInOrder == FJ!InOrder

=============================================================================
