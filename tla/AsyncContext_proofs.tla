------------------------ MODULE AsyncContext_proofs ------------------------
(* Proofs about AsyncContext, for every tree of executors and every number   *)
(* of permits.                                                               *)
EXTENDS AsyncContext, FiniteSetTheorems, SequenceTheorems, TLAPS

-----------------------------------------------------------------------------
(* Type correctness.                                                         *)

LEMMA ChildrenAreExecutors ==
  \A e \in Executor : Children(e) \subseteq Executor
BY TreeAssumption DEF Children

(* A release keeps the semaphore well typed.                                 *)
LEMMA ReleaseTypeOK ==
  ASSUME TypeOK, Release
  PROVE  value' \in Nat /\ waiters' \in Seq(Executor) /\ woken' \in 0..Len(waiters')
BY DEF TypeOK, Release

(* Moving one executor to another phase keeps the function of phases.        *)
LEMMA GotoTypeOK ==
  ASSUME TypeOK, NEW e \in Executor, NEW from, NEW to \in Phase, Goto(e, from, to)
  PROVE  phase' \in [Executor -> Phase]
BY DEF TypeOK, Goto

LEMMA InitTypeOK == Init => TypeOK
BY TreeAssumption, ParameterAssumption DEF Init, TypeOK, Phase

LEMMA NextTypeOK == TypeOK /\ [Next]_vars => TypeOK'
<1> SUFFICES ASSUME TypeOK, [Next]_vars PROVE TypeOK'
  OBVIOUS
<1>1. ASSUME NEW e \in Executor, Callback(e) PROVE TypeOK'
  <2>1. ASSUME NEW from, NEW to \in Phase, Goto(e, from, to),
               UNCHANGED <<queue, semaphore, tasks, runner, drained>>
        PROVE  TypeOK'
    BY <2>1, GotoTypeOK DEF TypeOK, semaphore
  <2>2. {"erroring", "raised", "done"} \subseteq Phase
    BY DEF Phase
  <2> QED
    BY <1>1, <2>1, <2>2 DEF Callback, BeforeRaises, CallbackReturns,
       CallbackRaises, ErrorReturns, ErrorRaises
<1>2. ASSUME NEW e \in Executor, Body(e) PROVE TypeOK'
  <2>1. CASE CoreReturns(e)
    <3>1. "children" \in Phase
      BY DEF Phase
    <3> QED
      BY <2>1, <3>1, GotoTypeOK DEF CoreReturns, TypeOK, semaphore
  <2>2. CASE CoreRaises(e) \/ ChildRaises(e) \/ RunReturns(e)
    <3>1. phase' \in [Executor -> Phase]
      <4>1. {"erroring", "closing"} \subseteq Phase
        BY DEF Phase
      <4> QED
        BY <2>2, <4>1, GotoTypeOK DEF CoreRaises, ChildRaises, RunReturns
    <3>2. Release /\ UNCHANGED <<queue, tasks, runner, drained>>
      BY <2>2 DEF CoreRaises, ChildRaises, RunReturns
    <3> QED
      BY <3>1, <3>2, ReleaseTypeOK DEF TypeOK
  <2>3. CASE StartNext(e)
    <3>1. Head(queue[e]) \in Executor /\ Tail(queue[e]) \in Seq(Executor)
      BY <2>3, HeadTailProperties DEF StartNext, TypeOK
    <3>2. phase' \in [Executor -> Phase] /\ queue' \in [Executor -> Seq(Executor)]
      BY <2>3, <3>1 DEF StartNext, TypeOK, Phase
    <3> QED
      BY <2>3, <3>2 DEF StartNext, TypeOK, semaphore
  <2>4. CASE StartAll(e)
    <3>1. phase' \in [Executor -> Phase]
      BY <2>4 DEF StartAll, TypeOK, Phase
    <3>2. queue' \in [Executor -> Seq(Executor)]
      BY <2>4 DEF StartAll, TypeOK
    <3>3. tasks' \subseteq Executor /\ drained' \subseteq tasks'
      BY <2>4 DEF StartAll, TypeOK, Queued
    <3> QED
      BY <2>4, <3>1, <3>2, <3>3 DEF StartAll, TypeOK, semaphore
  <2> QED
    BY <1>2, <2>1, <2>2, <2>3, <2>4 DEF Body
<1>3. ASSUME NEW e \in Executor, Admission(e) PROVE TypeOK'
  <2>1. {"core", "waiting"} \subseteq Phase
    BY DEF Phase
  <2>2. CASE AcquireNow(e)
    BY <2>1, <2>2, GotoTypeOK DEF AcquireNow, TypeOK
  <2>3. CASE AcquireWait(e)
    <3>1. waiters' \in Seq(Executor) /\ Len(waiters') = Len(waiters) + 1
      BY <2>3 DEF AcquireWait, TypeOK
    <3>2. woken' \in 0..Len(waiters')
      BY <2>3, <3>1 DEF AcquireWait, TypeOK
    <3> QED
      BY <2>1, <2>3, <3>1, <3>2, GotoTypeOK DEF AcquireWait, TypeOK
  <2>4. CASE Resume(e)
    <3>1. waiters # <<>> /\ Len(waiters) \in Nat
      BY <2>4 DEF Resume, TypeOK
    <3>2. waiters' \in Seq(Executor) /\ Len(waiters') = Len(waiters) - 1
      BY <2>4, <3>1, HeadTailProperties DEF Resume, TypeOK
    <3>3. woken' \in 0..Len(waiters') /\ value' \in Nat
      BY <2>4, <3>1, <3>2 DEF Resume, Least, TypeOK
    <3> QED
      BY <2>1, <2>4, <3>2, <3>3, GotoTypeOK DEF Resume, TypeOK
  <2> QED
    BY <1>3, <2>2, <2>3, <2>4 DEF Admission
<1>4. CASE TaskRunner
  BY <1>4 DEF TaskRunner, TopLevelReturns, TopLevelRaises, DrainReturns,
     DrainRaises, TypeOK, semaphore
<1>5. CASE Quiescent \/ UNCHANGED vars
  BY <1>5 DEF Quiescent, vars, TypeOK
<1> QED
  BY <1>1, <1>2, <1>3, <1>4, <1>5 DEF Next, RunTask

(* Every reachable state is well typed; woken never exceeds the number of    *)
(* suspended coroutines.                                                     *)
THEOREM TypeCorrectness == Spec => []TypeOK
<1>1. Init => TypeOK
  BY InitTypeOK
<1>2. TypeOK /\ [Next]_vars => TypeOK'
  BY NextTypeOK
<1> QED
  BY <1>1, <1>2, PTL DEF Spec

-----------------------------------------------------------------------------
(* No executor is started twice.                                             *)

LEMMA InitQueuedOnce == Init => QueuedOnce
BY TreeAssumption DEF Init, QueuedOnce, Queued, Children

(* An executor that has left "idle" is in no deque, so its moves do not      *)
(* matter to the deques.                                                     *)
LEMMA GotoQueuedOnce ==
  ASSUME TypeOK, QueuedOnce, NEW e \in Executor, NEW from, NEW to,
         Goto(e, from, to), from # "idle", UNCHANGED queue
  PROVE  QueuedOnce'
BY DEF TypeOK, QueuedOnce, Queued, Goto

LEMMA NextQueuedOnce == TypeOK /\ QueuedOnce /\ [Next]_vars => QueuedOnce'
<1> SUFFICES ASSUME TypeOK, QueuedOnce, [Next]_vars PROVE QueuedOnce'
  OBVIOUS
<1>1. ASSUME NEW e \in Executor, Callback(e) PROVE QueuedOnce'
  BY <1>1, GotoQueuedOnce DEF Callback, BeforeRaises, CallbackReturns,
     CallbackRaises, ErrorReturns, ErrorRaises
<1>2. ASSUME NEW e \in Executor, Body(e) PROVE QueuedOnce'
  <2>1. CASE CoreReturns(e) \/ CoreRaises(e) \/ ChildRaises(e) \/ RunReturns(e)
    BY <2>1, GotoQueuedOnce DEF CoreReturns, CoreRaises, ChildRaises, RunReturns
  <2>2. CASE StartNext(e)
    <3> DEFINE first == Head(queue[e])
               old(p, i) == IF p = e THEN i + 1 ELSE i
    <3>1. /\ first = queue[e][1] /\ first \in Executor
          /\ 1 \in DOMAIN queue[e]
          /\ Tail(queue[e]) \in Seq(Executor)
          /\ Len(Tail(queue[e])) = Len(queue[e]) - 1
          /\ \A i \in 1..Len(Tail(queue[e])) : Tail(queue[e])[i] = queue[e][i + 1]
      BY <2>2, HeadTailProperties DEF StartNext, TypeOK
    <3>2. /\ phase' = [phase EXCEPT ![first] = "before"]
          /\ queue' = [queue EXCEPT ![e] = Tail(queue[e])]
      BY <2>2 DEF StartNext
    <3> HIDE DEF first
    <3>3. \A p \in Executor : \A i \in DOMAIN queue'[p] :
             /\ old(p, i) \in DOMAIN queue[p]
             /\ queue'[p][i] = queue[p][old(p, i)]
             /\ p = e => old(p, i) # 1
      <4> SUFFICES ASSUME NEW p \in Executor, NEW i \in DOMAIN queue'[p]
                   PROVE  /\ old(p, i) \in DOMAIN queue[p]
                          /\ queue'[p][i] = queue[p][old(p, i)]
                          /\ p = e => old(p, i) # 1
        OBVIOUS
      <4>1. CASE p = e
        <5>1. queue'[e] = Tail(queue[e]) /\ i \in 1..Len(Tail(queue[e]))
          BY <3>1, <3>2, <4>1 DEF TypeOK
        <5>2. Len(queue[e]) \in Nat /\ DOMAIN queue[e] = 1..Len(queue[e])
          BY DEF TypeOK
        <5> QED
          BY <3>1, <4>1, <5>1, <5>2
      <4>2. CASE p # e
        BY <3>2, <4>2 DEF TypeOK
      <4> QED
        BY <4>1, <4>2
    <3>4. \A p \in Executor : \A i \in DOMAIN queue'[p] : queue'[p][i] # first
      BY <3>1, <3>3 DEF QueuedOnce
    <3>5. \A p \in Executor : \A i \in DOMAIN queue[p] : phase[queue[p][i]] = "idle"
      BY DEF QueuedOnce, Queued
    <3>6. \A p \in Executor : \A i \in DOMAIN queue'[p] : phase'[queue'[p][i]] = "idle"
      <4> SUFFICES ASSUME NEW p \in Executor, NEW i \in DOMAIN queue'[p]
                   PROVE  phase'[queue'[p][i]] = "idle"
        OBVIOUS
      <4> DEFINE c == queue'[p][i]
      <4>1. c = queue[p][old(p, i)] /\ old(p, i) \in DOMAIN queue[p] /\ c # first
        BY <3>3, <3>4
      <4>2. c \in Executor
        BY <4>1 DEF TypeOK
      <4>3. phase[c] = "idle"
        BY <3>5, <4>1
      <4> HIDE DEF c
      <4> QED
        BY <3>2, <4>1, <4>2, <4>3 DEF TypeOK
    <3>7. \A p, q \in Executor : \A i \in DOMAIN queue'[p], j \in DOMAIN queue'[q] :
             queue'[p][i] = queue'[q][j] => p = q /\ old(p, i) = old(q, j)
      BY <3>3 DEF QueuedOnce
    <3>8. \A p, q \in Executor : \A i \in DOMAIN queue'[p], j \in DOMAIN queue'[q] :
             queue'[p][i] = queue'[q][j] => p = q /\ i = j
      <4>1. \A p \in Executor : DOMAIN queue'[p] \subseteq Int
        BY <3>1, <3>2 DEF TypeOK
      <4> QED
        BY <3>7, <4>1
    <3> QED
      BY <3>6, <3>8 DEF QueuedOnce, Queued
  <2>3. CASE StartAll(e)
    BY <2>3 DEF StartAll, TypeOK, QueuedOnce, Queued
  <2> QED
    BY <1>2, <2>1, <2>2, <2>3 DEF Body
<1>3. ASSUME NEW e \in Executor, Admission(e) PROVE QueuedOnce'
  BY <1>3, GotoQueuedOnce DEF Admission, AcquireNow, AcquireWait, Resume
<1>4. CASE TaskRunner \/ Quiescent \/ UNCHANGED vars
  <2>1. UNCHANGED <<phase, queue>>
    BY <1>4 DEF TaskRunner, TopLevelReturns, TopLevelRaises, DrainReturns,
       DrainRaises, Quiescent, vars
  <2> QED
    BY <2>1 DEF QueuedOnce, Queued
<1> QED
  BY <1>1, <1>2, <1>3, <1>4 DEF Next, RunTask

(* Whatever the deques and the exceptions, _run_task is called at most once  *)
(* for an executor.                                                          *)
THEOREM StartedOnce == Spec => []QueuedOnce
<1>1. Init => QueuedOnce
  BY InitQueuedOnce
<1>2. TypeOK /\ QueuedOnce /\ [Next]_vars => QueuedOnce'
  BY NextQueuedOnce
<1> QED
  BY <1>1, <1>2, TypeCorrectness, PTL DEF Spec

-----------------------------------------------------------------------------
(* The semaphore: no permit is lost, no wake-up is lost.                     *)

Permit == PermitsConserved /\ NoLostWakeup

LEMMA HoldersFinite == IsFiniteSet(Holders) /\ Cardinality(Holders) \in Nat
BY TreeAssumption, FS_Subset, FS_CardinalityType DEF Holders

(* How a move of one executor changes the set of holders.                    *)
LEMMA EnterCore ==
  ASSUME TypeOK, NEW e \in Executor, NEW from \in Phase \ {"core", "children"},
         Goto(e, from, "core")
  PROVE  Cardinality(Holders') = Cardinality(Holders) + 1
<1>1. e \notin Holders
  BY DEF Goto, Holders
<1>2. Holders' = Holders \cup {e}
  BY DEF Goto, Holders, TypeOK
<1> QED
  BY <1>1, <1>2, HoldersFinite, FS_AddElement

LEMMA LeaveCore ==
  ASSUME TypeOK, NEW e \in Executor, NEW from \in {"core", "children"},
         NEW to \in Phase \ {"core", "children"}, Goto(e, from, to)
  PROVE  Cardinality(Holders') = Cardinality(Holders) - 1
<1>1. e \in Holders
  BY DEF Goto, Holders
<1>2. Holders' = Holders \ {e}
  BY DEF Goto, Holders, TypeOK
<1> QED
  BY <1>1, <1>2, HoldersFinite, FS_RemoveElement

LEMMA SameHolders ==
  ASSUME TypeOK, NEW e \in Executor, NEW from, NEW to, Goto(e, from, to),
         from \in {"core", "children"} <=> to \in {"core", "children"}
  PROVE  Holders' = Holders
BY DEF Goto, Holders, TypeOK

(* A release that finds somebody to wake wakes him.                          *)
LEMMA ReleaseWakes ==
  ASSUME TypeOK, Release, NoLostWakeup
  PROVE  NoLostWakeup'
<1>1. woken \in Nat /\ Len(waiters) \in Nat
  BY DEF TypeOK
<1>2. CASE woken < Len(waiters)
  BY <1>1, <1>2 DEF Release, NoLostWakeup
<1>3. CASE ~(woken < Len(waiters))
  BY <1>1, <1>3 DEF Release, NoLostWakeup
<1> QED
  BY <1>2, <1>3

(* Starting an executor of a deque, which has not started yet, changes       *)
(* nobody's hold on a permit.                                                *)
LEMMA StartKeepsHolders ==
  ASSUME TypeOK, QueuedOnce, NEW e \in Executor, StartNext(e) \/ StartAll(e)
  PROVE  Holders' = Holders
<1>1. CASE StartNext(e)
  <2> DEFINE c == Head(queue[e])
  <2>1. c \in Executor /\ phase[c] = "idle"
    <3>1. c \in Executor /\ 1 \in DOMAIN queue[e] /\ c = queue[e][1]
      BY <1>1 DEF StartNext, TypeOK
    <3> QED
      BY <3>1 DEF QueuedOnce, Queued
  <2>2. phase' = [phase EXCEPT ![c] = "before"]
    BY <1>1 DEF StartNext
  <2> HIDE DEF c
  <2> QED
    BY <2>1, <2>2 DEF Holders, TypeOK
<1>2. CASE StartAll(e)
  <2>1. \A c \in Queued(e) : phase[c] = "idle"
    BY DEF QueuedOnce
  <2> QED
    BY <1>2, <2>1 DEF StartAll, Holders, TypeOK
<1> QED
  BY <1>1, <1>2

LEMMA InitPermit == Init => Permit
<1> SUFFICES ASSUME Init PROVE Permit
  OBVIOUS
<1>1. Holders = {}
  BY DEF Init, Holders
<1>2. Cardinality(Holders) = 0
  BY <1>1, FS_EmptySet
<1> QED
  BY <1>2, ParameterAssumption DEF Init, Permit, PermitsConserved, NoLostWakeup

LEMMA NextPermit == TypeOK /\ QueuedOnce /\ Permit /\ [Next]_vars => Permit'
<1> SUFFICES ASSUME TypeOK, QueuedOnce, Permit, [Next]_vars PROVE Permit'
  OBVIOUS
<1>h. value \in Nat /\ woken \in Nat /\ Len(waiters) \in Nat /\ Permits \in Nat
      /\ Cardinality(Holders) \in Nat
  BY HoldersFinite, ParameterAssumption DEF TypeOK
<1>s. ASSUME Holders' = Holders, UNCHANGED semaphore PROVE Permit'
  BY <1>s DEF Permit, PermitsConserved, NoLostWakeup, semaphore
<1>1. ASSUME NEW e \in Executor, Callback(e) PROVE Permit'
  <2>1. UNCHANGED semaphore
    BY <1>1 DEF Callback, BeforeRaises, CallbackReturns, CallbackRaises,
       ErrorReturns, ErrorRaises
  <2>2. Holders' = Holders
    BY <1>1, SameHolders DEF Callback, BeforeRaises, CallbackReturns,
       CallbackRaises, ErrorReturns, ErrorRaises
  <2> QED
    BY <2>1, <2>2, <1>s
<1>2. ASSUME NEW e \in Executor, Body(e) PROVE Permit'
  <2>1. CASE CoreReturns(e)
    BY <2>1, <1>s, SameHolders DEF CoreReturns
  <2>2. CASE CoreRaises(e) \/ ChildRaises(e) \/ RunReturns(e)
    <3>1. Release
      BY <2>2 DEF CoreRaises, ChildRaises, RunReturns
    <3>2. Cardinality(Holders') = Cardinality(Holders) - 1
      <4>1. {"erroring", "closing"} \subseteq Phase \ {"core", "children"}
        BY DEF Phase
      <4> QED
        BY <2>2, <4>1, LeaveCore DEF CoreRaises, ChildRaises, RunReturns
    <3>3. \/ value' = value /\ woken' = woken + 1
          \/ value' = value + 1 /\ woken' = woken
      BY <3>1 DEF Release
    <3>4. PermitsConserved
      BY DEF Permit
    <3>5. PermitsConserved'
      BY <3>2, <3>3, <3>4, <1>h DEF PermitsConserved
    <3> QED
      BY <3>1, <3>5, ReleaseWakes DEF Permit
  <2>3. CASE StartNext(e) \/ StartAll(e)
    BY <2>3, <1>s, StartKeepsHolders DEF StartNext, StartAll
  <2> QED
    BY <1>2, <2>1, <2>2, <2>3 DEF Body
<1>3. ASSUME NEW e \in Executor, Admission(e) PROVE Permit'
  <2>0. {"before", "waiting"} \subseteq Phase \ {"core", "children"}
    BY DEF Phase
  <2>1. CASE AcquireNow(e)
    <3>1. Cardinality(Holders') = Cardinality(Holders) + 1
      BY <2>0, <2>1, EnterCore DEF AcquireNow
    <3> QED
      BY <2>1, <3>1, <1>h DEF AcquireNow, Permit, PermitsConserved, NoLostWakeup
  <2>2. CASE AcquireWait(e)
    <3>1. Holders' = Holders
      BY <2>2, SameHolders DEF AcquireWait
    <3>2. waiters # <<>> => Len(waiters) > 0
      BY DEF TypeOK
    <3> QED
      BY <2>2, <3>1, <3>2, <1>h DEF AcquireWait, TypeOK, Permit,
         PermitsConserved, NoLostWakeup
  <2>3. CASE Resume(e)
    <3>1. Cardinality(Holders') = Cardinality(Holders) + 1
      BY <2>0, <2>3, EnterCore DEF Resume
    <3> DEFINE more == Least(value, Len(waiters) - woken)
    <3>2. waiters # <<>> /\ woken <= Len(waiters)
      BY <2>3 DEF Resume, TypeOK
    <3>3. Len(waiters') = Len(waiters) - 1
      BY <2>3, <3>2, HeadTailProperties DEF Resume, TypeOK
    <3>4. /\ more \in Nat
          /\ more = value \/ more = Len(waiters) - woken
      BY <3>2, <1>h DEF Least
    <3>5. woken' = woken - 1 + more /\ value' = value - more
      BY <2>3 DEF Resume
    <3> HIDE DEF more
    <3>6. PermitsConserved'
      BY <3>1, <3>4, <3>5, <1>h DEF Permit, PermitsConserved
    <3>7. NoLostWakeup'
      BY <3>3, <3>4, <3>5, <1>h DEF NoLostWakeup
    <3> QED
      BY <3>6, <3>7 DEF Permit
  <2> QED
    BY <1>3, <2>1, <2>2, <2>3 DEF Admission
<1>4. CASE TaskRunner \/ Quiescent \/ UNCHANGED vars
  <2>1. UNCHANGED <<phase, semaphore>>
    BY <1>4 DEF TaskRunner, TopLevelReturns, TopLevelRaises, DrainReturns,
       DrainRaises, Quiescent, vars, semaphore
  <2> QED
    BY <2>1, <1>s DEF Holders
<1> QED
  BY <1>1, <1>2, <1>3, <1>4 DEF Next, RunTask

(* No permit is lost or made up, on any path out of a body.                  *)
THEOREM Conservation == Spec => []PermitsConserved
<1>1. Init => Permit
  BY InitPermit
<1>2. TypeOK /\ QueuedOnce /\ Permit /\ [Next]_vars => Permit'
  BY NextPermit
<1>3. Permit => PermitsConserved
  BY DEF Permit
<1> QED
  BY <1>1, <1>2, <1>3, TypeCorrectness, StartedOnce, PTL DEF Spec

(* A permit that is free while a coroutine sleeps is on its way to it.       *)
THEOREM Wakeups == Spec => []NoLostWakeup
<1>1. Init => Permit
  BY InitPermit
<1>2. TypeOK /\ QueuedOnce /\ Permit /\ [Next]_vars => Permit'
  BY NextPermit
<1>3. Permit => NoLostWakeup
  BY DEF Permit
<1> QED
  BY <1>1, <1>2, <1>3, TypeCorrectness, StartedOnce, PTL DEF Spec

(* With more permits than executors with children, all the permits cannot be *)
(* with bodies that wait for others.                                         *)
LEMMA EnoughLeavesOne ==
  ASSUME EnoughPermits, TypeOK, Permit
  PROVE  ParentsLeaveAPermit
<1> DEFINE parents == {e \in Executor : Kids[e] # <<>>}
<1> SUFFICES ASSUME waiters # <<>>, woken = 0
             PROVE  \E e \in Holders : Kids[e] = <<>>
  BY DEF ParentsLeaveAPermit, TypeOK
<1>1. Len(waiters) \in Nat /\ Len(waiters) # 0
  BY DEF TypeOK
<1>2. value = 0
  BY <1>1 DEF Permit, NoLostWakeup, TypeOK
<1>3. Cardinality(Holders) = Permits
  BY <1>2, HoldersFinite DEF Permit, PermitsConserved
<1>4. IsFiniteSet(parents) /\ Cardinality(parents) \in Nat
  BY TreeAssumption, FS_Subset, FS_CardinalityType
<1>5. ~(Holders \subseteq parents)
  <2>1. Holders \subseteq parents => Cardinality(Holders) <= Cardinality(parents)
    BY <1>4, FS_Subset
  <2> QED
    BY <1>3, <1>4, <2>1, ParameterAssumption DEF EnoughPermits
<1> QED
  BY <1>5 DEF Holders

(* Hold-and-wait is impossible when there are more permits than executors    *)
(* with children: the run that starves has as many parents as permits.       *)
THEOREM NoHoldAndWait ==
  ASSUME EnoughPermits
  PROVE  Spec => []ParentsLeaveAPermit
<1>1. Init => Permit
  BY InitPermit
<1>2. TypeOK /\ QueuedOnce /\ Permit /\ [Next]_vars => Permit'
  BY NextPermit
<1>3. TypeOK /\ Permit => ParentsLeaveAPermit
  BY EnoughLeavesOne
<1> QED
  BY <1>1, <1>2, <1>3, TypeCorrectness, StartedOnce, PTL DEF Spec

-----------------------------------------------------------------------------
(* The semaphore's deque and the suspended coroutines.                       *)

(* A move between two phases neither of which is "waiting".                  *)
LEMMA GotoWaiters ==
  ASSUME TypeOK, WaitersSuspended, NEW e \in Executor, NEW from, NEW to,
         Goto(e, from, to), from # "waiting", to # "waiting", UNCHANGED waiters
  PROVE  WaitersSuspended'
BY DEF TypeOK, WaitersSuspended, Goto

LEMMA NextWaiters ==
  TypeOK /\ QueuedOnce /\ WaitersSuspended /\ [Next]_vars => WaitersSuspended'
<1> SUFFICES ASSUME TypeOK, QueuedOnce, WaitersSuspended, [Next]_vars
             PROVE  WaitersSuspended'
  OBVIOUS
<1>1. ASSUME NEW e \in Executor, Callback(e) PROVE WaitersSuspended'
  BY <1>1, GotoWaiters DEF Callback, BeforeRaises, CallbackReturns,
     CallbackRaises, ErrorReturns, ErrorRaises, semaphore
<1>2. ASSUME NEW e \in Executor, Body(e) PROVE WaitersSuspended'
  <2>1. CASE CoreReturns(e) \/ CoreRaises(e) \/ ChildRaises(e) \/ RunReturns(e)
    BY <2>1, GotoWaiters DEF CoreReturns, CoreRaises, ChildRaises, RunReturns,
       Release, semaphore
  <2>2. CASE StartNext(e)
    <3>1. Head(queue[e]) = queue[e][1] /\ Head(queue[e]) \in Executor
          /\ 1 \in DOMAIN queue[e]
      BY <2>2, HeadTailProperties DEF StartNext, TypeOK
    <3>2. Goto(Head(queue[e]), "idle", "before")
      BY <2>2, <3>1 DEF StartNext, Goto, QueuedOnce, Queued
    <3> QED
      BY <2>2, <3>1, <3>2, GotoWaiters DEF StartNext, semaphore
  <2>3. CASE StartAll(e)
    <3>1. \A c \in Executor : phase'[c] = "waiting" <=> phase[c] = "waiting"
      BY <2>3 DEF StartAll, QueuedOnce
    <3> QED
      BY <2>3, <3>1 DEF StartAll, semaphore, WaitersSuspended
  <2> QED
    BY <1>2, <2>1, <2>2, <2>3 DEF Body
<1>3. ASSUME NEW e \in Executor, Admission(e) PROVE WaitersSuspended'
  <2>1. CASE AcquireNow(e)
    BY <2>1, GotoWaiters DEF AcquireNow
  <2>2. CASE AcquireWait(e)
    <3>1. /\ DOMAIN waiters' = 1..(Len(waiters) + 1)
          /\ waiters'[Len(waiters) + 1] = e
          /\ \A i \in DOMAIN waiters : waiters'[i] = waiters[i]
          /\ DOMAIN waiters = 1..Len(waiters) /\ Len(waiters) \in Nat
      BY <2>2 DEF AcquireWait, TypeOK
    <3>2. \A i \in DOMAIN waiters : waiters[i] # e
      BY <2>2 DEF AcquireWait, Goto, WaitersSuspended
    <3>3. phase[e] = "before" /\ phase' = [phase EXCEPT ![e] = "waiting"]
      BY <2>2 DEF AcquireWait, Goto
    <3>4. \A i \in DOMAIN waiters' : i \in DOMAIN waiters \/ waiters'[i] = e
      BY <3>1
    <3>5. ASSUME NEW c \in Executor
          PROVE  phase'[c] = "waiting" <=> \E i \in DOMAIN waiters' : waiters'[i] = c
      <4>1. CASE c = e
        <5>1. Len(waiters) + 1 \in DOMAIN waiters'
          BY <3>1
        <5>2. phase'[c] = "waiting"
          BY <3>3, <4>1 DEF TypeOK
        <5> QED
          BY <3>1, <4>1, <5>1, <5>2
      <4>2. CASE c # e
        BY <3>1, <3>3, <3>4, <4>2 DEF TypeOK, WaitersSuspended
      <4> QED
        BY <4>1, <4>2
    <3>6. \A i, j \in DOMAIN waiters' : waiters'[i] = waiters'[j] => i = j
      BY <3>1, <3>2 DEF WaitersSuspended
    <3> QED
      BY <3>5, <3>6 DEF WaitersSuspended
  <2>3. CASE Resume(e)
    <3>1. waiters # <<>> /\ Len(waiters) \in Nat
      BY <2>3 DEF Resume, TypeOK
    <3>2. /\ e = waiters[1]
          /\ DOMAIN waiters' = 1..(Len(waiters) - 1)
          /\ \A i \in DOMAIN waiters' : waiters'[i] = waiters[i + 1]
          /\ DOMAIN waiters = 1..Len(waiters)
      BY <2>3, <3>1, HeadTailProperties DEF Resume, TypeOK
    <3>3. phase' = [phase EXCEPT ![e] = "core"]
      BY <2>3 DEF Resume, Goto
    <3>4. \A i, j \in DOMAIN waiters : waiters[i] = waiters[j] => i = j
      BY DEF WaitersSuspended
    <3>5. \A i \in DOMAIN waiters' : i + 1 \in DOMAIN waiters /\ i + 1 # 1
      BY <3>1, <3>2
    <3>6. \A i \in DOMAIN waiters : i # 1 => i - 1 \in DOMAIN waiters' /\ waiters'[i - 1] = waiters[i]
      BY <3>1, <3>2
    <3>7. ASSUME NEW c \in Executor
          PROVE  phase'[c] = "waiting" <=> \E i \in DOMAIN waiters' : waiters'[i] = c
      <4>1. CASE c = e
        <5>1. 1 \in DOMAIN waiters
          BY <3>1, <3>2 DEF TypeOK
        <5> QED
          BY <3>2, <3>3, <3>4, <3>5, <4>1, <5>1 DEF TypeOK
      <4>2. CASE c # e
        <5>1. phase'[c] = phase[c]
          BY <3>3, <4>2 DEF TypeOK
        <5>2. phase[c] = "waiting" <=> \E i \in DOMAIN waiters : waiters[i] = c
          BY DEF WaitersSuspended
        <5>3. ASSUME NEW i \in DOMAIN waiters, waiters[i] = c
              PROVE  \E k \in DOMAIN waiters' : waiters'[k] = c
          BY <3>2, <3>6, <4>2, <5>3
        <5>4. ASSUME NEW k \in DOMAIN waiters', waiters'[k] = c
              PROVE  \E i \in DOMAIN waiters : waiters[i] = c
          BY <3>2, <3>5, <5>4
        <5> QED
          BY <5>1, <5>2, <5>3, <5>4
      <4> QED
        BY <4>1, <4>2
    <3>8. \A i, j \in DOMAIN waiters' : waiters'[i] = waiters'[j] => i = j
      BY <3>1, <3>2, <3>4, <3>5
    <3> QED
      BY <3>7, <3>8 DEF WaitersSuspended
  <2> QED
    BY <1>3, <2>1, <2>2, <2>3 DEF Admission
<1>4. CASE TaskRunner \/ Quiescent \/ UNCHANGED vars
  <2>1. UNCHANGED <<phase, waiters>>
    BY <1>4 DEF TaskRunner, TopLevelReturns, TopLevelRaises, DrainReturns,
       DrainRaises, Quiescent, vars, semaphore
  <2> QED
    BY <2>1 DEF WaitersSuspended
<1> QED
  BY <1>1, <1>2, <1>3, <1>4 DEF Next, RunTask

(* The semaphore never forgets a suspended coroutine and never keeps one     *)
(* that has left.                                                            *)
THEOREM Waiters == Spec => []WaitersSuspended
<1>1. Init => WaitersSuspended
  BY DEF Init, WaitersSuspended
<1>2. TypeOK /\ QueuedOnce /\ WaitersSuspended /\ [Next]_vars => WaitersSuspended'
  BY NextWaiters
<1> QED
  BY <1>1, <1>2, TypeCorrectness, StartedOnce, PTL DEF Spec

-----------------------------------------------------------------------------
(* No child is left behind.                                                  *)

QueuedChildren == \A p \in Executor : Queued(p) \subseteq Children(p)

Awaited == QueuedChildren /\ ActiveChildAwaited

LEMMA OneParent ==
  ASSUME NEW p \in Executor, NEW q \in Executor, NEW c \in Children(p) \cap Children(q)
  PROVE  p = q
BY TreeAssumption DEF Children

LEMMA InitAwaited == Init => Awaited
<1> SUFFICES ASSUME Init PROVE Awaited
  OBVIOUS
<1>1. QueuedChildren
  BY DEF Init, QueuedChildren, Queued, Children
<1>2. ActiveChildAwaited
  <2>1. ASSUME NEW p \in Executor, NEW c \in Children(p) PROVE ~Active(c)
    <3>1. c \in Executor /\ c # Root
      BY ChildrenAreExecutors, TreeAssumption
    <3> QED
      BY <3>1 DEF Init, Active
  <2> QED
    BY <2>1 DEF ActiveChildAwaited
<1> QED
  BY <1>1, <1>2 DEF Awaited

LEMMA NextQueuedChildren == TypeOK /\ QueuedChildren /\ [Next]_vars => QueuedChildren'
<1> SUFFICES ASSUME TypeOK, QueuedChildren, [Next]_vars PROVE QueuedChildren'
  OBVIOUS
<1>1. ASSUME NEW e \in Executor, StartNext(e) PROVE QueuedChildren'
  <2>1. /\ queue[e] # <<>>
        /\ queue' = [queue EXCEPT ![e] = Tail(queue[e])]
    BY <1>1 DEF StartNext
  <2>2. /\ Tail(queue[e]) \in Seq(Executor)
        /\ Len(Tail(queue[e])) = Len(queue[e]) - 1
        /\ \A i \in 1..Len(Tail(queue[e])) : Tail(queue[e])[i] = queue[e][i + 1]
    BY <2>1, HeadTailProperties DEF TypeOK
  <2>3. Queued(e)' \subseteq Queued(e)
    BY <2>1, <2>2 DEF Queued, TypeOK
  <2>4. \A p \in Executor : p # e => Queued(p)' = Queued(p)
    BY <2>1 DEF Queued, TypeOK
  <2> QED
    BY <2>3, <2>4 DEF QueuedChildren, Children
<1>2. ASSUME NEW e \in Executor, StartAll(e) PROVE QueuedChildren'
  <2>1. queue' = [queue EXCEPT ![e] = <<>>]
    BY <1>2 DEF StartAll
  <2>2. Queued(e)' = {}
    BY <2>1 DEF Queued, TypeOK
  <2>3. \A p \in Executor : p # e => Queued(p)' = Queued(p)
    BY <2>1 DEF Queued, TypeOK
  <2> QED
    BY <2>2, <2>3 DEF QueuedChildren, Children
<1>3. CASE UNCHANGED queue
  BY <1>3 DEF QueuedChildren, Queued, Children
<1> QED
  BY <1>1, <1>2, <1>3 DEF Next, RunTask, Callback, BeforeRaises, CallbackReturns,
     CallbackRaises, ErrorReturns, ErrorRaises, Body, CoreReturns, CoreRaises,
     ChildRaises, RunReturns, Admission, AcquireNow, AcquireWait, Resume,
     TaskRunner, TopLevelReturns, TopLevelRaises, DrainReturns, DrainRaises,
     Quiescent, vars

(* An executor that moves on from a phase other than "idle", "children" and  *)
(* "raised" neither starts anything nor stops waiting for anything.          *)
LEMMA GotoAwaited ==
  ASSUME TypeOK, ActiveChildAwaited, NEW e \in Executor, NEW from, NEW to,
         Goto(e, from, to), from \notin {"idle", "children", "done", "raised"}
  PROVE  ActiveChildAwaited'
<1> SUFFICES ASSUME NEW p \in Executor, NEW c \in Children(p), Active(c)'
             PROVE  \/ phase'[p] = "children"
                    \/ \E d \in Children(p) : phase'[d] = "raised"
  BY DEF ActiveChildAwaited, Children
<1>1. c \in Executor
  BY ChildrenAreExecutors
<1>2. Active(c)
  BY <1>1 DEF Active, Goto, TypeOK, Finished
<1>3. phase[p] = "children" \/ \E d \in Children(p) : phase[d] = "raised"
  BY <1>2 DEF ActiveChildAwaited
<1> QED
  BY <1>3, ChildrenAreExecutors DEF Goto, TypeOK

LEMMA NextAwaited == TypeOK /\ QueuedOnce /\ Awaited /\ [Next]_vars => Awaited'
<1> SUFFICES ASSUME TypeOK, QueuedOnce, Awaited, [Next]_vars PROVE ActiveChildAwaited'
  BY NextQueuedChildren DEF Awaited
<1>0. ActiveChildAwaited /\ QueuedChildren
  BY DEF Awaited
<1>1. ASSUME NEW e \in Executor, Callback(e) PROVE ActiveChildAwaited'
  BY <1>0, <1>1, GotoAwaited DEF Callback, BeforeRaises, CallbackReturns,
     CallbackRaises, ErrorReturns, ErrorRaises
<1>2. ASSUME NEW e \in Executor, Body(e) PROVE ActiveChildAwaited'
  <2>1. CASE CoreReturns(e) \/ CoreRaises(e)
    BY <1>0, <2>1, GotoAwaited DEF CoreReturns, CoreRaises
  <2>2. CASE StartNext(e) \/ StartAll(e)
    <3>1. PICK S \in SUBSET Queued(e) :
             phase' = [c \in Executor |-> IF c \in S THEN "before" ELSE phase[c]]
      <4>1. CASE StartNext(e)
        <5>1. Head(queue[e]) \in Queued(e)
          BY <4>1, HeadTailProperties DEF StartNext, TypeOK, Queued
        <5>2. phase' = [c \in Executor |->
                          IF c \in {Head(queue[e])} THEN "before" ELSE phase[c]]
          BY <4>1 DEF StartNext, TypeOK
        <5> QED
          BY <5>1, <5>2
      <4>2. CASE StartAll(e)
        BY <4>2 DEF StartAll
      <4> QED
        BY <2>2, <4>1, <4>2
    <3>2. S \subseteq Children(e) /\ \A c \in S : phase[c] = "idle"
      BY <1>0 DEF QueuedChildren, QueuedOnce
    <3>3. phase[e] = "children" /\ e \notin S
      BY <2>2, <3>2 DEF StartNext, StartAll
    <3> SUFFICES ASSUME NEW p \in Executor, NEW c \in Children(p), Active(c)'
                 PROVE  \/ phase'[p] = "children"
                        \/ \E d \in Children(p) : phase'[d] = "raised"
      BY DEF ActiveChildAwaited, Children
    <3>4. c \in Executor
      BY ChildrenAreExecutors
    <3>5. CASE c \in S
      BY <3>1, <3>2, <3>3, <3>5, OneParent
    <3>6. CASE c \notin S
      <4>1. Active(c)
        BY <3>1, <3>4, <3>6 DEF Active
      <4>2. phase[p] = "children" \/ \E d \in Children(p) : phase[d] = "raised"
        BY <1>0, <4>1 DEF ActiveChildAwaited
      <4> QED
        BY <3>1, <3>2, <4>2, ChildrenAreExecutors
    <3> QED
      BY <3>5, <3>6
  <2>3. CASE ChildRaises(e) \/ RunReturns(e)
    <3>1. PICK to \in {"erroring", "closing"} : Goto(e, "children", to)
      BY <2>3 DEF ChildRaises, RunReturns
    <3>2. \/ \E d \in Children(e) : phase[d] = "raised"
          \/ \A d \in Children(e) : phase[d] \in {"idle", "done"}
      BY <2>3 DEF ChildRaises, RunReturns
    <3> SUFFICES ASSUME NEW p \in Executor, NEW c \in Children(p), Active(c)'
                 PROVE  \/ phase'[p] = "children"
                        \/ \E d \in Children(p) : phase'[d] = "raised"
      BY DEF ActiveChildAwaited, Children
    <3>3. c \in Executor
      BY ChildrenAreExecutors
    <3>4. phase' = [phase EXCEPT ![e] = to] /\ phase[e] = "children"
      BY <3>1 DEF Goto
    <3>5. Active(c)
      BY <3>3, <3>4 DEF Active, Finished, TypeOK
    <3>6. phase[p] = "children" \/ \E d \in Children(p) : phase[d] = "raised"
      BY <1>0, <3>5 DEF ActiveChildAwaited
    <3>7. (\E d \in Children(p) : phase[d] = "raised")
            => \E d \in Children(p) : phase'[d] = "raised"
      BY <3>4, ChildrenAreExecutors DEF TypeOK
    <3>8. p = e => \E d \in Children(p) : phase[d] = "raised"
      BY <3>2, <3>5 DEF Active, Finished
    <3> QED
      BY <3>4, <3>6, <3>7, <3>8 DEF TypeOK
  <2> QED
    BY <1>2, <2>1, <2>2, <2>3 DEF Body
<1>3. ASSUME NEW e \in Executor, Admission(e) PROVE ActiveChildAwaited'
  BY <1>0, <1>3, GotoAwaited DEF Admission, AcquireNow, AcquireWait, Resume
<1>4. CASE TaskRunner \/ Quiescent \/ UNCHANGED vars
  <2>1. UNCHANGED phase
    BY <1>4 DEF TaskRunner, TopLevelReturns, TopLevelRaises, DrainReturns,
       DrainRaises, Quiescent, vars
  <2> QED
    BY <1>0, <2>1 DEF ActiveChildAwaited, Active, Children
<1> QED
  BY <1>1, <1>2, <1>3, <1>4 DEF Next, RunTask

(* A parent only stops waiting for a running child when a sibling's exception *)
(* made it: without one, execution is nested.                                *)
THEOREM ChildrenAwaited == Spec => []ActiveChildAwaited
<1>1. Init => Awaited
  BY InitAwaited
<1>2. TypeOK /\ QueuedOnce /\ Awaited /\ [Next]_vars => Awaited'
  BY NextAwaited
<1>3. Awaited => ActiveChildAwaited
  BY DEF Awaited
<1> QED
  BY <1>1, <1>2, <1>3, TypeCorrectness, StartedOnce, PTL DEF Spec

-----------------------------------------------------------------------------
(* TaskRunner.run returns normally only when nothing is left running.        *)

Started == {e \in Executor : phase[e] # "idle"}
Busy(e) == phase[e] \notin {"idle", "done"}

(* What has been started is the task, or was in the deque of an executor      *)
(* started before; so the started executors are a tree, whatever Kids is.     *)
Descent ==
  /\ \A e \in Started : e = Root \/ \E p \in Executor : e \in Children(p)
  /\ \A p \in Executor : \A c \in Children(p) : c \in Started => p \in Started
  /\ \A S \in SUBSET Started :
       S # {} => \E e \in S : e = Root \/ \A p \in S : e \notin Children(p)

(* run_sequentially has one child at a time under way or raised; those of     *)
(* run_concurrently are all in AsyncContext.tasks.                           *)
InSight ==
  \A p \in Executor : \A c \in Children(p) :
    c \in Started =>
      \/ Mode[p] = "sequential" /\ \A d \in Children(p) : Busy(c) /\ Busy(d) => c = d
      \/ Mode[p] = "concurrent" /\ c \in tasks

NothingActive == \A e \in Executor : ~Active(e)

(* While the drain waits, an executor is active only if an exception has left *)
(* it behind that the drain has gathered.                                     *)
Gathered ==
  /\ runner \in {"draining", "ended"} => phase[Root] = "done"
  /\ runner = "draining" /\ (\A t \in drained : phase[t] # "raised") => NothingActive
  /\ NormalEndIsComplete

(* What a step can do to the phases and the tasks: nothing; move on an        *)
(* executor that is active; start children of an executor inside its body.    *)
Moves(e) ==
  /\ Active(e) /\ UNCHANGED <<tasks, runner, drained>>
  /\ \E to \in Phase \ {"idle"} : phase' = [phase EXCEPT ![e] = to]

Starts(e, S) ==
  /\ phase[e] = "children" /\ UNCHANGED <<runner, drained>>
  /\ S # {} /\ S \subseteq Children(e) /\ \A c \in S : phase[c] = "idle"
  /\ phase' = [c \in Executor |-> IF c \in S THEN "before" ELSE phase[c]]
  /\ \/ /\ Mode[e] = "sequential" /\ UNCHANGED tasks
        /\ \E c \in S : S = {c}
        /\ \A d \in Children(e) : ~Busy(d)
     \/ Mode[e] = "concurrent" /\ tasks' = tasks \cup S

LEMMA PhaseSteps ==
  ASSUME TypeOK, QueuedOnce, QueuedChildren, [Next]_vars
  PROVE  \/ UNCHANGED phase /\ UNCHANGED tasks
         \/ \E e \in Executor : Moves(e)
         \/ \E e \in Executor, S \in SUBSET Executor : Starts(e, S)
<1> USE DEF Phase
<1>1. ASSUME NEW e \in Executor, NEW from \in Phase \ {"idle", "done", "raised"},
             NEW to \in Phase \ {"idle"}, Goto(e, from, to), UNCHANGED <<tasks, runner, drained>>
      PROVE  Moves(e)
  BY <1>1 DEF Goto, Moves, Active, Finished
<1>2. ASSUME NEW e \in Executor, Callback(e) PROVE Moves(e)
  BY <1>1, <1>2 DEF Callback, BeforeRaises, CallbackReturns, CallbackRaises, ErrorReturns,
     ErrorRaises
<1>3. ASSUME NEW e \in Executor, Admission(e) PROVE Moves(e)
  BY <1>1, <1>3 DEF Admission, AcquireNow, AcquireWait, Resume
<1>4. ASSUME NEW e \in Executor, CoreReturns(e) \/ CoreRaises(e) \/ ChildRaises(e) \/ RunReturns(e)
      PROVE  Moves(e)
  BY <1>1, <1>4 DEF CoreReturns, CoreRaises, ChildRaises, RunReturns
<1>5. ASSUME NEW e \in Executor, StartNext(e) PROVE Starts(e, {Head(queue[e])})
  <2>1. Head(queue[e]) \in Queued(e)
    BY <1>5, HeadTailProperties DEF StartNext, TypeOK, Queued
  <2>2. phase' = [c \in Executor |-> IF c \in {Head(queue[e])} THEN "before" ELSE phase[c]]
    BY <1>5 DEF StartNext, TypeOK
  <2>3. \A d \in Children(e) : ~Busy(d)
    BY <1>5 DEF StartNext, Busy
  <2>4. phase[Head(queue[e])] = "idle" /\ Head(queue[e]) \in Children(e)
    BY <2>1 DEF QueuedOnce, QueuedChildren
  <2> QED
    BY <1>5, <2>2, <2>3, <2>4 DEF StartNext, Starts
<1>6. ASSUME NEW e \in Executor, StartAll(e) PROVE Starts(e, Queued(e))
  <2>1. Queued(e) # {}
    <3>1. queue[e] \in Seq(Executor) /\ queue[e] # <<>>
      BY <1>6 DEF StartAll, TypeOK
    <3>2. 1 \in DOMAIN queue[e]
      BY <3>1
    <3> QED
      BY <3>2 DEF Queued
  <2>2. \A c \in Queued(e) : phase[c] = "idle" /\ c \in Children(e)
    BY DEF QueuedOnce, QueuedChildren
  <2> QED
    BY <1>6, <2>1, <2>2 DEF StartAll, Starts
<1>7. CASE TaskRunner \/ Quiescent \/ UNCHANGED vars
  BY <1>7 DEF TaskRunner, TopLevelReturns, TopLevelRaises, DrainReturns, DrainRaises, Quiescent,
     vars
<1>8. ASSUME NEW e \in Executor PROVE Queued(e) \in SUBSET Executor
  BY ChildrenAreExecutors DEF QueuedChildren
<1>9. ASSUME NEW e \in Executor, StartNext(e) PROVE Head(queue[e]) \in Executor
  BY <1>9, HeadTailProperties DEF StartNext, TypeOK
<1>10. ASSUME NEW e \in Executor, RunTask(e)
       PROVE  Moves(e) \/ \E S \in SUBSET Executor : Starts(e, S)
  <2>1. CASE StartNext(e)
    <3>1. {Head(queue[e])} \in SUBSET Executor
      BY <1>9, <2>1
    <3> QED
      BY <1>5, <2>1, <3>1
  <2>2. CASE StartAll(e)
    BY <1>6, <1>8, <2>2
  <2> QED
    BY <1>2, <1>3, <1>4, <1>10, <2>1, <2>2 DEF RunTask, Body
<1> QED
  BY <1>7, <1>10 DEF Next

LEMMA DescentStep ==
  ASSUME TypeOK, Descent,
         \/ UNCHANGED phase
         \/ \E e \in Executor : Moves(e)
         \/ \E e \in Executor, S \in SUBSET Executor : Starts(e, S)
  PROVE  Descent'
<1>1. CASE Started' = Started
  BY <1>1 DEF Descent, Children
<1>2. ASSUME NEW e \in Executor, Moves(e) PROVE Started' = Started
  BY <1>2 DEF Moves, Active, Started, TypeOK
<1>3. ASSUME NEW e \in Executor, NEW S \in SUBSET Executor, Starts(e, S) PROVE Descent'
  <2>1. Started' = Started \cup S
    BY <1>3 DEF Starts, Started, TypeOK
  <2>2. e \in Started /\ S \cap Started = {} /\ S \subseteq Children(e)
    BY <1>3 DEF Starts, Started
  <2>3. \A c \in S : \A p \in Executor : c \in Children(p) => p = e
    BY <2>2, OneParent
  <2>4. \A d \in Started' : d = Root \/ \E p \in Executor : d \in Children(p)
    BY <2>1, <2>2 DEF Descent
  <2>5. \A p \in Executor : \A c \in Children(p) : c \in Started' => p \in Started'
    BY <2>1, <2>2, <2>3 DEF Descent
  <2>6. ASSUME NEW T \in SUBSET Started', T # {}
        PROVE  \E d \in T : d = Root \/ \A p \in T : d \notin Children(p)
    <3>1. CASE T \subseteq S
      <4>1. \A p \in T : p \in Executor /\ p # e
        BY <2>2, <3>1
      <4> QED
        BY <2>3, <2>6, <3>1, <4>1
    <3>2. CASE ~(T \subseteq S)
      <4>1. T \ S \in SUBSET Started /\ T \ S # {}
        BY <2>1, <3>2
      <4>2. PICK d \in T \ S : d = Root \/ \A p \in T \ S : d \notin Children(p)
        BY <4>1 DEF Descent
      <4>3. \A p \in S : d \notin Children(p)
        BY <2>2, <4>1, <4>2 DEF Descent
      <4> QED
        BY <4>2, <4>3
    <3> QED
      BY <3>1, <3>2
  <2> QED
    BY <2>4, <2>5, <2>6 DEF Descent, Children
<1> QED
  <2>1. UNCHANGED phase => Started' = Started
    BY DEF Started
  <2> QED
    BY <1>1, <1>2, <1>3, <2>1

LEMMA InSightStep ==
  ASSUME TypeOK, InSight,
         \/ UNCHANGED phase /\ UNCHANGED tasks
         \/ \E e \in Executor : Moves(e)
         \/ \E e \in Executor, S \in SUBSET Executor : Starts(e, S)
  PROVE  InSight'
<1>1. ASSUME Started' = Started, tasks' = tasks, \A c \in Executor : Busy(c)' => Busy(c)
      PROVE  InSight'
  BY <1>1, ChildrenAreExecutors DEF InSight, Children
<1>2. ASSUME NEW e \in Executor, Moves(e) PROVE InSight'
  <2>1. Started' = Started
    BY <1>2 DEF Moves, Active, Started, TypeOK
  <2>2. \A c \in Executor : Busy(c)' => Busy(c)
    BY <1>2 DEF Moves, Active, Finished, Busy, TypeOK
  <2> QED
    BY <1>1, <1>2, <2>1, <2>2 DEF Moves
<1>3. ASSUME NEW e \in Executor, NEW S \in SUBSET Executor, Starts(e, S) PROVE InSight'
  <2>1. Started' = Started \cup S /\ S \subseteq Children(e)
    BY <1>3 DEF Starts, Started, TypeOK
  <2>2. \A c \in Executor : Busy(c)' <=> Busy(c) \/ c \in S
    BY <1>3 DEF Starts, Busy, TypeOK
  <2>3. tasks \subseteq tasks'
    BY <1>3 DEF Starts
  <2>4. \A c \in S : \A p \in Executor : c \in Children(p) => p = e
    BY <2>1, OneParent
  <2> SUFFICES ASSUME NEW p \in Executor, NEW c \in Children(p), c \in Started'
               PROVE  \/ Mode[p] = "sequential" /\ \A d \in Children(p) : Busy(c)' /\ Busy(d)' => c = d
                      \/ Mode[p] = "concurrent" /\ c \in tasks'
    BY DEF InSight, Children
  <2>5. Children(p) \subseteq Executor
    BY ChildrenAreExecutors
  <2>6. CASE p # e
    <3>1. \A d \in Children(p) : d \notin S
      BY <2>4, <2>6
    <3>2. c \in Started
      BY <2>1, <3>1
    <3> QED
      BY <2>2, <2>3, <2>5, <3>1, <3>2 DEF InSight
  <2>7. CASE p = e /\ Mode[e] = "sequential"
    <3>1. (\E d \in S : S = {d}) /\ \A d \in Children(e) : ~Busy(d)
      BY <1>3, <2>7 DEF Starts
    <3> QED
      BY <2>2, <2>5, <2>7, <3>1
  <2>8. CASE p = e /\ Mode[e] # "sequential"
    <3>1. Mode[e] = "concurrent" /\ tasks' = tasks \cup S
      BY <1>3, <2>8 DEF Starts
    <3> QED
      BY <2>1, <2>8, <3>1 DEF InSight
  <2> QED
    BY <2>6, <2>7, <2>8
<1>4. CASE UNCHANGED phase /\ UNCHANGED tasks
  <2>1. Started' = Started /\ \A c \in Executor : Busy(c)' => Busy(c)
    BY <1>4 DEF Started, Busy
  <2> QED
    BY <1>1, <1>4, <2>1
<1> QED
  BY <1>2, <1>3, <1>4

(* Were an executor active, so would be its parent, and so on for ever, up to *)
(* a parent that stopped waiting for a child that raised.                     *)
LEMMA NothingGoesOn ==
  ASSUME TypeOK, Descent, InSight, ActiveChildAwaited, phase[Root] = "done",
         \A t \in tasks : phase[t] # "raised"
  PROVE  NothingActive
<1> SUFFICES ASSUME NEW a \in Executor, Active(a)
             PROVE  FALSE
  BY DEF NothingActive
<1> DEFINE S == {e \in Executor : Active(e)}
<1>1. S \in SUBSET Started /\ S # {}
  BY DEF Started, Active
<1>2. PICK e \in S : e = Root \/ \A p \in S : e \notin Children(p)
  BY <1>1 DEF Descent
<1>3. e # Root
  BY <1>2 DEF Active, Finished
<1>4. e \in Started /\ Busy(e) /\ Active(e)
  BY <1>2 DEF Started, Active, Busy, Finished
<1>5. PICK p \in Executor : e \in Children(p)
  BY <1>3, <1>4 DEF Descent
<1>6. phase[p] # "children"
  BY <1>2, <1>3, <1>5 DEF Active, Finished
<1>7. PICK d \in Children(p) : phase[d] = "raised"
  BY <1>4, <1>5, <1>6 DEF ActiveChildAwaited
<1>8. d \in Started /\ Busy(d) /\ d # e
  BY <1>4, <1>5, <1>7, ChildrenAreExecutors DEF Started, Busy, Active, Finished
<1>9. d \in tasks
  BY <1>4, <1>5, <1>7, <1>8 DEF InSight
<1> QED
  BY <1>7, <1>9

LEMMA GatheredStep ==
  ASSUME TypeOK, Descent, InSight, ActiveChildAwaited, Gathered, [Next]_vars,
         \/ UNCHANGED phase /\ UNCHANGED tasks
         \/ \E e \in Executor : Moves(e)
         \/ \E e \in Executor, S \in SUBSET Executor : Starts(e, S)
  PROVE  Gathered'
<1>1. Root \in Executor /\ \A p \in Executor : Root \notin Children(p)
  BY TreeAssumption
<1>2. drained \subseteq Executor
  BY DEF TypeOK
<1>3. ASSUME NEW e \in Executor, Active(e), UNCHANGED <<runner, drained>>,
             phase[Root] = "done" => phase'[Root] = "done",
             \A t \in Executor : phase[t] = "raised" => phase'[t] = "raised"
      PROVE  Gathered'
  <2>1. runner # "ended"
    BY <1>3 DEF Gathered, NormalEndIsComplete
  <2>2. runner = "draining" => \E t \in drained : phase[t] = "raised"
    BY <1>3 DEF Gathered, NothingActive
  <2>3. runner' = "draining" => \E t \in drained' : phase'[t] = "raised"
    BY <1>2, <1>3, <2>2
  <2> QED
    BY <1>3, <2>1, <2>3 DEF Gathered, NormalEndIsComplete
<1>4. ASSUME NEW e \in Executor, Moves(e) PROVE Gathered'
  <2>1. \A t \in Executor : phase[t] \in Finished => phase'[t] = phase[t]
    BY <1>4 DEF Moves, Active, Finished, TypeOK
  <2> QED
    BY <1>1, <1>3, <1>4, <2>1 DEF Moves, Finished
<1>5. ASSUME NEW e \in Executor, NEW S \in SUBSET Executor, Starts(e, S) PROVE Gathered'
  <2>1. \A t \in Executor : phase[t] \in Finished => phase'[t] = phase[t]
    BY <1>5 DEF Starts, Finished, TypeOK
  <2>2. Active(e)
    BY <1>5 DEF Starts, Active, Finished
  <2> QED
    BY <1>1, <1>3, <1>5, <2>1, <2>2 DEF Starts, Finished
<1>6. CASE UNCHANGED phase /\ UNCHANGED tasks
  <2>1. NothingActive' <=> NothingActive
    BY <1>6 DEF NothingActive, Active
  <2>2. CASE UNCHANGED <<runner, drained>>
    BY <1>6, <2>1, <2>2 DEF Gathered, NormalEndIsComplete, NothingActive
  <2>3. CASE TopLevelReturns
    <3>1. (\A t \in tasks : phase[t] # "raised") => NothingActive
      BY <2>3, NothingGoesOn DEF TopLevelReturns
    <3> QED
      BY <1>6, <2>1, <2>3, <3>1 DEF TopLevelReturns, Gathered, NormalEndIsComplete
  <2>4. CASE TopLevelRaises \/ DrainRaises
    BY <2>4 DEF TopLevelRaises, DrainRaises, Gathered, NormalEndIsComplete
  <2>5. CASE DrainReturns
    <3>1. NothingActive
      BY <2>5 DEF DrainReturns, Gathered
    <3> QED
      BY <1>6, <2>1, <2>5, <3>1 DEF DrainReturns, Gathered, NormalEndIsComplete, NothingActive
  <2>6. ASSUME NEW e \in Executor, RunTask(e) PROVE UNCHANGED <<runner, drained>>
    BY <2>6 DEF RunTask, Callback, BeforeRaises, CallbackReturns, CallbackRaises,
       ErrorReturns, ErrorRaises, Body, CoreReturns, CoreRaises, StartNext, StartAll,
       ChildRaises, RunReturns, Admission, AcquireNow, AcquireWait, Resume
  <2> QED
    BY <2>2, <2>3, <2>4, <2>5, <2>6 DEF Next, TaskRunner, Quiescent, vars
<1> QED
  BY <1>4, <1>5, <1>6

(* When TaskRunner.run returns normally nothing that was ever started is      *)
(* still active, however deep it was created, although the drain gathers only *)
(* the tasks there are when it begins: if anything is active then, a sibling  *)
(* of it or of one it runs in has raised, and gather sees that one.           *)
THEOREM NormalEnds == Spec => []NormalEndIsComplete
<1> DEFINE Inv == Descent /\ InSight /\ Gathered
<1>1. Init => Inv
  <2> SUFFICES ASSUME Init PROVE Inv
    OBVIOUS
  <2>1. Started = {Root} /\ runner = "running"
    BY TreeAssumption DEF Init, Started
  <2>2. \A p \in Executor : Root \notin Children(p)
    BY TreeAssumption
  <2>3. Descent
    BY <2>1, <2>2 DEF Descent
  <2> QED
    BY <2>1, <2>2, <2>3 DEF InSight, Gathered, NormalEndIsComplete
<1>2. Inv => NormalEndIsComplete
  BY DEF Gathered
<1>3. TypeOK /\ QueuedOnce /\ Awaited /\ Inv /\ [Next]_vars => Inv'
  <2> SUFFICES ASSUME TypeOK, QueuedOnce, Awaited, Inv, [Next]_vars PROVE Inv'
    OBVIOUS
  <2>1. \/ UNCHANGED phase /\ UNCHANGED tasks
        \/ \E e \in Executor : Moves(e)
        \/ \E e \in Executor, S \in SUBSET Executor : Starts(e, S)
    BY PhaseSteps DEF Awaited
  <2>2. ActiveChildAwaited
    BY DEF Awaited
  <2> QED
    BY <2>1, <2>2, DescentStep, InSightStep, GatheredStep
<1>4. Init => Awaited
  BY InitAwaited
<1>5. TypeOK /\ QueuedOnce /\ Awaited /\ [Next]_vars => Awaited'
  BY NextAwaited
<1>6. Awaited => ActiveChildAwaited
  BY DEF Awaited
<1> QED
  BY <1>1, <1>2, <1>3, <1>4, <1>5, <1>6, TypeCorrectness, StartedOnce, PTL DEF Spec

-----------------------------------------------------------------------------
(* The scheduler implements ForkJoin for every tree of executors, as long as *)
(* no exception leaves an error_callback.                                    *)

(* What NoEscape rules out.                                                  *)

NobodyRaised == \A e \in Executor : phase[e] # "raised"

LEMMA NextNobodyRaised ==
  ASSUME NoEscape, TypeOK, QueuedOnce, NobodyRaised, [Next]_vars
  PROVE  NobodyRaised'
<1>1. ASSUME NEW e \in Executor, NEW from, NEW to, Goto(e, from, to), to # "raised"
      PROVE  NobodyRaised'
  BY <1>1 DEF NobodyRaised, Goto, TypeOK
<1>2. ASSUME NEW e \in Executor, StartNext(e) \/ StartAll(e) PROVE NobodyRaised'
  BY <1>2 DEF NobodyRaised, StartNext, StartAll, TypeOK
<1>3. ASSUME NEW e \in Executor, Callback(e) PROVE NobodyRaised'
  BY <1>1, <1>3 DEF NoEscape, Callback, BeforeRaises, CallbackReturns,
     CallbackRaises, ErrorReturns, ErrorRaises
<1>4. ASSUME NEW e \in Executor, Body(e) \/ Admission(e) PROVE NobodyRaised'
  BY <1>1, <1>2, <1>4 DEF Body, CoreReturns, CoreRaises, ChildRaises, RunReturns,
     Admission, AcquireNow, AcquireWait, Resume
<1>5. CASE UNCHANGED phase
  BY <1>5 DEF NobodyRaised
<1> QED
  BY <1>3, <1>4, <1>5 DEF Next, RunTask, TaskRunner, TopLevelReturns,
     TopLevelRaises, DrainReturns, DrainRaises, Quiescent, vars

THEOREM NoRaise ==
  ASSUME NoEscape
  PROVE  Spec => []NobodyRaised
<1>1. Init => NobodyRaised
  BY DEF Init, NobodyRaised
<1>2. TypeOK /\ QueuedOnce /\ NobodyRaised /\ [Next]_vars => NobodyRaised'
  BY NextNobodyRaised
<1> QED
  BY <1>1, <1>2, TypeCorrectness, StartedOnce, PTL DEF Spec

-----------------------------------------------------------------------------
(* A deque is what is left of the sequence of children, and what a           *)
(* sequential executor has taken from it has been started.                   *)

Taken(p) == Len(Kids[p]) - Len(queue[p])

DequeIsRest ==
  \A p \in Executor :
    /\ Taken(p) \in Nat
    /\ \A i \in DOMAIN queue[p] : queue[p][i] = Kids[p][Taken(p) + i]

TakenStarted ==
  \A p \in Sequential : \A j \in 1..Taken(p) : phase[Kids[p][j]] # "idle"

LEMMA KidsType ==
  \A p \in Executor : /\ Kids[p] \in Seq(Executor) /\ Len(Kids[p]) \in Nat
                      /\ DOMAIN Kids[p] = 1..Len(Kids[p])
BY TreeAssumption

LEMMA InitDeque == Init => DequeIsRest /\ TakenStarted
BY KidsType DEF Init, DequeIsRest, TakenStarted, Taken, Sequential

(* No step puts an executor back to "idle".                                  *)
LEMMA StaysStarted ==
  ASSUME TypeOK, [Next]_vars, NEW e \in Executor, phase[e] # "idle"
  PROVE  phase'[e] # "idle"
<1>1. ASSUME NEW c \in Executor, NEW from, NEW to, Goto(c, from, to), to # "idle"
      PROVE  phase'[e] # "idle"
  BY <1>1 DEF Goto, TypeOK
<1>2. ASSUME NEW c \in Executor, StartNext(c) \/ StartAll(c) PROVE phase'[e] # "idle"
  BY <1>2 DEF StartNext, StartAll, TypeOK
<1>3. ASSUME NEW c \in Executor, Callback(c) PROVE phase'[e] # "idle"
  BY <1>1, <1>3 DEF Callback, BeforeRaises, CallbackReturns, CallbackRaises,
     ErrorReturns, ErrorRaises
<1>4. ASSUME NEW c \in Executor, Body(c) \/ Admission(c) PROVE phase'[e] # "idle"
  BY <1>1, <1>2, <1>4 DEF Body, CoreReturns, CoreRaises, ChildRaises, RunReturns,
     Admission, AcquireNow, AcquireWait, Resume
<1>5. CASE UNCHANGED phase
  BY <1>5
<1> QED
  BY <1>3, <1>4, <1>5 DEF Next, RunTask, TaskRunner, TopLevelReturns,
     TopLevelRaises, DrainReturns, DrainRaises, Quiescent, vars

(* The first of the deque is the first that has not been taken.              *)
LEMMA FirstOfDeque ==
  ASSUME TypeOK, QueuedOnce, DequeIsRest, NEW e \in Executor, StartNext(e)
  PROVE  /\ Taken(e) + 1 \in DOMAIN Kids[e]
         /\ Head(queue[e]) = Kids[e][Taken(e) + 1]
         /\ Head(queue[e]) \in Executor
         /\ phase[Head(queue[e])] = "idle"
<1>1. /\ queue[e] \in Seq(Executor) /\ Len(queue[e]) \in Nat /\ Len(queue[e]) > 0
      /\ Head(queue[e]) = queue[e][1]
      /\ 1 \in DOMAIN queue[e]
  BY DEF StartNext, TypeOK
<1>2. Head(queue[e]) = Kids[e][Taken(e) + 1]
  BY <1>1 DEF DequeIsRest
<1>3. Taken(e) + 1 \in DOMAIN Kids[e]
  <2>1. Len(Kids[e]) \in Nat /\ DOMAIN Kids[e] = 1..Len(Kids[e])
    BY KidsType
  <2>2. Taken(e) \in Nat
    BY DEF DequeIsRest
  <2>3. Taken(e) + 1 <= Len(Kids[e])
    BY <1>1, <2>1 DEF Taken
  <2> QED
    BY <2>1, <2>2, <2>3
<1>4. phase[Head(queue[e])] = "idle" /\ Head(queue[e]) \in Executor
  BY <1>1 DEF QueuedOnce, Queued
<1> QED
  BY <1>2, <1>3, <1>4

LEMMA NextDeque ==
  ASSUME TypeOK, QueuedOnce, DequeIsRest, TakenStarted, [Next]_vars
  PROVE  DequeIsRest' /\ TakenStarted'
<1>1. CASE UNCHANGED queue
  <2>1. \A p \in Executor : Taken(p)' = Taken(p)
    BY <1>1 DEF Taken
  <2>2. DequeIsRest'
    BY <1>1, <2>1 DEF DequeIsRest
  <2>3. TakenStarted'
    <3> SUFFICES ASSUME NEW p \in Sequential, NEW j \in 1..Taken(p)
                 PROVE  phase'[Kids[p][j]] # "idle"
      BY <2>1 DEF TakenStarted, Sequential
    <3>1. p \in Executor /\ Kids[p][j] \in Executor
      BY KidsType DEF Sequential, Taken, TypeOK
    <3> QED
      BY <3>1, StaysStarted DEF TakenStarted
  <2> QED
    BY <2>2, <2>3
<1>2. ASSUME NEW e \in Executor, StartNext(e) PROVE DequeIsRest' /\ TakenStarted'
  <2>1. /\ queue[e] \in Seq(Executor) /\ queue[e] # <<>> /\ Len(queue[e]) \in Nat
        /\ queue' = [queue EXCEPT ![e] = Tail(queue[e])]
    BY <1>2 DEF StartNext, TypeOK
  <2>2. /\ Len(Tail(queue[e])) = Len(queue[e]) - 1
        /\ \A i \in DOMAIN Tail(queue[e]) :
              i \in Nat /\ i + 1 \in DOMAIN queue[e] /\ Tail(queue[e])[i] = queue[e][i + 1]
    BY <2>1, HeadTailProperties
  <2>3. Taken(e)' = Taken(e) + 1 /\ Taken(e) \in Nat
    BY <2>1, <2>2, KidsType DEF Taken, DequeIsRest, TypeOK
  <2>4. \A p \in Executor : p # e => Taken(p)' = Taken(p) /\ queue'[p] = queue[p]
    BY <2>1 DEF Taken, TypeOK
  <2>5. DequeIsRest'
    <3>1. queue'[e] = Tail(queue[e])
      BY <2>1 DEF TypeOK
    <3>2. \A i \in DOMAIN queue'[e] : queue'[e][i] = Kids[e][Taken(e)' + i]
      <4> SUFFICES ASSUME NEW i \in DOMAIN queue'[e]
                   PROVE  queue'[e][i] = Kids[e][Taken(e)' + i]
        OBVIOUS
      <4>1. i \in Nat /\ i + 1 \in DOMAIN queue[e] /\ queue'[e][i] = queue[e][i + 1]
        BY <2>2, <3>1
      <4>2. queue[e][i + 1] = Kids[e][Taken(e) + (i + 1)]
        BY <4>1 DEF DequeIsRest
      <4>3. Taken(e) + (i + 1) = Taken(e)' + i
        BY <2>3, <4>1
      <4> QED
        BY <4>1, <4>2, <4>3
    <3> QED
      BY <2>3, <2>4, <3>2 DEF DequeIsRest
  <2>6. TakenStarted'
    <3> SUFFICES ASSUME NEW p \in Sequential, NEW j \in 1..Taken(p)'
                 PROVE  phase'[Kids[p][j]] # "idle"
      BY DEF TakenStarted, Sequential
    <3>1. p \in Executor
      BY DEF Sequential
    <3>2. CASE p = e /\ j = Taken(e) + 1
      BY <1>2, <3>2, FirstOfDeque DEF StartNext, TypeOK
    <3>3. CASE ~(p = e /\ j = Taken(e) + 1)
      <4>1. j \in 1..Taken(p)
        BY <2>3, <2>4, <3>1, <3>3
      <4>2. Kids[p][j] \in Executor
        BY <3>1, <4>1, KidsType DEF Taken, TypeOK
      <4> QED
        BY <4>1, <4>2, StaysStarted DEF TakenStarted
    <3> QED
      BY <3>2, <3>3
  <2> QED
    BY <2>5, <2>6
<1>3. ASSUME NEW e \in Executor, StartAll(e) PROVE DequeIsRest' /\ TakenStarted'
  <2>1. /\ queue' = [queue EXCEPT ![e] = <<>>]
        /\ Mode[e] = "concurrent"
    BY <1>3 DEF StartAll
  <2>2. \A p \in Executor : p # e => Taken(p)' = Taken(p) /\ queue'[p] = queue[p]
    BY <2>1 DEF Taken, TypeOK
  <2>3. queue'[e] = <<>> /\ Taken(e)' \in Nat
    BY <2>1, KidsType DEF Taken, TypeOK
  <2>4. DequeIsRest'
    BY <2>2, <2>3 DEF DequeIsRest
  <2>5. TakenStarted'
    <3> SUFFICES ASSUME NEW p \in Sequential, NEW j \in 1..Taken(p)'
                 PROVE  phase'[Kids[p][j]] # "idle"
      BY DEF TakenStarted, Sequential
    <3>1. p \in Executor /\ p # e
      BY <2>1 DEF Sequential
    <3>2. j \in 1..Taken(p)
      BY <2>2, <3>1
    <3>3. Kids[p][j] \in Executor
      BY <3>1, <3>2, KidsType DEF Taken, TypeOK
    <3> QED
      BY <3>2, <3>3, StaysStarted DEF TakenStarted
  <2> QED
    BY <2>4, <2>5
<1> QED
  BY <1>1, <1>2, <1>3 DEF Next, RunTask, Callback, BeforeRaises, CallbackReturns,
     CallbackRaises, ErrorReturns, ErrorRaises, Body, CoreReturns, CoreRaises,
     ChildRaises, RunReturns, Admission, AcquireNow, AcquireWait, Resume,
     TaskRunner, TopLevelReturns, TopLevelRaises, DrainReturns, DrainRaises,
     Quiescent, vars

-----------------------------------------------------------------------------
(* The refinement, step by step.                                             *)

LEMMA OpenIsActive ==
  ASSUME TypeOK, NEW e \in Executor
  PROVE  /\ ForkJoinState[e] = "idle" <=> phase[e] = "idle"
         /\ ForkJoinState[e] = "open" <=> Active(e)
         /\ ForkJoinState[e] = "closed" <=> phase[e] \in Finished
BY DEF ForkJoinState, Active, Finished, TypeOK, Phase

(* A move inside a _run_task is invisible.                                   *)
LEMMA InnerMove ==
  ASSUME TypeOK, NEW e \in Executor, NEW from, NEW to, Goto(e, from, to),
         from \notin Finished \cup {"idle"}, to \notin Finished \cup {"idle"}
  PROVE  ForkJoinState' = ForkJoinState
BY DEF Goto, ForkJoinState, Finished, TypeOK

(* Starting a set of idle children is a fork.                                *)
LEMMA StartIsFork ==
  ASSUME TypeOK, NEW e \in Executor, Active(e), NEW S \in SUBSET Children(e),
         \A c \in S : phase[c] = "idle",
         phase' = [c \in Executor |-> IF c \in S THEN "before" ELSE phase[c]],
         e \in Sequential => FJ!InTurn(e, S)
  PROVE  FJ!Fork(e)
<1>1. ForkJoinState[e] = "open"
  BY OpenIsActive
<1>2. S \in SUBSET FJ!ChildrenOf(e)
  BY DEF FJ!ChildrenOf, Children
<1>3. \A c \in S : ForkJoinState[c] = "idle"
  BY ChildrenAreExecutors, OpenIsActive
<1>4. ForkJoinState' = [n \in Executor |-> IF n \in S THEN "open" ELSE ForkJoinState[n]]
  BY DEF ForkJoinState, Finished
<1> QED
  BY <1>1, <1>2, <1>3, <1>4 DEF FJ!Fork

(* The end of a _run_task is a join.                                         *)
LEMMA EndIsJoin ==
  ASSUME TypeOK, NobodyRaised, ActiveChildAwaited, NEW e \in Executor,
         NEW from \in {"closing", "erroring"}, Goto(e, from, "done")
  PROVE  FJ!Join(e)
<1>1. ForkJoinState[e] = "open"
  BY OpenIsActive DEF Goto, Active, Finished
<1>2. \A c \in FJ!ChildrenOf(e) : ForkJoinState[c] # "open"
  <2> SUFFICES ASSUME NEW c \in Children(e) PROVE ~Active(c)
    BY ChildrenAreExecutors, OpenIsActive DEF FJ!ChildrenOf, Children
  <2>1. phase[e] # "children"
    BY DEF Goto
  <2>2. \A d \in Children(e) : phase[d] # "raised"
    BY ChildrenAreExecutors DEF NobodyRaised
  <2> QED
    BY <2>1, <2>2 DEF ActiveChildAwaited
<1>3. ForkJoinState' = [ForkJoinState EXCEPT ![e] = "closed"]
  BY DEF Goto, ForkJoinState, Finished, TypeOK
<1> QED
  BY <1>1, <1>2, <1>3 DEF FJ!Join

LEMMA NextRefines ==
  ASSUME NoEscape, TypeOK, QueuedOnce, NobodyRaised, Awaited,
         DequeIsRest, TakenStarted, [Next]_vars
  PROVE  [FJ!Next]_ForkJoinState
<1>1. ASSUME NEW e \in Executor, NEW from, NEW to, Goto(e, from, to),
             from \notin Finished \cup {"idle"}, to \notin Finished \cup {"idle"}
      PROVE  [FJ!Next]_ForkJoinState
  BY <1>1, InnerMove
<1>2. ASSUME NEW e \in Executor, CallbackReturns(e) \/ ErrorReturns(e)
      PROVE  [FJ!Next]_ForkJoinState
  BY <1>2, EndIsJoin DEF CallbackReturns, ErrorReturns, Awaited, FJ!Next
<1>3. ASSUME NEW e \in Executor, StartNext(e) PROVE [FJ!Next]_ForkJoinState
  <2> DEFINE first == Head(queue[e])
  <2>1. /\ Taken(e) + 1 \in DOMAIN Kids[e] /\ first = Kids[e][Taken(e) + 1]
        /\ first \in Executor /\ phase[first] = "idle"
    BY <1>3, FirstOfDeque
  <2>2. /\ phase[e] = "children" /\ Mode[e] = "sequential"
        /\ \A c \in Children(e) : phase[c] \in {"idle", "done"}
        /\ phase' = [phase EXCEPT ![first] = "before"]
    BY <1>3 DEF StartNext
  <2> HIDE DEF first
  <2>3. \A j \in 1..((Taken(e) + 1) - 1) : ForkJoinState[Kids[e][j]] = "closed"
    <3> SUFFICES ASSUME NEW j \in 1..((Taken(e) + 1) - 1)
                 PROVE  ForkJoinState[Kids[e][j]] = "closed"
      OBVIOUS
    <3>1. Taken(e) \in Nat /\ j \in 1..Taken(e) /\ j \in DOMAIN Kids[e]
      BY <2>1, KidsType DEF DequeIsRest
    <3>2. Kids[e][j] \in Children(e) /\ Kids[e][j] \in Executor
      BY <3>1, ChildrenAreExecutors DEF Children
    <3>3. phase[Kids[e][j]] # "idle"
      BY <2>2, <3>1 DEF TakenStarted, Sequential
    <3>4. phase[Kids[e][j]] \in Finished
      BY <2>2, <3>2, <3>3 DEF Finished
    <3> QED
      BY <3>2, <3>4, OpenIsActive
  <2>4. FJ!InTurn(e, {first})
    BY <2>1, <2>3 DEF FJ!InTurn
  <2>5. phase' = [c \in Executor |-> IF c \in {first} THEN "before" ELSE phase[c]]
    BY <2>1, <2>2 DEF TypeOK
  <2>6. {first} \in SUBSET Children(e) /\ Active(e)
    BY <2>1, <2>2 DEF Children, Active, Finished
  <2>7. FJ!Fork(e)
    BY <2>1, <2>4, <2>5, <2>6, StartIsFork
  <2> QED
    BY <2>7 DEF FJ!Next
<1>4. ASSUME NEW e \in Executor, StartAll(e) PROVE [FJ!Next]_ForkJoinState
  <2>1. Queued(e) \in SUBSET Children(e) /\ \A c \in Queued(e) : phase[c] = "idle"
    BY DEF Awaited, QueuedChildren, QueuedOnce
  <2>2. Active(e) /\ e \notin Sequential
    BY <1>4 DEF StartAll, Active, Finished, Sequential
  <2>3. FJ!Fork(e)
    BY <1>4, <2>1, <2>2, StartIsFork DEF StartAll
  <2> QED
    BY <2>3 DEF FJ!Next
<1>5. ASSUME NEW e \in Executor, Callback(e) PROVE [FJ!Next]_ForkJoinState
  BY <1>1, <1>2, <1>5 DEF NoEscape, Callback, BeforeRaises, CallbackRaises,
     ErrorRaises, Finished
<1>6. ASSUME NEW e \in Executor, Body(e) \/ Admission(e) PROVE [FJ!Next]_ForkJoinState
  BY <1>1, <1>3, <1>4, <1>6 DEF Body, CoreReturns, CoreRaises, ChildRaises, RunReturns,
     Admission, AcquireNow, AcquireWait, Resume, Finished
<1>7. CASE UNCHANGED phase
  BY <1>7 DEF ForkJoinState
<1> QED
  BY <1>5, <1>6, <1>7 DEF Next, RunTask, TaskRunner, TopLevelReturns,
     TopLevelRaises, DrainReturns, DrainRaises, Quiescent, vars

(* Whatever permits, wake-ups and callbacks do in between, a scheduler whose *)
(* error callbacks do not raise shows its executors nothing but forks and    *)
(* joins.                                                                    *)
THEOREM SchedulerImplementsForkJoin ==
  ASSUME NoEscape
  PROVE  Spec => ImplementsForkJoin
<1>1. Init => FJ!Init
  BY DEF Init, FJ!Init, ForkJoinState, Finished
<1>2. Init => DequeIsRest /\ TakenStarted
  BY InitDeque
<1>3. TypeOK /\ QueuedOnce /\ DequeIsRest /\ TakenStarted /\ [Next]_vars
        => DequeIsRest' /\ TakenStarted'
  BY NextDeque
<1>4. Init => Awaited
  BY InitAwaited
<1>5. TypeOK /\ QueuedOnce /\ Awaited /\ [Next]_vars => Awaited'
  BY NextAwaited
<1>6. TypeOK /\ QueuedOnce /\ NobodyRaised /\ Awaited /\ DequeIsRest
        /\ TakenStarted /\ [Next]_vars => [FJ!Next]_ForkJoinState
  BY NextRefines
<1> QED
  BY <1>1, <1>2, <1>3, <1>4, <1>5, <1>6, TypeCorrectness, StartedOnce, NoRaise,
     PTL DEF Spec, ImplementsForkJoin, FJ!Spec

-----------------------------------------------------------------------------
(* What ForkJoin promises, carried over to the scheduler.                    *)

Promised == INSTANCE ForkJoin_proofs WITH Node <- Executor, state <- ForkJoinState

LEMMA ExecutorsFormATree == Promised!Tree
BY TreeAssumption DEF Promised!Tree, Sequential, Children

(* The children of a sequential executor run in the order of the deque.      *)
THEOREM SchedulerKeepsOrder ==
  ASSUME NoEscape
  PROVE  Spec => []SequentialInOrder
<1>1. Promised!Spec => []Promised!InOrder
  BY ExecutorsFormATree, Promised!InDequeOrder
<1>2. FJ!Init => Promised!Init
  BY DEF FJ!Init, Promised!Init
<1>3. [FJ!Next]_ForkJoinState => [Promised!Next]_ForkJoinState
  BY DEF FJ!Next, FJ!Fork, FJ!Join, FJ!InTurn, FJ!ChildrenOf, Promised!Next,
     Promised!Fork, Promised!Join, Promised!InTurn, Promised!ChildrenOf
<1>4. Promised!InOrder => SequentialInOrder
  BY DEF Promised!InOrder, SequentialInOrder, FJ!InOrder
<1> QED
  BY <1>1, <1>2, <1>3, <1>4, SchedulerImplementsForkJoin,
     PTL DEF ImplementsForkJoin, FJ!Spec, Promised!Spec

=============================================================================
