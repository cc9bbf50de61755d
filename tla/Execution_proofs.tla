--------------------------- MODULE Execution_proofs ---------------------------
(***************************************************************************)
(* Proofs about Execution, for every tree of executors, every set of       *)
(* disabled and of failing ones, and every assignment of error strategies. *)
(***************************************************************************)
EXTENDS Execution, FiniteSetTheorems, WellFoundedInduction, TLAPS

-----------------------------------------------------------------------------
(* The tree.                                                                 *)

LEMMA ParentOfChild ==
  ASSUME NEW p \in Executor, NEW c \in Children(p)
  PROVE  c \in Executor /\ c # Root /\ Parent[c] = p
<1>1. c \in Executor
  BY TreeAssumption DEF Children
<1>2. c # Root
  BY <1>1, TreeAssumption
<1>3. \A q \in Executor : c \in Children(q) => q = p
  BY TreeAssumption DEF Children
<1> QED
  BY <1>1, <1>2, <1>3 DEF Parent

LEMMA ParentIsExecutor ==
  ASSUME NEW e \in Executor, e # Root
  PROVE  Parent[e] \in Executor /\ e \in Children(Parent[e])
<1>1. PICK p \in Executor : e \in Children(p)
  BY TreeAssumption
<1> QED
  BY <1>1, ParentOfChild

(* The recursion over the parents has a solution: what every set that is     *)
(* closed under Parent has.                                                  *)
LEMMA AboveIs ==
  ASSUME NEW e \in Executor
  PROVE  Above[e] = IF e = Root THEN {} ELSE {Parent[e]} \cup Above[Parent[e]]
<1> DEFINE Closed(S, n) ==
             (n # Root => Parent[n] \in S) /\ \A d \in S : d # Root => Parent[d] \in S
           up(n) == {a \in Executor : \A S \in SUBSET Executor : Closed(S, n) => a \in S}
           f == [n \in Executor |-> IF n = Root THEN {} ELSE up(n)]
<1>1. ASSUME NEW n \in Executor, n # Root
      PROVE  up(n) = {Parent[n]} \cup (IF Parent[n] = Root THEN {} ELSE up(Parent[n]))
  <2> DEFINE p == Parent[n]
             T == {p} \cup (IF p = Root THEN {} ELSE up(p))
  <2>1. p \in Executor
    BY <1>1, ParentIsExecutor
  <2>2. Closed(T, n)
    <3>1. ASSUME NEW d \in T, d # Root PROVE Parent[d] \in T
      <4>1. d \in Executor /\ Parent[d] \in Executor
        BY <2>1, <3>1, ParentIsExecutor
      <4> QED
        BY <2>1, <3>1, <4>1
    <3> QED
      BY <3>1
  <2>3. T \in SUBSET Executor
    BY <2>1
  <2>4. up(n) \subseteq T
    BY <2>2, <2>3
  <2>5. ASSUME NEW S \in SUBSET Executor, Closed(S, n) PROVE T \subseteq S
    BY <1>1, <2>5
  <2>6. T \subseteq up(n)
    BY <2>3, <2>5
  <2> QED
    BY <2>4, <2>6
<1>2. f = [n \in Executor |-> IF n = Root THEN {} ELSE {Parent[n]} \cup f[Parent[n]]]
  <2>1. ASSUME NEW n \in Executor
        PROVE  f[n] = IF n = Root THEN {} ELSE {Parent[n]} \cup f[Parent[n]]
    BY <1>1, ParentIsExecutor
  <2> HIDE DEF up
  <2> QED
    BY <2>1
<1> HIDE DEF f
<1>3. Above = [n \in Executor |-> IF n = Root THEN {} ELSE {Parent[n]} \cup Above[Parent[n]]]
  BY <1>2 DEF Above
<1> QED
  BY <1>3

(* What holds of the task and of every child of what it holds of, holds.     *)
LEMMA TreeInduction ==
  ASSUME NEW S \in SUBSET Executor, Root \in S,
         \A e \in Executor : e # Root /\ Parent[e] \in S => e \in S
  PROVE  S = Executor
<1> DEFINE up(e) == Above[e] \cap Executor
           B == Executor \ S
           R == StrictSubsetOrdering(Executor)
<1> SUFFICES ASSUME B # {} PROVE FALSE
  OBVIOUS
<1>1. {up(e) : e \in B} \subseteq FiniteSubsetsOf(Executor) /\ {up(e) : e \in B} # {}
  <2>1. \A U \in SUBSET Executor : IsFiniteSet(U)
    BY TreeAssumption, FS_Subset
  <2>2. \A e \in B : up(e) \in FiniteSubsetsOf(Executor)
    BY <2>1 DEF FiniteSubsetsOf
  <2> HIDE DEF up, B
  <2> QED
    BY <2>2
<1>2. PICK T \in {up(e) : e \in B} : \A U \in {up(e) : e \in B} : <<U, T>> \notin R
  <2> HIDE DEF up, B, R
  <2> QED
    BY <1>1, FS_StrictSubsetOrderingWellFounded, WFMin DEF R
<1>3. PICK e \in B : T = up(e)
  BY <1>2
<1>4. e \in Executor /\ e # Root /\ Parent[e] \in B
  BY ParentIsExecutor
<1>5. up(Parent[e]) \subseteq up(e) /\ Parent[e] \in up(e) \ up(Parent[e])
  <2>1. Above[e] = {Parent[e]} \cup Above[Parent[e]]
    BY <1>4, AboveIs
  <2>2. Parent[e] \in Executor /\ Parent[e] \notin Above[Parent[e]]
    BY <1>4, TreeAssumption
  <2> QED
    BY <2>1, <2>2
<1>6. <<up(Parent[e]), up(e)>> \in R
  BY <1>5 DEF StrictSubsetOrdering
<1> QED
  BY <1>2, <1>3, <1>4, <1>6

LEMMA AboveType ==
  ASSUME NEW e \in Executor
  PROVE  Above[e] \subseteq Executor
<1> DEFINE S == {n \in Executor : Above[n] \subseteq Executor}
<1>1. S = Executor
  <2>1. Root \in S
    BY AboveIs, TreeAssumption
  <2>2. ASSUME NEW n \in Executor, n # Root, Parent[n] \in S PROVE n \in S
    BY <2>2, AboveIs
  <2> QED
    BY <2>1, <2>2, TreeInduction
<1> QED
  BY <1>1

LEMMA AboveTransitive ==
  ASSUME NEW e \in Executor, NEW a \in Above[e]
  PROVE  Above[a] \subseteq Above[e]
<1> DEFINE S == {n \in Executor : \A b \in Above[n] : Above[b] \subseteq Above[n]}
<1>1. S = Executor
  <2>1. Root \in S
    BY AboveIs, TreeAssumption
  <2>2. ASSUME NEW n \in Executor, n # Root, Parent[n] \in S PROVE n \in S
    BY <2>2, AboveIs
  <2> QED
    BY <2>1, <2>2, TreeInduction
<1> QED
  BY <1>1

(* Two executors above a third are above one another.                        *)
LEMMA AboveIsAChain ==
  ASSUME NEW e \in Executor, NEW a \in Above[e], NEW b \in Above[e]
  PROVE  a = b \/ a \in Above[b] \/ b \in Above[a]
<1> DEFINE S == {n \in Executor :
                   \A c, d \in Above[n] : c = d \/ c \in Above[d] \/ d \in Above[c]}
<1>1. S = Executor
  <2>1. Root \in S
    BY AboveIs, TreeAssumption
  <2>2. ASSUME NEW n \in Executor, n # Root, Parent[n] \in S PROVE n \in S
    <3>1. Above[n] = {Parent[n]} \cup Above[Parent[n]]
      BY <2>2, AboveIs
    <3>2. \A c, d \in Above[Parent[n]] : c = d \/ c \in Above[d] \/ d \in Above[c]
      BY <2>2
    <3> QED
      BY <2>2, <3>1, <3>2
  <2> QED
    BY <2>1, <2>2, TreeInduction
<1> QED
  BY <1>1

(* A set of executors has one that nothing in the set is above.              *)
LEMMA Topmost ==
  ASSUME NEW B \in SUBSET Executor, B # {}
  PROVE  \E b \in B : Above[b] \cap B = {}
<1> DEFINE S == {n \in Executor :
                   (Above[n] \cup {n}) \cap B # {} => \E b \in B : Above[b] \cap B = {}}
<1>1. S = Executor
  <2>1. Root \in S
    <3>1. Root \in Executor /\ Above[Root] = {}
      BY AboveIs, TreeAssumption
    <3> QED
      BY <3>1
  <2>2. ASSUME NEW n \in Executor, n # Root, Parent[n] \in S PROVE n \in S
    <3>1. Above[n] = {Parent[n]} \cup Above[Parent[n]]
      BY <2>2, AboveIs
    <3>2. CASE Above[n] \cap B = {}
      BY <3>2
    <3>3. CASE Above[n] \cap B # {}
      BY <2>2, <3>1, <3>3
    <3> QED
      BY <3>2, <3>3
  <2> QED
    BY <2>1, <2>2, TreeInduction
<1> QED
  BY <1>1

(* search_node finds the nearest executor above of the kind it looks for.    *)
LEMMA NearestIsFound ==
  ASSUME NEW e \in Executor, NEW kind, \E a \in Above[e] : Kind[a] = kind
  PROVE  /\ NearestAbove(e, kind) \in Above[e] /\ Kind[NearestAbove(e, kind)] = kind
         /\ \A b \in Above[e] :
              Kind[b] = kind => b = NearestAbove(e, kind) \/ b \in Above[NearestAbove(e, kind)]
<1> DEFINE found(n) == {a \in Above[n] : Kind[a] = kind}
           nearest(n, a) == a \in found(n) /\ \A b \in found(n) \ {a} : b \in Above[a]
           S == {n \in Executor : found(n) # {} => \E a : nearest(n, a)}
<1>1. S = Executor
  <2>1. Root \in S
    BY AboveIs, TreeAssumption
  <2>2. ASSUME NEW n \in Executor, n # Root, Parent[n] \in S PROVE n \in S
    <3>1. Above[n] = {Parent[n]} \cup Above[Parent[n]] /\ Parent[n] \in Executor
      BY <2>2, AboveIs
    <3>2. CASE Kind[Parent[n]] = kind
      <4>1. nearest(n, Parent[n])
        BY <3>1, <3>2
      <4> QED
        BY <4>1
    <3>3. CASE Kind[Parent[n]] # kind
      <4>1. found(n) = found(Parent[n])
        BY <3>1, <3>3
      <4> QED
        BY <2>2, <4>1
    <3> QED
      BY <3>2, <3>3
  <2> HIDE DEF S
  <2>3. S \in SUBSET Executor
    BY DEF S
  <2> QED
    BY <2>1, <2>2, <2>3, TreeInduction
<1>2. found(e) # {}
  OBVIOUS
<1>3. PICK a : nearest(e, a)
  BY <1>1, <1>2
<1>4. NearestAbove(e, kind) = CHOOSE b \in found(e) : \A c \in found(e) \ {b} : c \in Above[b]
  BY <1>2 DEF NearestAbove
<1>5. nearest(e, NearestAbove(e, kind))
  BY <1>3, <1>4
<1> QED
  BY <1>5

-----------------------------------------------------------------------------
(* The kinds.                                                                *)

LEMMA KindOfChild ==
  ASSUME NEW e \in Executor, e # Root
  PROVE  Kind[e] \in KindBelow(Kind[Parent[e]])
BY ParentIsExecutor, KindAssumption

(* No step is above an executor that is none.                                *)
LEMMA StepsAreBelow ==
  ASSUME NEW e \in Executor \ Steps
  PROVE  Above[e] \cap Steps = {}
<1> DEFINE S == {n \in Executor : n \in Steps \/ Above[n] \cap Steps = {}}
<1>1. S = Executor
  <2>1. Root \in S
    BY AboveIs, TreeAssumption
  <2>2. ASSUME NEW n \in Executor, n # Root, Parent[n] \in S PROVE n \in S
    <3>1. Parent[n] \in Steps => n \in Steps
      BY <2>2, KindOfChild DEF Steps, KindBelow, StepKind, ContainerKind, OriginKind
    <3>2. Above[n] = {Parent[n]} \cup Above[Parent[n]]
      BY <2>2, AboveIs
    <3> QED
      BY <2>2, <3>1, <3>2
  <2> QED
    BY <2>1, <2>2, TreeInduction
<1> QED
  BY <1>1

(* Every step is below a child case, and a child case is below none.         *)
LEMMA CaseOfStep ==
  ASSUME NEW e \in Steps
  PROVE  \E c \in Above[e] : c \in ChildCases
<1> DEFINE S == {n \in Executor : n \in Steps => \E c \in Above[n] : c \in ChildCases}
<1>1. S = Executor
  <2>1. Root \in S
    BY KindAssumption, TreeAssumption DEF Steps, StepKind, ContainerKind
  <2>2. ASSUME NEW n \in Executor, n # Root, Parent[n] \in S PROVE n \in S
    <3>1. n \in Steps => Parent[n] \in Steps \/ Parent[n] \in ChildCases
      BY <2>2, KindOfChild
         DEF Steps, ChildCases, KindBelow, StepKind, ContainerKind, OriginKind
    <3>2. Above[n] = {Parent[n]} \cup Above[Parent[n]]
      BY <2>2, AboveIs
    <3> QED
      BY <2>2, <3>1, <3>2
  <2> QED
    BY <2>1, <2>2, TreeInduction
<1> QED
  BY <1>1 DEF Steps

LEMMA ChildCasesAreApart ==
  ASSUME NEW c \in ChildCases
  PROVE  Above[c] \cap ChildCases = {}
<1> DEFINE S == {n \in Executor :
                   Kind[n] \in {"task", "main_case", "child_case"} => Above[n] \cap ChildCases = {}}
<1>1. S = Executor
  <2>1. Root \in S
    BY AboveIs, TreeAssumption
  <2>2. ASSUME NEW n \in Executor, n # Root, Parent[n] \in S PROVE n \in S
    <3>1. Kind[n] \in {"task", "main_case", "child_case"} =>
            Kind[Parent[n]] \in {"task", "main_case"}
      BY <2>2, KindOfChild DEF KindBelow, OriginKind
    <3> QED
      BY <2>2, <3>1, AboveIs DEF ChildCases
  <2> QED
    BY <2>1, <2>2, TreeInduction
<1> QED
  BY <1>1 DEF ChildCases

-----------------------------------------------------------------------------
(* The scheduler, with all that is proved about it.                          *)

SP == INSTANCE AsyncContext_proofs WITH
  CallbackFails <- {}, ErrorFails <- Steps, Fragile <- Steps

LEMMA SchedulerAssumptions == SP!TreeAssumption /\ SP!ParameterAssumption
<1>1. SP!TreeAssumption
  BY TreeAssumption DEF SP!TreeAssumption, SP!Children, Children, SP!IsFiniteSet, IsFiniteSet
<1>2. SP!ParameterAssumption
  BY ExecutionAssumption DEF SP!ParameterAssumption, Steps
<1> QED
  BY <1>1, <1>2

(* Every step of the execution is one of the scheduler.                      *)
LEMMA NextIsScheduled ==
  ASSUME [Next]_vars
  PROVE  [SP!Next]_SP!vars
<1>1. ASSUME NEW e \in Executor, RunTask(e) PROVE SP!RunTask(e)
  <2>1. CASE AcquireNow(e) \/ AcquireWait(e) \/ Resume(e)
    BY <2>1 DEF AcquireNow, AcquireWait, Resume, Sched!AcquireNow, Sched!AcquireWait,
       Sched!Resume, Sched!Goto, Sched!Least, SP!AcquireNow, SP!AcquireWait, SP!Resume, SP!Goto,
       SP!Least, SP!Admission, SP!RunTask
  <2>2. CASE BeforeRaises(e) \/ CallbackReturns(e) \/ ErrorReturns(e) \/ ErrorRaises(e)
    BY <2>2 DEF BeforeRaises, CallbackReturns, ErrorReturns, ErrorRaises, Sched!BeforeRaises,
       Sched!CallbackReturns, Sched!ErrorReturns, Sched!ErrorRaises, Sched!Goto,
       Sched!semaphore, SP!BeforeRaises, SP!CallbackReturns, SP!ErrorReturns, SP!ErrorRaises,
       SP!Goto, SP!semaphore, SP!Callback, SP!RunTask
  <2>3. CASE CoreReturns(e) \/ CoreRaises(e)
    BY <2>3 DEF CoreReturns, CoreRaises, Sched!CoreReturns, Sched!CoreRaises, Sched!Goto,
       Sched!Release, Sched!semaphore, SP!CoreReturns, SP!CoreRaises, SP!Goto, SP!Release,
       SP!semaphore, SP!Body, SP!RunTask
  <2>4. CASE StartNext(e) \/ StartAll(e)
    BY <2>4 DEF StartNext, StartAll, Sched!StartNext, Sched!StartAll, Sched!Queued,
       Sched!Children, Sched!semaphore, SP!StartNext, SP!StartAll, SP!Queued, SP!Children,
       SP!semaphore, SP!Body, SP!RunTask
  <2>5. CASE ChildRaises(e) \/ RunReturns(e)
    BY <2>5 DEF ChildRaises, RunReturns, Sched!ChildRaises, Sched!RunReturns, Sched!Children,
       Sched!Goto, Sched!Release, SP!ChildRaises, SP!RunReturns, SP!Children, SP!Goto,
       SP!Release, SP!Body, SP!RunTask
  <2> QED
    BY <1>1, <2>1, <2>2, <2>3, <2>4, <2>5 DEF RunTask
<1>2. CASE TaskRunner
  BY <1>2 DEF TaskRunner, Sched!TaskRunner, Sched!TopLevelReturns, Sched!TopLevelRaises,
     Sched!DrainReturns, Sched!DrainRaises, Sched!semaphore, SP!TaskRunner,
     SP!TopLevelReturns, SP!TopLevelRaises, SP!DrainReturns, SP!DrainRaises, SP!semaphore,
     SP!Next
<1>3. CASE Quiescent \/ UNCHANGED vars
  BY <1>3 DEF Quiescent, Sched!Quiescent, Sched!vars, vars, scheduling, SP!vars
<1> QED
  BY <1>1, <1>2, <1>3 DEF Next, SP!Next

(* Statuses, strategies and counters only observe the scheduler: every        *)
(* behaviour of the execution is one of AsyncContext, in which any core may    *)
(* raise that RunFails names and any error_callback of a step.                *)
THEOREM ExecutionIsScheduled == Spec => SP!Spec
<1>1. Init => SP!Init
  BY DEF Init, Sched!Init, SP!Init
<1>2. [Next]_vars => [SP!Next]_SP!vars
  BY NextIsScheduled
<1> QED
  BY <1>1, <1>2, PTL DEF Spec, SP!Spec

(* So what is proved of it holds here.                                       *)
Scheduled == SP!TypeOK /\ SP!QueuedOnce /\ SP!Awaited /\ SP!WaitersSuspended

THEOREM ScheduledAlways == Spec => []Scheduled
<1>1. SP!TypeOK /\ SP!QueuedOnce /\ SP!Awaited /\ [SP!Next]_SP!vars => SP!Awaited'
  BY SchedulerAssumptions, SP!NextAwaited
<1>2. SP!Init => SP!Awaited
  BY SchedulerAssumptions, SP!InitAwaited
<1>3. SP!Spec => []SP!TypeOK
  BY SchedulerAssumptions, SP!TypeCorrectness
<1>4. SP!Spec => []SP!QueuedOnce
  BY SchedulerAssumptions, SP!StartedOnce
<1>5. SP!Spec => []SP!WaitersSuspended
  BY SchedulerAssumptions, SP!Waiters
<1> QED
  BY <1>1, <1>2, <1>3, <1>4, <1>5, ExecutionIsScheduled, PTL DEF Scheduled, SP!Spec

-----------------------------------------------------------------------------
(* Types.                                                                    *)

LEMMA StepIsNoRoot ==
  ASSUME NEW e \in Steps
  PROVE  e \in Executor /\ e # Root /\ Parent[e] \in Above[e]
<1>1. e \in Executor /\ e # Root
  BY KindAssumption DEF Steps, StepKind, ContainerKind
<1> QED
  BY <1>1, AboveIs

(* A step reports to an executor above it: a step or its child case.          *)
LEMMA FatherIsAbove ==
  ASSUME NEW e \in Steps
  PROVE  Father(e) \in Above[e] /\ Father(e) \in Steps \cup ChildCases
<1>1. e \in Executor /\ e # Root /\ Parent[e] \in Above[e] /\ Above[e] \subseteq Executor
  BY StepIsNoRoot, AboveType
<1>2. CASE InCase(e)
  <2>1. NearestAbove(e, "case") \in Above[e] /\ Kind[NearestAbove(e, "case")] = "case"
    BY <1>1, <1>2, NearestIsFound DEF InCase
  <2> QED
    BY <1>1, <1>2, <2>1 DEF Father, Steps, StepKind, ContainerKind
<1>3. CASE ~InCase(e)
  <2>1. Parent[e] \in Steps \cup ChildCases
    BY <1>1, KindOfChild
       DEF Steps, ChildCases, KindBelow, StepKind, ContainerKind, OriginKind
  <2> QED
    BY <1>1, <1>3, <2>1 DEF Father
<1> QED
  BY <1>2, <1>3

Outcomes ==
  /\ status \in [Executor -> Status] /\ result \in [Executor -> Result]
  /\ childError \subseteq Executor /\ childSkipped \subseteq Executor

LEMMA FailsTypes ==
  ASSUME Outcomes, NEW e \in Executor, Fails(e) \/ FailsUnplaced(e)
  PROVE  Outcomes'
<1>1. e \in Steps => Father(e) \in Executor
  BY FatherIsAbove, AboveType
<1> QED
  BY <1>1 DEF Outcomes, Fails, FailsUnplaced, Status, Result

LEMMA EndsSomehow ==
  ASSUME NEW e \in Executor, Ends(e), skipped \subseteq Steps
  PROVE  \/ e \in skipped /\ StepSkipped(e)
         \/ e \in Steps \ skipped /\ StepEnds(e)
         \/ e \in ChildCases \ Steps /\ ChildCaseEnds(e)
         \/ e \notin Steps \cup ChildCases /\ UNCHANGED outcome
<1>1. Steps \cap ChildCases = {}
  BY DEF Steps, ChildCases, StepKind, ContainerKind
<1> QED
  BY <1>1 DEF Ends

LEMMA EndsTypes ==
  ASSUME Outcomes, NEW e \in Executor, Ends(e), skipped \subseteq Steps
  PROVE  Outcomes'
<1>1. e \in Steps => Father(e) \in Executor
  BY FatherIsAbove, AboveType
<1>2. CASE e \in skipped /\ StepSkipped(e)
  BY <1>1, <1>2 DEF Outcomes, StepSkipped, Status, Result
<1>3. CASE e \in Steps /\ StepEnds(e)
  <2>1. status' \in [Executor -> Status] /\ result' \in [Executor -> Result]
    BY <1>3 DEF Outcomes, StepEnds, Status, Result
  <2> QED
    BY <1>1, <1>3, <2>1 DEF Outcomes, StepEnds
<1>4. CASE ChildCaseEnds(e)
  <2>1. status' \in [Executor -> Status]
    BY <1>4 DEF Outcomes, ChildCaseEnds, Status
  <2> QED
    BY <1>4, <2>1 DEF Outcomes, ChildCaseEnds
<1>5. CASE UNCHANGED outcome
  BY <1>5 DEF Outcomes, outcome
<1> QED
  BY <1>2, <1>3, <1>4, <1>5, EndsSomehow

LEMMA CheckedType ==
  ASSUME Outcomes, NEW e \in Executor
  PROVE  Checked(e) \in Status
BY DEF Outcomes, Checked, Status

LEMMA EntersTypes ==
  ASSUME Outcomes, skipped \subseteq Steps, ran \subseteq Steps, NEW e \in Executor,
         NEW st \in Status, Enters(e, st)
  PROVE  status' \in [Executor -> Status] /\ skipped' \subseteq Steps /\ ran' \subseteq Steps
BY DEF Outcomes, Enters, Status

LEMMA CountTypes ==
  ASSUME counts \in [ChildCases -> [Counter -> Nat]], NEW e \in Executor,
         NEW counter \in Counter, Count(e, counter)
  PROVE  counts' \in [ChildCases -> [Counter -> Nat]]
<1> DEFINE c == NearestAbove(e, "child_case")
<1>1. \A d \in ChildCases : counts[d] \in [Counter -> Nat] /\ counts[d][counter] + 1 \in Nat
  OBVIOUS
<1>2. \/ counts' = counts
      \/ counts' = [counts EXCEPT ![c] = [counts[c] EXCEPT ![counter] = counts[c][counter] + 1]]
  BY DEF Count
<1> HIDE DEF c
<1>3. CASE c \in ChildCases
  BY <1>1, <1>2, <1>3
<1>4. CASE c \notin ChildCases
  BY <1>2, <1>4
<1> QED
  BY <1>3, <1>4

Recorded ==
  /\ Outcomes /\ strategy \in Strategies
  /\ skipped \subseteq Steps /\ ran \subseteq Steps /\ unmet \subseteq Steps
  /\ counts \in [ChildCases -> [Counter -> Nat]]

LEMMA RecordedStep ==
  ASSUME Recorded, [Next]_vars
  PROVE  Recorded'
<1> USE DEF Recorded
<1>1. ASSUME NEW e \in Executor, RunTask(e) PROVE Recorded'
  <2>1. CASE AcquireNow(e)
    BY <2>1, CheckedType, EntersTypes DEF AcquireNow, Outcomes
  <2>2. CASE AcquireWait(e)
    <3>1. status' \in [Executor -> Status]
      BY <2>2, CheckedType DEF AcquireWait, Outcomes
    <3> QED
      BY <2>2, <3>1 DEF AcquireWait, Outcomes, history
  <2>3. CASE Resume(e)
    <3>1. status[e] \in Status
      BY DEF Outcomes
    <3> QED
      BY <2>3, <3>1, EntersTypes DEF Resume, Outcomes
  <2>4. CASE BeforeRaises(e)
    BY <2>4, FailsTypes DEF BeforeRaises, history
  <2>5. CASE CoreReturns(e)
    <3>1. Kind[e] = "if" => e \in Steps
      BY DEF Steps, StepKind, ContainerKind
    <3>2. status' \in [Executor -> Status]
      BY <2>5 DEF CoreReturns, Outcomes, Status
    <3> QED
      BY <2>5, <3>1, <3>2 DEF CoreReturns, Outcomes
  <2>6. CASE CoreRaises(e) \/ ChildRaises(e)
    BY <2>6, FailsTypes DEF CoreRaises, ChildRaises, history
  <2>7. CASE StartNext(e) \/ StartAll(e)
    <3>1. \E S : Begun(S)
      BY <2>7 DEF StartNext, StartAll
    <3>2. status' \in [Executor -> Status]
      BY <3>1 DEF Begun, Outcomes, Status
    <3> QED
      BY <2>7, <3>2 DEF StartNext, StartAll, Outcomes, history
  <2>8. CASE RunReturns(e)
    BY <2>8, EndsTypes DEF RunReturns, history
  <2>9. CASE CallbackReturns(e)
    BY <2>9, CountTypes DEF CallbackReturns, history, outcome, Outcomes, Counter
  <2>10. CASE ErrorReturns(e)
    <3>1. status' \in [Executor -> Status]
      BY <2>10 DEF ErrorReturns, AppliesStrategy, Outcomes, Status
    <3> QED
      BY <2>10, <3>1, CountTypes DEF ErrorReturns, history, Outcomes, Counter
  <2>11. CASE ErrorRaises(e)
    BY <2>11, CountTypes DEF ErrorRaises, history, outcome, Outcomes, Counter
  <2> QED
    BY <1>1, <2>1, <2>2, <2>3, <2>4, <2>5, <2>6, <2>7, <2>8, <2>9, <2>10, <2>11 DEF RunTask
<1>2. CASE TaskRunner \/ Quiescent
  BY <1>2 DEF TaskRunner, Quiescent, outcome, history, Outcomes
<1>3. CASE UNCHANGED vars
  BY <1>3 DEF vars, outcome, history, Outcomes
<1> QED
  BY <1>1, <1>2, <1>3 DEF Next

LEMMA RecordedInit ==
  ASSUME Init
  PROVE  Recorded
BY DEF Init, Recorded, Outcomes, Status, Result, Counter

LEMMA RecordedAlways == Spec => []Recorded
<1>1. Init => Recorded
  BY RecordedInit
<1>2. Recorded /\ [Next]_vars => Recorded'
  BY RecordedStep
<1> QED
  BY <1>1, <1>2, PTL DEF Spec

(* Every reachable state of an execution is well typed: an executor reports   *)
(* only to one above it, and a strategy ends an executor that exists or none. *)
THEOREM ExecutionTypes == Spec => []TypeOK
<1>1. Scheduled /\ Recorded => TypeOK
  BY DEF Scheduled, Recorded, Outcomes, TypeOK, SP!TypeOK, Sched!TypeOK, SP!Phase, Sched!Phase
<1> QED
  BY <1>1, ScheduledAlways, RecordedAlways, PTL

-----------------------------------------------------------------------------
(* What a step of one executor does to the others, and to itself.            *)

Early == {"idle", "before", "waiting"}
Late == {"closing", "erroring", "done", "raised"}

(* An executor is moved by itself, or started by its parent.  Others change   *)
(* a step only through a strategy that ends it.                              *)
Keeps(x) ==
  /\ x \in Steps => status'[x] \in {status[x], "skipped"}
  /\ x \in ChildCases =>
       \/ status'[x] \in {status[x], "skipped"}
       \/ phase[x] = "idle" /\ status'[x] = "running"
  /\ result'[x] = result[x]
  /\ x \in ran' <=> x \in ran
  /\ x \in skipped' <=> x \in skipped
  /\ x \in unmet' <=> x \in unmet

Begins(e, x) ==
  /\ phase[e] = "children" /\ phase'[e] = "children" /\ x \in Children(e)
  /\ phase[x] = "idle" /\ phase'[x] = "before"

OwnEnter(e) ==
  /\ phase[e] \in {"before", "waiting"} /\ phase'[e] = "core"
  /\ unmet' = unmet
  /\ e \in Steps =>
       \/ /\ e \in ran' /\ skipped' = skipped
          /\ (IF phase[e] = "before" THEN Checked(e) ELSE status[e]) # "skipped"
       \/ /\ ran' = ran /\ e \in skipped'
          /\ status'[e] = "skipped" \/ Kind[e] = "empty"

OwnWait(e) ==
  /\ phase[e] = "before" /\ phase'[e] = "waiting"
  /\ status'[e] = Checked(e)
  /\ UNCHANGED history

OwnCore(e) ==
  /\ phase[e] = "core" /\ phase'[e] = "children"
  /\ UNCHANGED <<skipped, ran>>
  /\ \/ unmet' = unmet /\ (e \in skipped => status'[e] = status[e])
     \/ unmet' = unmet \cup {e} /\ status'[e] = "conditional" /\ e \in Steps

OwnFailure(e) ==
  /\ phase[e] \in {"before", "core", "children"} /\ phase'[e] \in {"erroring", "raised"}
  /\ e \in Steps => status'[e] = "error"
  /\ UNCHANGED history

OwnStart(e) ==
  /\ phase[e] = "children" /\ phase'[e] = "children"
  /\ e \in Steps => status'[e] = status[e]
  /\ UNCHANGED history

OwnReturn(e) ==
  /\ phase[e] = "children" /\ phase'[e] = "closing"
  /\ e \in skipped => status'[e] = "skipped"
  /\ \A c \in Children(e) : phase[c] \in {"idle", "done"} /\ phase'[c] = phase[c]
  /\ UNCHANGED history

OwnClose(e) ==
  /\ phase[e] \in {"closing", "erroring"} /\ phase'[e] \in {"done", "raised"}
  /\ status'[e] \in {status[e], "skipped"}
  /\ UNCHANGED history

Own(e) ==
  \/ OwnEnter(e) \/ OwnWait(e) \/ OwnCore(e) \/ OwnFailure(e)
  \/ OwnStart(e) \/ OwnReturn(e) \/ OwnClose(e)

LEMMA ChildrenAreExecutors ==
  ASSUME NEW e \in Executor
  PROVE  Children(e) \subseteq Executor
BY ParentOfChild

LEMMA StartsSome ==
  ASSUME Scheduled, Recorded, NEW e \in Executor, StartNext(e) \/ StartAll(e)
  PROVE  /\ phase[e] = "children" /\ UNCHANGED <<result, childError, childSkipped, history>>
         /\ \E S \in SUBSET Children(e) :
              /\ \A c \in S : phase[c] = "idle"
              /\ phase' = [c \in Executor |-> IF c \in S THEN "before" ELSE phase[c]]
              /\ status' = [c \in Executor |->
                              IF c \in S \cap ChildCases THEN "running" ELSE status[c]]
<1>1. \A c \in Sched!Queued(e) : phase[c] = "idle" /\ c \in Children(e)
  BY DEF Scheduled, SP!QueuedOnce, SP!Awaited, SP!QueuedChildren, SP!Queued, Sched!Queued,
     SP!Children, Children
<1>2. CASE StartNext(e)
  <2>1. Head(queue[e]) \in Sched!Queued(e)
    <3>1. queue[e] \in Seq(Executor) /\ queue[e] # <<>>
      BY <1>2 DEF StartNext, Sched!StartNext, Scheduled, SP!TypeOK
    <3> QED
      BY <3>1 DEF Sched!Queued
  <2>2. phase' = [c \in Executor |-> IF c \in {Head(queue[e])} THEN "before" ELSE phase[c]]
    BY <1>2 DEF StartNext, Sched!StartNext, Scheduled, SP!TypeOK
  <2>3. {Head(queue[e])} \in SUBSET Children(e)
    BY <1>1, <2>1
  <2> QED
    BY <1>1, <1>2, <2>1, <2>2, <2>3 DEF StartNext, Sched!StartNext, Begun
<1>3. CASE StartAll(e)
  BY <1>1, <1>3 DEF StartAll, Sched!StartAll, Begun
<1> QED
  BY <1>2, <1>3

LEMMA OthersKeep ==
  ASSUME Scheduled, Recorded, NEW e \in Executor, RunTask(e), NEW x \in Executor \ {e}
  PROVE  Keeps(x) /\ (phase'[x] = phase[x] \/ Begins(e, x))
<1> USE DEF Keeps, history, outcome, Recorded, Outcomes
<1>1. phase \in [Executor -> SP!Phase]
  BY DEF Scheduled, SP!TypeOK
<1>2. CASE AcquireNow(e) \/ AcquireWait(e) \/ Resume(e)
  BY <1>1, <1>2 DEF AcquireNow, AcquireWait, Resume, Enters, Sched!AcquireNow,
     Sched!AcquireWait, Sched!Resume, Sched!Goto
<1>3. CASE BeforeRaises(e) \/ CoreRaises(e) \/ ChildRaises(e)
  BY <1>1, <1>3 DEF BeforeRaises, CoreRaises, ChildRaises, Fails, FailsUnplaced,
     Sched!BeforeRaises, Sched!CoreRaises, Sched!ChildRaises, Sched!Goto
<1>4. CASE CoreReturns(e)
  BY <1>1, <1>4 DEF CoreReturns, Sched!CoreReturns, Sched!Goto
<1>5. CASE StartNext(e) \/ StartAll(e)
  <2>1. Steps \cap ChildCases = {}
    BY DEF Steps, ChildCases, StepKind, ContainerKind
  <2> QED
    BY <1>5, <2>1, StartsSome DEF Begins
<1>6. CASE RunReturns(e)
  <2>1. phase'[x] = phase[x] /\ UNCHANGED history
    BY <1>1, <1>6 DEF RunReturns, Sched!RunReturns, Sched!Goto
  <2>2. status'[x] = status[x] /\ result'[x] = result[x]
    <3>1. StepSkipped(e) \/ StepEnds(e) \/ ChildCaseEnds(e) \/ UNCHANGED outcome
      BY <1>6, EndsSomehow DEF RunReturns
    <3> QED
      BY <3>1 DEF StepSkipped, StepEnds, ChildCaseEnds
  <2> QED
    BY <2>1, <2>2
<1>7. CASE CallbackReturns(e) \/ ErrorReturns(e) \/ ErrorRaises(e)
  BY <1>1, <1>7 DEF CallbackReturns, ErrorReturns, ErrorRaises, AppliesStrategy,
     Sched!CallbackReturns, Sched!ErrorReturns, Sched!ErrorRaises, Sched!Goto
<1> QED
  BY <1>2, <1>3, <1>4, <1>5, <1>6, <1>7 DEF RunTask

LEMMA OwnSteps ==
  ASSUME Scheduled, Recorded, NEW e \in Executor, RunTask(e)
  PROVE  Own(e)
<1> USE DEF Own, history, outcome, Recorded, Outcomes
<1>1. phase \in [Executor -> SP!Phase]
  BY DEF Scheduled, SP!TypeOK
<1>2. CASE AcquireNow(e)
  <2>1. OwnEnter(e)
    BY <1>1, <1>2 DEF AcquireNow, Sched!AcquireNow, Sched!Goto, Enters, OwnEnter
  <2> QED
    BY <2>1
<1>3. CASE Resume(e)
  <2>1. OwnEnter(e)
    BY <1>1, <1>3 DEF Resume, Sched!Resume, Sched!Goto, Enters, OwnEnter
  <2> QED
    BY <2>1
<1>4. CASE AcquireWait(e)
  BY <1>1, <1>4 DEF AcquireWait, Sched!AcquireWait, Sched!Goto, OwnWait
<1>5. CASE BeforeRaises(e) \/ CoreRaises(e) \/ ChildRaises(e)
  BY <1>1, <1>5 DEF BeforeRaises, CoreRaises, ChildRaises, Fails, FailsUnplaced,
     Sched!BeforeRaises, Sched!CoreRaises, Sched!ChildRaises, Sched!Goto, OwnFailure
<1>6. CASE CoreReturns(e)
  <2>1. Kind[e] = "if" => e \in Steps
    BY DEF Steps, StepKind, ContainerKind
  <2> QED
    BY <1>1, <1>6, <2>1 DEF CoreReturns, Sched!CoreReturns, Sched!Goto, OwnCore
<1>7. CASE StartNext(e) \/ StartAll(e)
  <2>1. Steps \cap ChildCases = {}
    BY DEF Steps, ChildCases, StepKind, ContainerKind
  <2> QED
    BY <1>7, <2>1, StartsSome DEF OwnStart
<1>8. CASE RunReturns(e)
  <2>1. e \in skipped => status'[e] = "skipped"
    BY <1>8, EndsSomehow DEF RunReturns, StepSkipped
  <2>2. phase' = [phase EXCEPT ![e] = "closing"] /\ phase[e] = "children"
    BY <1>8 DEF RunReturns, Sched!RunReturns, Sched!Goto
  <2>3. \A c \in Children(e) : phase[c] \in {"idle", "done"}
    BY <1>8 DEF RunReturns, Sched!RunReturns, Sched!Children, Children
  <2>4. \A c \in Children(e) : phase'[c] = phase[c]
    BY <1>1, <2>2, <2>3, ChildrenAreExecutors
  <2> QED
    BY <1>1, <1>8, <2>1, <2>2, <2>3, <2>4 DEF RunReturns, OwnReturn
<1>9. CASE CallbackReturns(e) \/ ErrorReturns(e) \/ ErrorRaises(e)
  BY <1>1, <1>9 DEF CallbackReturns, ErrorReturns, ErrorRaises, AppliesStrategy,
     Sched!CallbackReturns, Sched!ErrorReturns, Sched!ErrorRaises, Sched!Goto, OwnClose
<1> QED
  BY <1>2, <1>3, <1>4, <1>5, <1>6, <1>7, <1>8, <1>9 DEF RunTask

-----------------------------------------------------------------------------
(* A skipped step silences what is below it.                                 *)

(* What has been started is below bodies that have run their core.            *)
Within ==
  \A d \in Executor : phase[d] # "idle" => \A a \in Above[d] : phase[a] \notin Early \cup {"core"}

Entered ==
  \A e \in Steps :
    /\ phase[e] \in {"core", "children"} => e \in ran \cup skipped
    /\ e \in ran \cup skipped => phase[e] \notin Early
    /\ e \in unmet => phase[e] \notin Early \cup {"core"}
    /\ \A d \in Children(e) : phase[d] # "idle" => e \in ran \cup skipped

(* The status that says so is lost only when no child needs it any more.      *)
Silenced ==
  \A n \in skipped \cup unmet :
    \/ Children(n) = {}
    \/ status[n] \in StopStatus
    \/ phase[n] \in Late /\ \A c \in Children(n) : phase[c] \in {"idle", "done"}

(* A child suspended on the semaphore has been told already.                 *)
Told ==
  \A d \in Executor \ {Root} :
    phase[d] = "waiting" /\ Parent[d] \in skipped \cup unmet => status[d] = "skipped"

LEMMA WithinStep ==
  ASSUME Scheduled, Recorded, Within, NEW e \in Executor, RunTask(e)
  PROVE  Within'
<1> SUFFICES ASSUME NEW d \in Executor, phase'[d] # "idle", NEW a \in Above[d]
             PROVE  phase'[a] \notin Early \cup {"core"}
  BY DEF Within
<1> USE DEF Early
<1>1. a \in Executor
  BY AboveType
<1>2. Own(e) /\ phase[e] # "idle"
  BY OwnSteps DEF Own, OwnEnter, OwnWait, OwnCore, OwnFailure, OwnStart, OwnReturn, OwnClose
<1>3. phase[a] \notin Early \cup {"core"}
  <2>1. CASE phase[d] # "idle"
    BY <2>1 DEF Within
  <2>2. CASE phase[d] = "idle"
    <3>1. Begins(e, d)
      BY <1>2, <2>2, OthersKeep
    <3>2. Parent[d] = e /\ d # Root
      BY <3>1, ParentOfChild DEF Begins
    <3>3. Above[d] = {e} \cup Above[e]
      BY <3>2, AboveIs
    <3> QED
      BY <1>2, <3>1, <3>3 DEF Begins, Within
  <2> QED
    BY <2>1, <2>2
<1>4. CASE a = e
  BY <1>2, <1>3, <1>4
     DEF Own, OwnEnter, OwnWait, OwnCore, OwnFailure, OwnStart, OwnReturn, OwnClose
<1>5. CASE a # e
  <2>1. phase'[a] = phase[a]
    BY <1>1, <1>3, <1>5, OthersKeep DEF Begins
  <2> QED
    BY <1>3, <2>1
<1> QED
  BY <1>4, <1>5

LEMMA EnteredStep ==
  ASSUME Scheduled, Recorded, Entered, NEW e \in Executor, RunTask(e)
  PROVE  Entered'
<1> SUFFICES ASSUME NEW x \in Steps
             PROVE  /\ phase'[x] \in {"core", "children"} => x \in ran' \cup skipped'
                    /\ x \in ran' \cup skipped' => phase'[x] \notin Early
                    /\ x \in unmet' => phase'[x] \notin Early \cup {"core"}
                    /\ \A d \in Children(x) : phase'[d] # "idle" => x \in ran' \cup skipped'
  BY DEF Entered
<1> USE DEF Early
<1>1. x \in Executor /\ Own(e)
  BY OwnSteps DEF Steps
<1>2. CASE x = e
  <2>1. CASE OwnEnter(e)
    <3>1. \A d \in Children(e) : phase'[d] # "idle" => phase[d] # "idle"
      <4>1. \A d \in Children(e) : d \in Executor \ {e} => phase'[d] = phase[d]
        BY <2>1, OthersKeep DEF Begins, OwnEnter
      <4>2. phase'[e] # "idle" /\ phase[e] # "idle"
        BY <2>1 DEF OwnEnter
      <4> QED
        BY <4>1, <4>2, ChildrenAreExecutors
    <3> QED
      BY <1>2, <2>1, <3>1 DEF OwnEnter, Entered
  <2>2. CASE ~OwnEnter(e)
    <3>1. UNCHANGED <<ran, skipped>>
      BY <1>1, <2>2 DEF Own, OwnWait, OwnCore, OwnFailure, OwnStart, OwnReturn, OwnClose, history
    <3>2. phase'[e] \in {"core", "children"} => phase[e] \in {"core", "children"}
      BY <1>1, <2>2 DEF Own, OwnWait, OwnCore, OwnFailure, OwnStart, OwnReturn, OwnClose
    <3>3. phase'[e] \in Early \cup {"core"} => phase[e] \in Early /\ UNCHANGED unmet
      BY <1>1, <2>2 DEF Own, OwnWait, OwnCore, OwnFailure, OwnStart, OwnReturn, OwnClose, history
    <3>4. phase'[e] # "core"
      BY <1>1, <2>2 DEF Own, OwnWait, OwnCore, OwnFailure, OwnStart, OwnReturn, OwnClose
    <3>5. ASSUME NEW d \in Children(e), phase'[d] # "idle" PROVE e \in ran \cup skipped
      <4>1. CASE phase[d] # "idle"
        BY <1>2, <4>1 DEF Entered
      <4>2. CASE phase[d] = "idle"
        <5>1. phase[e] # "idle"
          BY <1>1, <2>2 DEF Own, OwnWait, OwnCore, OwnFailure, OwnStart, OwnReturn, OwnClose
        <5>2. Begins(e, d)
          BY <3>5, <4>2, <5>1, OthersKeep, ChildrenAreExecutors
        <5> QED
          BY <1>2, <5>2 DEF Begins, Entered
      <4> QED
        BY <4>1, <4>2
    <3> QED
      BY <1>2, <3>1, <3>2, <3>3, <3>4, <3>5 DEF Entered
  <2> QED
    BY <2>1, <2>2
<1>3. CASE x # e
  <2>1. Keeps(x) /\ (phase'[x] = phase[x] \/ Begins(e, x))
    BY <1>1, <1>3, OthersKeep
  <2>2. ASSUME NEW d \in Children(x), phase'[d] # "idle" PROVE phase[d] # "idle"
    <3>1. d \in Executor /\ Parent[d] = x
      BY <1>1, ParentOfChild
    <3>2. CASE d = e
      BY <1>1, <3>2
         DEF Own, OwnEnter, OwnWait, OwnCore, OwnFailure, OwnStart, OwnReturn, OwnClose
    <3>3. CASE d # e
      BY <1>3, <2>2, <3>1, <3>3, OthersKeep, ParentOfChild DEF Begins
    <3> QED
      BY <3>2, <3>3
  <2>3. CASE phase'[x] = phase[x]
    BY <2>1, <2>2, <2>3 DEF Keeps, Entered
  <2>4. CASE Begins(e, x)
    <3>1. x \notin ran \cup skipped \cup unmet
      BY <2>4 DEF Entered, Begins
    <3> QED
      BY <2>1, <2>2, <2>4, <3>1 DEF Keeps, Begins, Entered
  <2> QED
    BY <2>1, <2>3, <2>4
<1> QED
  BY <1>2, <1>3

LEMMA ChildOfStep ==
  ASSUME NEW d \in Executor \ {Root}, Parent[d] \in Steps
  PROVE  d \in Steps
BY KindOfChild DEF Steps, KindBelow, StepKind, ContainerKind, OriginKind

LEMMA EmptyIsChildless ==
  ASSUME NEW e \in Executor, Kind[e] = "empty"
  PROVE  Children(e) = {}
BY KindAssumption DEF KindBelow, OriginKind

LEMMA SilencedStep ==
  ASSUME Scheduled, Recorded, Entered, Silenced, NEW e \in Executor, RunTask(e)
  PROVE  Silenced'
<1> SUFFICES ASSUME NEW n \in skipped' \cup unmet', Children(n) # {},
                    status'[n] \notin StopStatus
             PROVE  phase'[n] \in Late /\ \A c \in Children(n) : phase'[c] \in {"idle", "done"}
  BY DEF Silenced, Children
<1> USE DEF Early, Late, StopStatus
<1>1. n \in Steps /\ n \in Executor
  BY RecordedStep DEF Next, Recorded, Steps
<1>2. Own(e) /\ phase[e] \notin {"idle", "done"}
  BY OwnSteps DEF Own, OwnEnter, OwnWait, OwnCore, OwnFailure, OwnStart, OwnReturn, OwnClose
<1>3. CASE n # e
  <2>1. Keeps(n) /\ (phase'[n] = phase[n] \/ phase[n] = "idle")
    BY <1>1, <1>3, OthersKeep DEF Begins
  <2>2. phase[n] \in Late /\ \A c \in Children(n) : phase[c] \in {"idle", "done"}
    BY <1>1, <2>1 DEF Keeps, Silenced
  <2>3. \A c \in Children(n) : phase'[c] = phase[c]
    BY <1>1, <1>2, <1>3, <2>2, OthersKeep, ParentOfChild DEF Begins
  <2> QED
    BY <2>1, <2>2, <2>3
<1>4. CASE n = e
  <2>1. CASE OwnEnter(e)
    <3>1. e \notin skipped \cup unmet
      BY <1>1, <1>4, <2>1 DEF OwnEnter, Entered
    <3> QED
      BY <1>1, <1>4, <2>1, <3>1, EmptyIsChildless DEF OwnEnter
  <2>2. CASE OwnWait(e)
    BY <1>1, <1>4, <2>2 DEF OwnWait, Entered, history
  <2>3. CASE OwnCore(e)
    <3>1. e \notin unmet
      BY <1>1, <1>4, <2>3 DEF OwnCore, Entered
    <3> QED
      BY <1>1, <1>4, <2>3, <3>1 DEF OwnCore, Silenced
  <2>4. CASE OwnFailure(e)
    BY <1>1, <1>4, <2>4 DEF OwnFailure
  <2>5. CASE OwnStart(e)
    BY <1>1, <1>4, <2>5 DEF OwnStart, Silenced, history
  <2>6. CASE OwnReturn(e)
    BY <1>4, <2>6 DEF OwnReturn
  <2>7. CASE OwnClose(e)
    <3>1. phase'[e] \in Late /\ \A c \in Children(e) : phase[c] \in {"idle", "done"}
      BY <1>1, <1>4, <2>7 DEF OwnClose, Silenced, history
    <3>2. \A c \in Children(e) : phase'[c] = phase[c]
      BY <1>2, <2>7, <3>1, OthersKeep, ChildrenAreExecutors DEF Begins, OwnClose
    <3> QED
      BY <1>4, <3>1, <3>2
  <2> QED
    BY <1>2, <2>1, <2>2, <2>3, <2>4, <2>5, <2>6, <2>7 DEF Own
<1> QED
  BY <1>3, <1>4

(* What is new in skipped or unmet has nothing started below it.             *)
LEMMA NewlySilenced ==
  ASSUME Scheduled, Recorded, Within, Entered, NEW e \in Executor, RunTask(e),
         NEW n \in (skipped' \cup unmet') \ (skipped \cup unmet), NEW d \in Below(n)
  PROVE  phase[d] = "idle"
<1>1. n \in Executor
  BY RecordedStep DEF Next, Recorded, Steps
<1>2. n = e
  BY <1>1, OthersKeep DEF Keeps
<1>3. phase[e] \in Early \cup {"core"}
  BY <1>2, OwnSteps
     DEF Own, OwnEnter, OwnWait, OwnCore, OwnFailure, OwnStart, OwnReturn, OwnClose, history, Early
<1> QED
  BY <1>2, <1>3 DEF Within, Below

LEMMA ToldStep ==
  ASSUME Scheduled, Recorded, Within, Entered, Silenced, Told, NEW e \in Executor, RunTask(e)
  PROVE  Told'
<1> SUFFICES ASSUME NEW d \in Executor \ {Root}, phase'[d] = "waiting",
                    Parent[d] \in skipped' \cup unmet'
             PROVE  status'[d] = "skipped"
  BY DEF Told
<1> DEFINE p == Parent[d]
<1>1. p \in Executor /\ d \in Children(p) /\ d \in Below(p)
  BY ParentIsExecutor, AboveIs DEF Below
<1>2. d \in Steps
  <2>1. p \in Steps
    BY RecordedStep DEF Next, Recorded
  <2> QED
    BY <2>1, ChildOfStep
<1>3. CASE d # e
  <2>1. phase[d] = "waiting" /\ Keeps(d)
    BY <1>3, OthersKeep DEF Begins
  <2>2. p \in skipped \cup unmet
    BY <1>1, <2>1, NewlySilenced
  <2> QED
    BY <1>2, <2>1, <2>2 DEF Told, Keeps
<1>4. CASE d = e
  <2>1. OwnWait(e)
    BY <1>4, OwnSteps DEF Own, OwnEnter, OwnWait, OwnCore, OwnFailure, OwnStart, OwnReturn, OwnClose
  <2>2. p \in skipped \cup unmet
    BY <2>1 DEF OwnWait, history
  <2>3. status[p] \in StopStatus
    BY <1>1, <1>4, <2>1, <2>2 DEF OwnWait, Silenced
  <2>4. p # NoNode
    BY <1>1, TreeAssumption
  <2> QED
    BY <1>2, <1>4, <2>1, <2>3, <2>4 DEF OwnWait, Checked, Checks, Stopped, StoppedAt
<1> QED
  BY <1>3, <1>4

LEMMA CascadeStep ==
  ASSUME Scheduled, Recorded, Within, Entered, Silenced, Told, SkipsCascade,
         NEW e \in Executor, RunTask(e)
  PROVE  SkipsCascade'
<1> SUFFICES ASSUME NEW n \in skipped' \cup unmet', NEW d \in Below(n), d \in ran'
             PROVE  FALSE
  BY DEF SkipsCascade, Below
<1>1. d \in Executor /\ n \in Above[d]
  BY DEF Below
<1>2. CASE d \in ran
  <2>1. phase[d] # "idle"
    BY <1>2 DEF Entered, Early, Recorded
  <2>2. n \in skipped \cup unmet
    BY <2>1, NewlySilenced
  <2> QED
    BY <1>2, <2>2 DEF SkipsCascade
<1>3. CASE d \notin ran
  <2>1. d = e
    BY <1>1, <1>3, OthersKeep DEF Keeps
  <2>2. OwnEnter(e) /\ d \in Steps /\ UNCHANGED <<skipped, unmet>>
    <3>1. OwnEnter(e)
      BY <1>3, <2>1, OwnSteps
         DEF Own, OwnWait, OwnCore, OwnFailure, OwnStart, OwnReturn, OwnClose, history
    <3>2. d \in Steps
      BY RecordedStep DEF Next, Recorded
    <3> QED
      BY <1>3, <2>1, <3>1, <3>2 DEF OwnEnter
  <2> DEFINE p == Parent[d]
  <2>3. d # Root /\ p \in Executor /\ d \in Children(p) /\ Above[d] = {p} \cup Above[p]
    BY <2>2, StepIsNoRoot, ParentIsExecutor, AboveIs
  <2>4. p \in Steps
    <3>1. n \in Steps
      BY RecordedStep DEF Next, Recorded
    <3> QED
      BY <1>1, <2>3, <3>1, StepsAreBelow
  <2>5. phase[d] \in {"before", "waiting"}
    BY <2>1, <2>2 DEF OwnEnter
  <2>6. p \notin skipped \cup unmet
    <3> SUFFICES ASSUME p \in skipped \cup unmet PROVE FALSE
      OBVIOUS
    <3>1. status[p] \in StopStatus
      BY <2>3, <2>5 DEF Silenced
    <3>2. p # NoNode
      BY <2>3, TreeAssumption
    <3>3. Checked(e) = "skipped"
      BY <2>1, <2>2, <3>1, <3>2 DEF Checked, Checks, Stopped, StoppedAt
    <3>4. phase[e] = "waiting" => status[e] = "skipped"
      BY <2>1, <2>3 DEF Told
    <3>5. phase[e] = "before" \/ (phase[e] = "waiting" /\ phase[e] # "before")
      BY <2>1, <2>5
    <3>6. ran' = ran
      BY <2>1, <2>2, <3>3, <3>4, <3>5 DEF OwnEnter
    <3> QED
      BY <1>3, <3>6
  <2>7. p \in ran
    BY <2>3, <2>4, <2>5, <2>6 DEF Entered
  <2>8. n \in skipped \cup unmet /\ n \in Above[p]
    BY <1>1, <2>2, <2>3, <2>6
  <2> QED
    BY <2>3, <2>7, <2>8 DEF SkipsCascade, Below
<1> QED
  BY <1>2, <1>3

Cascade == Within /\ Entered /\ Silenced /\ Told /\ SkipsCascade

LEMMA CascadeInit ==
  ASSUME Init
  PROVE  Cascade
<1>1. \A d \in Executor : phase[d] # "idle" => Above[d] = {} /\ phase[d] = "before"
  BY AboveIs DEF Init, Sched!Init
<1>2. \A d \in Executor : \A c \in Children(d) : phase[c] = "idle"
  BY ParentOfChild DEF Init, Sched!Init
<1>3. Within
  BY <1>1 DEF Within
<1>4. Entered
  <2>1. \A e \in Steps : e \in Executor
    BY DEF Steps
  <2> QED
    BY <1>1, <1>2, <2>1 DEF Init, Entered
<1> QED
  BY <1>1, <1>3, <1>4 DEF Cascade, Init, Silenced, Told, SkipsCascade

LEMMA CascadeNext ==
  ASSUME Scheduled, Recorded, Cascade, [Next]_vars
  PROVE  Cascade'
<1>1. ASSUME NEW e \in Executor, RunTask(e) PROVE Cascade'
  BY <1>1, WithinStep, EnteredStep, SilencedStep, ToldStep, CascadeStep DEF Cascade
<1>2. CASE TaskRunner \/ Quiescent \/ UNCHANGED vars
  <2>1. UNCHANGED <<phase, status, skipped, ran, unmet>>
    BY <1>2 DEF TaskRunner, Quiescent, vars, scheduling, outcome, history, Sched!TaskRunner,
       Sched!TopLevelReturns, Sched!TopLevelRaises, Sched!DrainReturns, Sched!DrainRaises,
       Sched!Quiescent, Sched!vars
  <2> QED
    BY <2>1 DEF Cascade, Within, Entered, Silenced, Told, SkipsCascade, Below, Children
<1> QED
  BY <1>1, <1>2 DEF Next

(* Below a step that was skipped, and below an if whose condition did not     *)
(* hold, no core is ever executed, whatever the tree, the concurrency and the *)
(* strategies: each child is told by the status of its parent when it passes  *)
(* its check, and that status is not undone while a child may still need it.  *)
THEOREM SkippedIsSilent == Spec => []SkipsCascade
<1>1. Init => Cascade
  BY CascadeInit
<1>2. Scheduled /\ Recorded /\ Cascade /\ [Next]_vars => Cascade'
  BY CascadeNext
<1>3. Cascade => SkipsCascade
  BY DEF Cascade
<1> QED
  BY <1>1, <1>2, <1>3, ScheduledAlways, RecordedAlways, PTL DEF Spec

-----------------------------------------------------------------------------
(* The verdict of a child case.                                              *)

Verdict == {"end", "skipped_child", "error_child"}
Busy(e) == phase[e] \notin {"idle", "done"}

(* A loop strategy that is neither of the two runs none of its children.     *)
NoLoopIsDropped == \A e \in Executor : Kids[e] # <<>> => Mode[e] # "none"

(* Every child that has not been started is still in the deque.              *)
StillQueued ==
  \A p \in Executor : \A c \in Children(p) : phase[c] = "idle" => c \in Sched!Queued(p)

(* A parent that does not wait for its child any more has failed, and said so.*)
Abandons(p) ==
  /\ phase[p] \in Late
  /\ p \in Steps => result[p] = "error_self" /\ Father(p) \in childError
  /\ p \in ChildCases => status[p] \in {"error", "skipped"}

Attended ==
  \A p \in Executor : \A c \in Children(p) :
    Busy(c) => phase[p] = "children" \/ Abandons(p)

Settled ==
  /\ \A x \in Steps :
       /\ result[x] # "unknown" <=> phase[x] \in Late
       /\ result[x] = "success" => x \in ran
       /\ result[x] = "skipped_self" => x \in skipped
  /\ \A c \in ChildCases : status[c] \in Verdict => phase[c] \in Late

(* A body that returned has seen every child return.                         *)
Complete ==
  \A p \in Executor :
    (\/ p \in Steps /\ result[p] \notin {"unknown", "error_self"}
     \/ p \in ChildCases /\ status[p] \in Verdict)
    => \A c \in Children(p) : phase[c] = "done"

(* An outcome is known to the father, unless an exception left the executor,  *)
Heard ==
  \A x \in Steps : phase[x] # "raised" =>
    /\ result[x] \in {"error_self", "error_child"} => Father(x) \in childError
    /\ result[x] \in {"skipped_self", "skipped_child"} => Father(x) \in childSkipped

(* and was before the father drew its own conclusion.                        *)
Believed ==
  /\ \A y \in Steps :
       /\ result[y] \in {"success", "skipped_child"} => y \notin childError
       /\ result[y] = "success" => y \notin childSkipped
  /\ \A c \in ChildCases :
       /\ status[c] \in {"end", "skipped_child"} => c \notin childError
       /\ status[c] = "end" => c \notin childSkipped

(* What the actor of a step reports: a failure, the outcome of its body, or   *)
(* nothing.                                                                  *)
ReportsFailure(e) ==
  /\ OwnFailure(e)
  /\ e \in Steps =>
       /\ result'[e] = "error_self"
       /\ \/ phase[e] = "before" /\ phase'[e] = "raised"
          \/ Father(e) \in childError'
  /\ e \in ChildCases => status'[e] = "error"
  /\ childError \subseteq childError' /\ childSkipped' = childSkipped
  /\ \A y \in childError' \ childError : e \in Steps /\ y = Father(e)

ReportsOutcome(e) ==
  /\ OwnReturn(e)
  /\ queue[e] = <<>> \/ Mode[e] = "none"
  /\ \/ e \in skipped /\ StepSkipped(e)
     \/ e \in Steps \ skipped /\ StepEnds(e)
     \/ e \in ChildCases \ Steps /\ ChildCaseEnds(e)
     \/ e \notin Steps \cup ChildCases /\ UNCHANGED outcome

ReportsNothing(e) ==
  /\ OwnEnter(e) \/ OwnWait(e) \/ OwnCore(e) \/ OwnStart(e) \/ OwnClose(e)
  /\ e \in ChildCases => status'[e] \in {status[e], "skipped"}
  /\ UNCHANGED <<result, childError, childSkipped>>

LEMMA KindsApart == Steps \cap ChildCases = {} /\ NoNode \notin Steps \cup ChildCases
BY TreeAssumption DEF Steps, ChildCases, StepKind, ContainerKind

LEMMA Reports ==
  ASSUME Scheduled, Recorded, NEW e \in Executor, RunTask(e)
  PROVE  ReportsFailure(e) \/ ReportsOutcome(e) \/ ReportsNothing(e)
<1> USE DEF Recorded, Outcomes
<1>1. phase \in [Executor -> SP!Phase]
  BY DEF Scheduled, SP!TypeOK
<1>2. Own(e)
  BY OwnSteps
<1>3. CASE BeforeRaises(e) \/ CoreRaises(e) \/ ChildRaises(e)
  <2>1. /\ e \in Steps => status'[e] = "error" /\ result'[e] = "error_self"
        /\ e \in ChildCases => status'[e] = "error"
    BY <1>3 DEF BeforeRaises, CoreRaises, ChildRaises, Fails, FailsUnplaced
  <2>2. OwnFailure(e)
    BY <1>1, <1>3, <2>1 DEF BeforeRaises, CoreRaises, ChildRaises, Sched!BeforeRaises,
       Sched!CoreRaises, Sched!ChildRaises, Sched!Goto, OwnFailure
  <2>3. CASE Fails(e)
    BY <2>1, <2>2, <2>3 DEF Fails, ReportsFailure
  <2>4. CASE e \in Steps /\ FailsUnplaced(e) /\ BeforeRaises(e)
    <3>1. phase[e] = "before" /\ phase'[e] = "raised"
      BY <1>1, <2>4 DEF BeforeRaises, Sched!BeforeRaises, Sched!Goto
    <3> QED
      BY <2>1, <2>2, <2>4, <3>1 DEF FailsUnplaced, ReportsFailure
  <2> QED
    BY <1>3, <2>3, <2>4 DEF BeforeRaises, CoreRaises, ChildRaises
<1>4. CASE RunReturns(e)
  <2>1. phase'[e] = "closing" /\ phase[e] = "children" /\ (queue[e] = <<>> \/ Mode[e] = "none")
    BY <1>1, <1>4 DEF RunReturns, Sched!RunReturns, Sched!Goto
  <2>2. OwnReturn(e)
    BY <1>2, <2>1 DEF Own, OwnEnter, OwnWait, OwnCore, OwnFailure, OwnStart, OwnClose
  <2> QED
    BY <1>4, <2>1, <2>2, EndsSomehow DEF RunReturns, ReportsOutcome
<1>5. CASE AcquireNow(e) \/ AcquireWait(e) \/ Resume(e) \/ CoreReturns(e)
  <2>1. OwnEnter(e) \/ OwnWait(e) \/ OwnCore(e)
    <3>1. phase'[e] \in {"waiting", "core", "children"} /\ phase[e] \in {"before", "waiting", "core"}
      BY <1>1, <1>5 DEF AcquireNow, AcquireWait, Resume, CoreReturns, Sched!AcquireNow,
         Sched!AcquireWait, Sched!Resume, Sched!CoreReturns, Sched!Goto
    <3> QED
      BY <1>2, <3>1 DEF Own, OwnFailure, OwnStart, OwnReturn, OwnClose
  <2>2. e \in ChildCases => status'[e] \in {status[e], "skipped"}
    <3>1. e \in ChildCases => Checked(e) \in {status[e], "skipped"} /\ Kind[e] # "if" /\ e \notin Steps
      BY KindsApart DEF Checked, ChildCases
    <3> QED
      BY <1>5, <3>1 DEF AcquireNow, AcquireWait, Resume, CoreReturns, Enters
  <2> QED
    BY <1>5, <2>1, <2>2 DEF AcquireNow, AcquireWait, Resume, CoreReturns, ReportsNothing
<1>6. CASE StartNext(e) \/ StartAll(e)
  <2>1. phase[e] = "children" /\ UNCHANGED <<result, childError, childSkipped>>
    BY <1>6, StartsSome
  <2>2. phase'[e] = phase[e] /\ status'[e] = status[e]
    BY <1>6, <2>1, StartsSome
  <2>3. OwnStart(e)
    BY <1>2, <2>1, <2>2 DEF Own, OwnEnter, OwnWait, OwnCore, OwnFailure, OwnReturn, OwnClose
  <2> QED
    BY <2>1, <2>2, <2>3 DEF ReportsNothing
<1>7. CASE CallbackReturns(e) \/ ErrorReturns(e) \/ ErrorRaises(e)
  <2>1. phase[e] \in {"closing", "erroring"}
    BY <1>7 DEF CallbackReturns, ErrorReturns, ErrorRaises,
       Sched!CallbackReturns, Sched!ErrorReturns, Sched!ErrorRaises, Sched!Goto
  <2>2. OwnClose(e)
    BY <1>2, <2>1 DEF Own, OwnEnter, OwnWait, OwnCore, OwnFailure, OwnStart, OwnReturn
  <2> QED
    BY <1>7, <2>2 DEF CallbackReturns, ErrorReturns, ErrorRaises, outcome, OwnClose, ReportsNothing
<1> QED
  BY <1>3, <1>4, <1>5, <1>6, <1>7 DEF RunTask

LEMMA StillQueuedStep ==
  ASSUME Scheduled, Recorded, StillQueued, NEW e \in Executor, RunTask(e)
  PROVE  StillQueued'
<1> SUFFICES ASSUME NEW p \in Executor, NEW c \in Children(p), phase'[c] = "idle"
             PROVE  \E i \in DOMAIN queue'[p] : queue'[p][i] = c
  BY DEF StillQueued, Children, Sched!Queued
<1>1. c \in Executor
  BY ChildrenAreExecutors
<1>2. phase[c] = "idle"
  <2>1. CASE c = e
    BY <2>1, OwnSteps DEF Own, OwnEnter, OwnWait, OwnCore, OwnFailure, OwnStart, OwnReturn, OwnClose
  <2>2. CASE c # e
    BY <1>1, <2>2, OthersKeep DEF Begins
  <2> QED
    BY <2>1, <2>2
<1>3. PICK i \in DOMAIN queue[p] : queue[p][i] = c
  BY <1>2 DEF StillQueued, Sched!Queued
<1>4. queue \in [Executor -> Seq(Executor)] /\ phase \in [Executor -> SP!Phase]
  BY DEF Scheduled, SP!TypeOK
<1>5. CASE StartNext(e) /\ p = e
  <2>1. queue'[e] = Tail(queue[e]) /\ queue[e] \in Seq(Executor)
    BY <1>4, <1>5 DEF StartNext, Sched!StartNext
  <2>2. c # Head(queue[e])
    BY <1>1, <1>2, <1>4, <1>5 DEF StartNext, Sched!StartNext
  <2>3. i \in 1..Len(queue[e]) /\ i # 1
    BY <1>3, <1>5, <2>1, <2>2
  <2>4. i - 1 \in DOMAIN Tail(queue[e]) /\ Tail(queue[e])[i - 1] = queue[e][i]
    BY <2>1, <2>3
  <2> QED
    BY <1>3, <1>5, <2>1, <2>4
<1>6. CASE StartAll(e) /\ p = e
  <2>1. phase'[c] = "before"
    BY <1>1, <1>3, <1>6 DEF StartAll, Sched!StartAll, Sched!Queued
  <2> QED
    BY <2>1
<1>7. CASE p # e \/ ~(StartNext(e) \/ StartAll(e))
  <2>1. queue'[p] = queue[p]
    BY <1>4, <1>7 DEF RunTask, AcquireNow, AcquireWait, Resume, BeforeRaises, CoreReturns,
       CoreRaises, StartNext, StartAll, ChildRaises, RunReturns, CallbackReturns, ErrorReturns,
       ErrorRaises, Sched!AcquireNow, Sched!AcquireWait, Sched!Resume, Sched!BeforeRaises,
       Sched!CoreReturns, Sched!CoreRaises, Sched!StartNext, Sched!StartAll, Sched!ChildRaises,
       Sched!RunReturns, Sched!CallbackReturns, Sched!ErrorReturns, Sched!ErrorRaises
  <2> QED
    BY <1>3, <2>1
<1> QED
  BY <1>5, <1>6, <1>7

(* Flags are set and never cleared, by an executor inside its body or before. *)
LEMMA FlagsGrow ==
  ASSUME Scheduled, Recorded, NEW e \in Executor, RunTask(e)
  PROVE  /\ childError \subseteq childError' /\ childSkipped \subseteq childSkipped'
         /\ \A y \in (childError' \ childError) \cup (childSkipped' \ childSkipped) :
              e \in Steps /\ y = Father(e) /\ Busy(e) /\ phase[e] \notin Late
<1>1. CASE ReportsFailure(e)
  BY <1>1 DEF ReportsFailure, OwnFailure, Busy, Late
<1>2. CASE ReportsOutcome(e)
  BY <1>2, KindsApart
     DEF ReportsOutcome, OwnReturn, Busy, Late, StepSkipped, StepEnds, ChildCaseEnds, outcome, Recorded
<1>3. CASE ReportsNothing(e)
  BY <1>3 DEF ReportsNothing
<1> QED
  BY <1>1, <1>2, <1>3, Reports

LEMMA AttendedStep ==
  ASSUME Scheduled, Recorded, Attended, NEW e \in Executor, RunTask(e)
  PROVE  Attended'
<1> SUFFICES ASSUME NEW p \in Executor, NEW c \in Children(p), phase'[c] \notin {"idle", "done"},
                    phase'[p] # "children"
             PROVE  Abandons(p)'
  BY DEF Attended, Busy, Children
<1>1. c \in Executor /\ c # p /\ \A q \in Executor : c \in Children(q) => q = p
  <2>1. c \in Executor /\ c # Root /\ \A q \in Executor : c \in Children(q) => q = p
    BY ParentOfChild
  <2>2. p \in Above[c]
    <3>1. Above[c] = {Parent[c]} \cup Above[Parent[c]]
      BY <2>1, AboveIs
    <3> QED
      BY <3>1, ParentOfChild
  <2>3. c \notin Above[c]
    BY <2>1, TreeAssumption
  <2> QED
    BY <2>1, <2>2, <2>3
<1>2. Own(e) /\ phase[e] \notin {"idle", "done"}
  BY OwnSteps DEF Own, OwnEnter, OwnWait, OwnCore, OwnFailure, OwnStart, OwnReturn, OwnClose
<1>3. Busy(c)
  <2>1. c # e => phase'[c] = phase[c] \/ Begins(e, c)
    BY <1>1, OthersKeep
  <2> QED
    BY <1>1, <1>2, <2>1 DEF Begins, Busy
<1>4. CASE p # e
  <2>1. Keeps(p) /\ (phase'[p] = phase[p] \/ phase[p] = "idle")
    BY <1>4, OthersKeep DEF Begins
  <2>2. Abandons(p) /\ phase'[p] = phase[p]
    BY <1>3, <2>1 DEF Attended, Abandons, Late
  <2> QED
    BY <2>1, <2>2, FlagsGrow DEF Keeps, Abandons, Late
<1>5. CASE p = e /\ phase[e] = "children"
  <2>1. ReportsFailure(e)
    BY <1>1, <1>3, <1>5, Reports DEF ReportsOutcome, OwnReturn, Busy,
       ReportsNothing, OwnEnter, OwnWait, OwnCore, OwnStart, OwnClose
  <2> QED
    BY <1>5, <2>1 DEF ReportsFailure, OwnFailure, Abandons, Late
<1>6. CASE p = e /\ phase[e] # "children"
  <2>1. Abandons(e)
    BY <1>3, <1>6 DEF Attended
  <2>2. ReportsNothing(e) /\ OwnClose(e)
    BY <2>1, Reports DEF Abandons, Late, ReportsFailure, OwnFailure, ReportsOutcome, OwnReturn,
       ReportsNothing, OwnEnter, OwnWait, OwnCore, OwnStart
  <2> QED
    BY <1>6, <2>1, <2>2 DEF ReportsNothing, OwnClose, Abandons, Late
<1> QED
  BY <1>4, <1>5, <1>6

LEMMA SettledStep ==
  ASSUME Scheduled, Recorded, Entered, Settled, NEW e \in Executor, RunTask(e)
  PROVE  Settled'
<1> USE DEF Late
<1>1. ran \subseteq ran' /\ skipped \subseteq skipped'
  <2>1. \A x \in Steps : x # e => Keeps(x)
    BY OthersKeep DEF Steps
  <2>2. OwnEnter(e) => e \notin ran \cup skipped
    BY DEF OwnEnter, Entered, Early, Recorded
  <2>3. ~OwnEnter(e) => UNCHANGED <<ran, skipped>>
    BY OwnSteps DEF Own, OwnWait, OwnCore, OwnFailure, OwnStart, OwnReturn, OwnClose, history
  <2> QED
    BY <2>1, <2>2, <2>3 DEF Keeps, Recorded
<1>2. ASSUME NEW x \in Steps
      PROVE  /\ result'[x] # "unknown" <=> phase'[x] \in Late
             /\ result'[x] = "success" => x \in ran'
             /\ result'[x] = "skipped_self" => x \in skipped'
  <2>1. x \in Executor
    BY DEF Steps
  <2>2. CASE x # e
    <3>1. Keeps(x) /\ (phase'[x] = phase[x] \/ Begins(e, x))
      BY <2>1, <2>2, OthersKeep
    <3> QED
      BY <3>1 DEF Keeps, Begins, Settled
  <2>3. CASE x = e /\ ReportsFailure(e)
    BY <2>3 DEF ReportsFailure, OwnFailure
  <2>4. CASE x = e /\ ReportsOutcome(e)
    <3>1. phase[e] = "children" /\ phase'[e] = "closing" /\ UNCHANGED <<ran, skipped>>
      BY <2>4 DEF ReportsOutcome, OwnReturn, history
    <3>2. \/ e \in skipped /\ result'[e] = "skipped_self"
          \/ e \in ran /\ result'[e] \in {"error_child", "skipped_child", "success"}
      BY <2>4, <3>1, KindsApart
         DEF ReportsOutcome, StepSkipped, StepEnds, Recorded, Outcomes, Entered
    <3> QED
      BY <2>4, <3>1, <3>2
  <2>5. CASE x = e /\ ReportsNothing(e)
    <3>1. result'[e] = result[e] /\ (phase'[e] \in Late <=> phase[e] \in Late)
      BY <2>5 DEF ReportsNothing, OwnEnter, OwnWait, OwnCore, OwnStart, OwnClose
    <3> QED
      BY <1>1, <2>5, <3>1 DEF Settled
  <2> QED
    BY <2>2, <2>3, <2>4, <2>5, Reports
<1>3. ASSUME NEW c \in ChildCases, status'[c] \in Verdict PROVE phase'[c] \in Late
  <2> USE DEF Verdict
  <2>1. c \in Executor /\ c \notin Steps
    BY KindsApart DEF ChildCases
  <2>2. CASE c # e
    <3>1. Keeps(c) /\ (phase'[c] = phase[c] \/ Begins(e, c))
      BY <2>1, <2>2, OthersKeep
    <3> QED
      BY <1>3, <3>1 DEF Keeps, Begins, Settled
  <2>3. CASE c = e
    BY <1>3, <2>3, Reports DEF ReportsFailure, ReportsOutcome, OwnReturn, ReportsNothing,
       OwnEnter, OwnWait, OwnCore, OwnStart, OwnClose, Settled
  <2> QED
    BY <2>2, <2>3
<1> QED
  BY <1>2, <1>3 DEF Settled

LEMMA CompleteStep ==
  ASSUME Scheduled, Recorded, NoLoopIsDropped, StillQueued, Complete,
         NEW e \in Executor, RunTask(e)
  PROVE  Complete'
<1> SUFFICES ASSUME NEW p \in Executor, NEW c \in Children(p),
                    \/ p \in Steps /\ result'[p] \notin {"unknown", "error_self"}
                    \/ p \in ChildCases /\ status'[p] \in Verdict
             PROVE  phase'[c] = "done"
  BY DEF Complete, Children
<1> USE DEF Verdict
<1>1. c \in Executor
  BY ChildrenAreExecutors
<1>2. phase[e] # "done"
  BY OwnSteps DEF Own, OwnEnter, OwnWait, OwnCore, OwnFailure, OwnStart, OwnReturn, OwnClose
<1>3. phase[c] = "done" => phase'[c] = "done"
  BY <1>1, <1>2, OthersKeep DEF Begins
<1>4. CASE p # e
  <2>1. Keeps(p)
    BY <1>4, OthersKeep
  <2> QED
    BY <1>3, <2>1 DEF Keeps, Complete
<1>5. CASE p = e /\ ReportsFailure(e)
  BY <1>5 DEF ReportsFailure
<1>6. CASE p = e /\ ReportsNothing(e)
  BY <1>3, <1>6 DEF ReportsNothing, Complete
<1>7. CASE p = e /\ ReportsOutcome(e)
  <2>1. phase[c] \in {"idle", "done"}
    BY <1>7 DEF ReportsOutcome, OwnReturn
  <2>2. phase[c] # "idle"
    <3>1. Kids[e] # <<>>
      BY <1>7 DEF Children
    <3>2. queue[e] = <<>>
      BY <1>7, <3>1 DEF ReportsOutcome, NoLoopIsDropped
    <3>3. c \notin Sched!Queued(e)
      BY <3>2 DEF Sched!Queued
    <3> QED
      BY <1>7, <3>3 DEF StillQueued
  <2> QED
    BY <1>3, <2>1, <2>2
<1> QED
  BY <1>4, <1>5, <1>6, <1>7, Reports

LEMMA HeardStep ==
  ASSUME Scheduled, Recorded, Heard, NEW e \in Executor, RunTask(e)
  PROVE  Heard'
<1> SUFFICES ASSUME NEW x \in Steps, phase'[x] # "raised"
             PROVE  /\ result'[x] \in {"error_self", "error_child"} => Father(x) \in childError'
                    /\ result'[x] \in {"skipped_self", "skipped_child"} => Father(x) \in childSkipped'
  BY DEF Heard
<1>1. x \in Executor
  BY DEF Steps
<1>2. CASE x # e
  <2>1. Keeps(x) /\ phase[x] # "raised"
    BY <1>1, <1>2, OthersKeep DEF Begins
  <2> QED
    BY <2>1, FlagsGrow DEF Keeps, Heard
<1>3. CASE x = e /\ ReportsFailure(e)
  BY <1>3 DEF ReportsFailure
<1>4. CASE x = e /\ ReportsOutcome(e)
  BY <1>4, KindsApart DEF ReportsOutcome, StepSkipped, StepEnds, Recorded, Outcomes
<1>5. CASE x = e /\ ReportsNothing(e)
  <2>1. phase[e] # "raised"
    BY OwnSteps DEF Own, OwnEnter, OwnWait, OwnCore, OwnFailure, OwnStart, OwnReturn, OwnClose
  <2> QED
    BY <1>5, <2>1 DEF ReportsNothing, Heard
<1> QED
  BY <1>2, <1>3, <1>4, <1>5, Reports

(* Between a step and the executor it reports to, all report to the same.     *)
LEMMA FatherOfThoseBetween ==
  ASSUME NEW x \in Steps, NEW p \in Above[x], p \in Steps, Father(x) \in Above[p]
  PROVE  Father(p) = Father(x)
<1> DEFINE y == Father(x)
           z == NearestAbove(p, "case")
<1>1. x \in Executor /\ x # Root /\ p \in Executor /\ y \in Executor
  BY StepIsNoRoot, FatherIsAbove, AboveType
<1>2. CASE InCase(x)
  <2>1. y \in Above[x] /\ Kind[y] = "case"
        /\ \A b \in Above[x] : Kind[b] = "case" => b = y \/ b \in Above[y]
    BY <1>1, <1>2, NearestIsFound DEF InCase, Father
  <2>2. InCase(p) /\ Father(p) = z
    BY <2>1 DEF InCase, Father
  <2>3. z \in Above[p] /\ Kind[z] = "case"
        /\ \A b \in Above[p] : Kind[b] = "case" => b = z \/ b \in Above[z]
    BY <1>1, <2>2, NearestIsFound DEF InCase
  <2>4. z \in Above[x] /\ z \in Executor
    BY <1>1, <2>3, AboveTransitive, AboveType
  <2> HIDE DEF y, z
  <2>5. z = y \/ (z \in Above[y] /\ y \in Above[z])
    BY <2>1, <2>3, <2>4 DEF y
  <2>6. ~(z \in Above[y] /\ y \in Above[z])
    BY <1>1, <2>4, AboveTransitive, TreeAssumption
  <2> QED
    BY <2>2, <2>5, <2>6 DEF y
<1>3. CASE ~InCase(x)
  <2>1. y = Parent[x] /\ Above[x] = {y} \cup Above[y]
    BY <1>1, <1>3, AboveIs DEF Father
  <2>2. p # y
    BY <1>1, TreeAssumption
  <2>3. p \in Above[y]
    BY <2>1, <2>2
  <2> QED
    BY <1>1, <2>3, AboveTransitive, TreeAssumption
<1> QED
  BY <1>2, <1>3

(* Nobody reports to a step that has drawn its conclusion: were a step below  *)
(* it still at work, an executor between them would have abandoned it, and     *)
(* have reported its own failure to the same father.                         *)
LEMMA NoLateReport ==
  ASSUME Attended, Settled, Believed, NEW x \in Steps, Busy(x), phase[x] \notin Late
  PROVE  /\ Father(x) \in Steps => result[Father(x)] \notin {"success", "skipped_child"}
         /\ Father(x) \in ChildCases => status[Father(x)] \notin Verdict
<1> USE DEF Late
<1> DEFINE y == Father(x)
<1>1. x \in Executor /\ x # Root /\ y \in Above[x] /\ y \in Executor
  BY StepIsNoRoot, FatherIsAbove, AboveType
<1>2. ASSUME y \in Steps, result[y] \in {"success", "skipped_child"} PROVE FALSE
  <2> DEFINE D == {b \in Above[x] \cup {x} : y \in Above[b] /\ Busy(b)}
  <2>1. D \in SUBSET Executor /\ x \in D
    BY <1>1, AboveType
  <2>2. PICK b \in D : Above[b] \cap D = {}
    <3> HIDE DEF D
    <3> QED
      BY <2>1, Topmost
  <2>3. b \in Executor /\ b # Root /\ y \in Above[b] /\ Busy(b)
    BY <2>1, <2>2, AboveIs, TreeAssumption
  <2> DEFINE p == Parent[b]
  <2>4. p \in Executor /\ b \in Children(p) /\ Above[b] = {p} \cup Above[p]
    BY <2>3, ParentIsExecutor, AboveIs
  <2>5. p \in Above[x] /\ p \in Above[b]
    BY <1>1, <2>2, <2>4, AboveTransitive
  <2>6. phase[y] \in Late
    BY <1>2 DEF Settled
  <2>7. p = y \/ y \in Above[p]
    BY <2>3, <2>4
  <2>8. phase[p] # "children"
    <3>1. CASE p = y
      BY <2>6, <3>1
    <3>2. CASE p # y
      BY <2>2, <2>5, <2>7, <3>2 DEF Busy
    <3> QED
      BY <3>1, <3>2
  <2>9. Abandons(p)
    BY <2>3, <2>4, <2>8 DEF Attended
  <2>10. p # y
    BY <1>2, <2>9 DEF Abandons
  <2>11. p \in Steps
    BY <1>2, <2>4, <2>7, <2>10, StepsAreBelow
  <2>12. Father(p) = y
    BY <2>5, <2>7, <2>10, <2>11, FatherOfThoseBetween
  <2> QED
    BY <1>2, <2>9, <2>11, <2>12 DEF Abandons, Believed
<1>3. ASSUME y \in ChildCases, status[y] \in Verdict PROVE FALSE
  <2>1. ~InCase(x)
    <3>1. InCase(x) => Kind[y] = "case"
      BY <1>1, NearestIsFound DEF InCase, Father
    <3> QED
      BY <1>3, <3>1 DEF ChildCases
  <2>2. x \in Children(y)
    BY <1>1, <2>1, ParentIsExecutor DEF Father
  <2>3. phase[y] = "children" \/ Abandons(y)
    BY <1>1, <2>2 DEF Attended
  <2> QED
    BY <1>3, <2>3 DEF Settled, Abandons, Verdict
<1> QED
  BY <1>2, <1>3

LEMMA BelievedStep ==
  ASSUME Scheduled, Recorded, Attended, Settled, Believed, NEW e \in Executor, RunTask(e)
  PROVE  Believed'
<1>1. \A y \in (childError' \ childError) \cup (childSkipped' \ childSkipped) :
        /\ e \in Steps /\ y = Father(e)
        /\ y \in Steps => result[y] \notin {"success", "skipped_child"}
        /\ y \in ChildCases => status[y] \notin Verdict
  BY FlagsGrow, NoLateReport
<1>2. ASSUME NEW y \in Steps
      PROVE  /\ result'[y] \in {"success", "skipped_child"} => y \notin childError'
             /\ result'[y] = "success" => y \notin childSkipped'
  <2>1. y \in Executor
    BY DEF Steps
  <2>2. CASE result'[y] = result[y]
    BY <1>1, <2>2 DEF Believed
  <2>3. CASE result'[y] # result[y]
    <3>1. y = e /\ (ReportsFailure(e) \/ ReportsOutcome(e))
      BY <2>1, <2>3, OthersKeep, Reports DEF Keeps, ReportsNothing
    <3>2. CASE ReportsFailure(e)
      BY <3>1, <3>2 DEF ReportsFailure
    <3>3. CASE ReportsOutcome(e)
      <4>1. Father(e) # e
        BY <3>1, FatherIsAbove, TreeAssumption, <2>1
      <4>2. CASE StepSkipped(e)
        BY <2>1, <3>1, <4>2 DEF StepSkipped, Recorded, Outcomes
      <4>3. CASE StepEnds(e)
        <5>1. result'[e] = IF e \in childError THEN "error_child"
                ELSE IF e \in childSkipped THEN "skipped_child" ELSE "success"
          BY <2>1, <3>1, <4>3 DEF StepEnds, Recorded, Outcomes
        <5>2. (e \in childError' <=> e \in childError) /\ (e \in childSkipped' <=> e \in childSkipped)
          BY <4>1, <4>3 DEF StepEnds
        <5> QED
          BY <3>1, <5>1, <5>2
      <4> QED
        BY <3>1, <3>3, <4>2, <4>3, KindsApart DEF ReportsOutcome
    <3> QED
      BY <3>1, <3>2, <3>3
  <2> QED
    BY <2>2, <2>3
<1>3. ASSUME NEW c \in ChildCases
      PROVE  /\ status'[c] \in {"end", "skipped_child"} => c \notin childError'
             /\ status'[c] = "end" => c \notin childSkipped'
  <2> USE DEF Verdict
  <2>1. c \in Executor /\ c \notin Steps
    BY KindsApart DEF ChildCases
  <2>2. CASE status'[c] = status[c]
    BY <1>1, <2>2 DEF Believed
  <2>3. CASE status'[c] # status[c] /\ status'[c] \in Verdict
    <3>1. c = e
      BY <2>1, <2>3, OthersKeep DEF Keeps
    <3>2. ReportsOutcome(e)
      BY <2>3, <3>1, Reports DEF ReportsFailure, ReportsNothing
    <3>3. ChildCaseEnds(e)
      BY <2>1, <3>1, <3>2 DEF ReportsOutcome, Recorded
    <3> QED
      BY <2>1, <2>3, <3>1, <3>3 DEF ChildCaseEnds, Recorded, Outcomes
  <2> QED
    BY <2>2, <2>3
<1> QED
  BY <1>2, <1>3 DEF Believed

(* Below a child case are steps, which report to it or below it.             *)
LEMMA BelowChildCase ==
  ASSUME NEW c \in ChildCases, NEW d \in Below(c)
  PROVE  d \in Steps
<1> DEFINE S == {n \in Executor : Above[n] \cap ChildCases # {} => n \in Steps}
<1>1. S = Executor
  <2>1. Root \in S
    BY AboveIs, TreeAssumption
  <2>2. ASSUME NEW n \in Executor, n # Root, Parent[n] \in S PROVE n \in S
    <3>1. Above[n] = {Parent[n]} \cup Above[Parent[n]]
      BY <2>2, AboveIs
    <3>2. Parent[n] \in ChildCases \cup Steps => n \in Steps
      BY <2>2, KindOfChild
         DEF Steps, ChildCases, KindBelow, StepKind, ContainerKind, OriginKind
    <3> QED
      BY <2>2, <3>1, <3>2
  <2> QED
    BY <2>1, <2>2, TreeInduction
<1> QED
  BY <1>1 DEF Below

LEMMA FatherInChildCase ==
  ASSUME NEW c \in ChildCases, NEW d \in Below(c)
  PROVE  Father(d) \in Above[d] /\ (Father(d) = c \/ Father(d) \in Below(c))
<1>1. d \in Steps /\ d \in Executor /\ c \in Above[d]
  BY BelowChildCase DEF Below
<1>2. Father(d) \in Above[d] /\ Father(d) \in Steps \cup ChildCases /\ Father(d) \in Executor
  BY <1>1, FatherIsAbove, AboveType
<1>3. Father(d) = c \/ Father(d) \in Above[c] \/ c \in Above[Father(d)]
  BY <1>1, <1>2, AboveIsAChain
<1>4. c \in Executor \ Steps
  BY KindsApart DEF ChildCases
<1>5. Father(d) \notin Above[c]
  BY <1>2, <1>4, StepsAreBelow, ChildCasesAreApart
<1> QED
  BY <1>2, <1>3, <1>5 DEF Below

(* The topmost executor below the child case whose outcome does not fit would *)
(* have told a father whose outcome does fit.                                *)
LEMMA VerdictFollows ==
  ASSUME Recorded, Settled, Complete, Heard, Believed
  PROVE  VerdictIsTrue
<1> SUFFICES ASSUME NEW c \in ChildCases, NEW d \in Below(c)
             PROVE  /\ status[c] = "end" => d \in ran /\ result[d] = "success"
                    /\ status[c] = "skipped_child" /\ result[d] = "error_self" =>
                         Above[d] \cap skipped # {}
  BY DEF VerdictIsTrue
<1> USE DEF Late, Verdict
<1>1. c \in Executor /\ d \in Executor /\ d \in Steps /\ c \in Above[d]
  BY BelowChildCase DEF Below, ChildCases
<1>2. ASSUME NEW b \in Below(c) PROVE b # Root /\ b \in Children(Parent[b])
                                      /\ Parent[b] \in Executor /\ Parent[b] \in Above[b]
                                      /\ (Parent[b] = c \/ Parent[b] \in Below(c))
  <2>1. b \in Executor /\ c \in Above[b] /\ b # Root
    BY AboveIs, TreeAssumption DEF Below
  <2> QED
    BY <2>1, ParentIsExecutor, AboveIs DEF Below
<1>3. ASSUME status[c] = "end" PROVE d \in ran /\ result[d] = "success"
  <2> DEFINE B == {b \in Below(c) : result[b] # "success"}
  <2>1. B = {}
    <3> SUFFICES ASSUME B # {} PROVE FALSE
      OBVIOUS
    <3>1. PICK b \in B : Above[b] \cap B = {}
      <4>1. B \in SUBSET Executor
        BY DEF Below
      <4> HIDE DEF B
      <4> QED
        BY <4>1, Topmost
    <3>2. b \in Steps /\ b \in Executor /\ result[b] \in Result
      BY <3>1, BelowChildCase DEF Below, Recorded, Outcomes
    <3>3. phase[b] = "done"
      <4>1. Parent[b] = c \/ (Parent[b] \in Steps /\ result[Parent[b]] = "success")
        BY <1>2, <3>1, BelowChildCase
      <4> QED
        BY <1>2, <1>3, <3>1, <4>1 DEF Complete
    <3>4. Father(b) \in childError \cup childSkipped
      BY <3>1, <3>2, <3>3 DEF Settled, Heard, Result
    <3>5. Father(b) = c \/ (Father(b) \in Steps /\ result[Father(b)] = "success")
      BY <3>1, FatherInChildCase, BelowChildCase
    <3> QED
      BY <1>3, <3>4, <3>5 DEF Believed
  <2> QED
    BY <1>1, <2>1 DEF Settled
<1>4. ASSUME status[c] = "skipped_child", result[d] = "error_self", Above[d] \cap skipped = {}
      PROVE  FALSE
  <2> DEFINE H == {n \in (Above[d] \cup {d}) \cap Below(c) :
                     result[n] \in {"error_self", "error_child"} \/ phase[n] # "done"}
  <2>1. PICK h \in H : Above[h] \cap H = {}
    <3>1. H \in SUBSET Executor /\ d \in H
      BY <1>4 DEF Below
    <3> HIDE DEF H
    <3> QED
      BY <3>1, Topmost
  <2>2. h \in Steps /\ h \in Executor /\ Above[h] \subseteq Above[d]
    BY <1>1, <2>1, BelowChildCase, AboveTransitive DEF Below
  <2>3. ASSUME NEW n \in Above[h], n \in Below(c)
        PROVE  n \in Steps /\ result[n] \in {"success", "skipped_child", "skipped_self"}
    <3>1. n \in Steps /\ phase[n] = "done" /\ result[n] \notin {"error_self", "error_child"}
      BY <2>1, <2>2, <2>3, BelowChildCase
    <3>2. result[n] # "unknown" /\ result[n] \in Result
      BY <3>1 DEF Settled, Recorded, Outcomes, Steps
    <3> QED
      BY <3>1, <3>2 DEF Result
  <2>4. phase[h] = "done"
    <3>1. Parent[h] = c \/ (Parent[h] \in Steps /\ result[Parent[h]] \notin {"unknown", "error_self"})
      BY <1>2, <2>1, <2>3
    <3> QED
      BY <1>2, <1>4, <2>1, <3>1 DEF Complete
  <2>5. Father(h) \in childError
    BY <2>1, <2>2, <2>4 DEF Heard
  <2>6. Father(h) \in Above[h] /\ (Father(h) = c \/ Father(h) \in Below(c))
    BY <2>1, FatherInChildCase
  <2>7. Father(h) # c
    BY <1>4, <2>5 DEF Believed
  <2>8. Father(h) \in Steps /\ result[Father(h)] = "skipped_self"
    BY <2>3, <2>5, <2>6, <2>7 DEF Believed
  <2>9. Father(h) \in skipped
    BY <2>8 DEF Settled
  <2> QED
    BY <1>4, <2>2, <2>6, <2>9
<1> QED
  BY <1>3, <1>4

Judged == StillQueued /\ Attended /\ Settled /\ Complete /\ Heard /\ Believed

LEMMA JudgedInit ==
  ASSUME Init
  PROVE  Judged
<1>1. \A p \in Executor : \A c \in Children(p) : phase[c] = "idle"
  BY ParentOfChild DEF Init, Sched!Init
<1>2. Steps \subseteq Executor /\ ChildCases \subseteq Executor
  BY DEF Steps, ChildCases
<1>3. StillQueued
  BY DEF StillQueued, Sched!Queued, Children, Init, Sched!Init
<1>4. Attended
  BY <1>1 DEF Attended, Busy
<1>5. Settled
  <2>1. \A x \in Executor : phase[x] \notin Late
    BY DEF Init, Sched!Init, Late
  <2> QED
    BY <1>2, <2>1 DEF Settled, Init, Verdict
<1>6. Complete /\ Heard /\ Believed
  BY <1>2 DEF Complete, Heard, Believed, Init, Verdict
<1> QED
  BY <1>3, <1>4, <1>5, <1>6 DEF Judged

LEMMA JudgedNext ==
  ASSUME NoLoopIsDropped, Scheduled, Recorded, Cascade, Judged, [Next]_vars
  PROVE  Judged'
<1>1. ASSUME NEW e \in Executor, RunTask(e) PROVE Judged'
  BY <1>1, StillQueuedStep, AttendedStep, SettledStep, CompleteStep, HeardStep, BelievedStep
     DEF Judged, Cascade
<1>2. CASE TaskRunner \/ Quiescent \/ UNCHANGED vars
  <2>1. UNCHANGED <<phase, queue, status, result, childError, childSkipped, skipped, ran>>
    BY <1>2 DEF TaskRunner, Quiescent, vars, scheduling, outcome, history, Sched!TaskRunner,
       Sched!TopLevelReturns, Sched!TopLevelRaises, Sched!DrainReturns, Sched!DrainRaises,
       Sched!Quiescent, Sched!vars, Sched!semaphore
  <2> QED
    BY <2>1 DEF Judged, StillQueued, Attended, Abandons, Busy, Settled, Complete, Heard,
       Believed, Children, Sched!Queued
<1> QED
  BY <1>1, <1>2 DEF Next

(* The verdict of a child case is true of the steps below it, whatever is     *)
(* concurrent, fails, is skipped or is abandoned below, as long as no loop is  *)
(* dropped for an unknown strategy: whoever fails or is skipped tells its     *)
(* father before the father can draw its conclusion.                         *)
THEOREM VerdictsAreTrue ==
  ASSUME NoLoopIsDropped
  PROVE  Spec => []VerdictIsTrue
<1>1. Init => Cascade /\ Judged
  BY CascadeInit, JudgedInit
<1>2. Scheduled /\ Recorded /\ Cascade /\ [Next]_vars => Cascade'
  BY CascadeNext
<1>3. Scheduled /\ Recorded /\ Cascade /\ Judged /\ [Next]_vars => Judged'
  BY JudgedNext
<1>4. Recorded /\ Judged => VerdictIsTrue
  BY VerdictFollows DEF Judged
<1> QED
  BY <1>1, <1>2, <1>3, <1>4, ScheduledAlways, RecordedAlways, PTL DEF Spec

-----------------------------------------------------------------------------
(* The counters of a child case.                                             *)

InClass(d, counter) ==
  \/ counter = "failed" /\ result[d] = "error_self"
  \/ counter = "skipped" /\ result[d] = "skipped_self"
  \/ counter = "done" /\ result[d] \in {"success", "error_child", "skipped_child"}

Tally(c, counter) == {d \in Below(c) : phase[d] = "done" /\ InClass(d, counter)}

Classed ==
  \A x \in Steps :
    /\ phase[x] = "closing" => InClass(x, IF x \in skipped THEN "skipped" ELSE "done")
    /\ phase[x] = "erroring" => InClass(x, "failed")

(* At every moment, not only at the end.                                     *)
Counted ==
  \A c \in ChildCases : ~Escaped(c) =>
    \A k \in Counter : counts[c][k] = Cardinality(Tally(c, k))

LEMMA ClassedStep ==
  ASSUME Scheduled, Recorded, Classed, NEW e \in Executor, RunTask(e)
  PROVE  Classed'
<1> SUFFICES ASSUME NEW x \in Steps
             PROVE  /\ phase'[x] = "closing" =>
                         InClass(x, IF x \in skipped THEN "skipped" ELSE "done")'
                    /\ phase'[x] = "erroring" => InClass(x, "failed")'
  BY DEF Classed
<1> USE DEF InClass
<1>1. x \in Executor
  BY DEF Steps
<1>2. CASE x # e
  BY <1>1, <1>2, OthersKeep DEF Keeps, Begins, Classed
<1>3. CASE x = e /\ ReportsFailure(e)
  BY <1>3 DEF ReportsFailure, OwnFailure
<1>4. CASE x = e /\ ReportsOutcome(e)
  BY <1>4, KindsApart DEF ReportsOutcome, OwnReturn, history, StepSkipped, StepEnds, Recorded, Outcomes
<1>5. CASE x = e /\ ReportsNothing(e)
  BY <1>5 DEF ReportsNothing, OwnEnter, OwnWait, OwnCore, OwnStart, OwnClose
<1> QED
  BY <1>2, <1>3, <1>4, <1>5, Reports

(* What a step does to the counters.                                         *)
LEMMA Counts ==
  ASSUME Scheduled, Recorded, NEW e \in Executor, RunTask(e)
  PROVE  \/ counts' = counts /\ phase[e] # "done" /\ phase'[e] # "done"
         \/ /\ phase[e] = "closing" /\ phase'[e] = "done"
            /\ Count(e, IF e \in skipped THEN "skipped" ELSE "done")
            /\ result'[e] = result[e]
         \/ /\ phase[e] = "erroring" /\ phase'[e] \in {"done", "raised"}
            /\ Count(e, "failed")
            /\ result'[e] = result[e]
<1>1. phase \in [Executor -> SP!Phase]
  BY DEF Scheduled, SP!TypeOK
<1>2. CASE CallbackReturns(e)
  BY <1>1, <1>2 DEF CallbackReturns, Sched!CallbackReturns, Sched!Goto, outcome
<1>3. CASE ErrorReturns(e)
  BY <1>1, <1>3 DEF ErrorReturns, Sched!ErrorReturns, Sched!Goto
<1>4. CASE ErrorRaises(e)
  BY <1>1, <1>4 DEF ErrorRaises, Sched!ErrorRaises, Sched!Goto, outcome
<1>5. CASE ~(CallbackReturns(e) \/ ErrorReturns(e) \/ ErrorRaises(e))
  <2>1. counts' = counts
    BY <1>5 DEF RunTask, AcquireNow, AcquireWait, Resume, BeforeRaises, CoreReturns, CoreRaises,
       StartNext, StartAll, ChildRaises, RunReturns
  <2>2. ~OwnClose(e)
    <3>1. phase[e] \in {"before", "waiting", "core", "children"}
      BY <1>1, <1>5, StartsSome
         DEF RunTask, AcquireNow, AcquireWait, Resume, BeforeRaises, CoreReturns,
         CoreRaises, ChildRaises, RunReturns, Sched!AcquireNow, Sched!AcquireWait, Sched!Resume,
         Sched!BeforeRaises, Sched!CoreReturns, Sched!CoreRaises, Sched!ChildRaises,
         Sched!RunReturns, Sched!Goto
    <3> QED
      BY <3>1 DEF OwnClose
  <2>3. phase[e] # "done" /\ phase'[e] # "done"
    BY <2>2, OwnSteps DEF Own, OwnEnter, OwnWait, OwnCore, OwnFailure, OwnStart, OwnReturn
  <2> QED
    BY <2>1, <2>3
<1> QED
  BY <1>2, <1>3, <1>4, <1>5

LEMMA CaseAbove ==
  ASSUME NEW e \in Steps
  PROVE  /\ NearestAbove(e, "child_case") \in ChildCases
         /\ \A c \in ChildCases : e \in Below(c) <=> c = NearestAbove(e, "child_case")
<1> DEFINE n == NearestAbove(e, "child_case")
<1>1. e \in Executor /\ \E a \in Above[e] : Kind[a] = "child_case"
  BY CaseOfStep DEF Steps, ChildCases
<1>2. n \in Above[e] /\ Kind[n] = "child_case"
      /\ \A b \in Above[e] : Kind[b] = "child_case" => b = n \/ b \in Above[n]
  BY <1>1, NearestIsFound
<1> HIDE DEF n
<1>3. n \in ChildCases
  BY <1>1, <1>2, AboveType DEF ChildCases
<1>4. Above[n] \cap ChildCases = {}
  BY <1>3, ChildCasesAreApart
<1>5. \A c \in ChildCases : c \in Above[e] <=> c = n
  BY <1>2, <1>3, <1>4 DEF ChildCases
<1> QED
  BY <1>1, <1>3, <1>5 DEF n, Below

LEMMA CountOfCase ==
  ASSUME counts \in [ChildCases -> [Counter -> Nat]], NEW e \in Executor,
         NEW kind \in Counter, Count(e, kind), NEW c \in ChildCases, NEW k \in Counter
  PROVE  counts'[c][k] = IF e \in Below(c) /\ k = kind THEN counts[c][k] + 1 ELSE counts[c][k]
<1>1. CASE e \in Steps
  <2> DEFINE n == NearestAbove(e, "child_case")
  <2>1. n \in ChildCases /\ (e \in Below(c) <=> c = n)
    BY <1>1, CaseAbove
  <2>2. counts' = [counts EXCEPT ![n] = [counts[n] EXCEPT ![kind] = counts[n][kind] + 1]]
    BY <1>1 DEF Count
  <2> HIDE DEF n
  <2>3. counts[c] \in [Counter -> Nat] /\ counts[n] \in [Counter -> Nat]
    BY <2>1
  <2> QED
    BY <2>1, <2>2, <2>3
<1>2. CASE e \notin Steps
  BY <1>2, BelowChildCase DEF Count
<1> QED
  BY <1>1, <1>2

LEMMA CountedStep ==
  ASSUME Scheduled, Recorded, Classed, Counted, NEW e \in Executor, RunTask(e)
  PROVE  Counted'
<1> SUFFICES ASSUME NEW c \in ChildCases, \A d \in Below(c) : phase'[d] # "raised",
                    NEW k \in Counter
             PROVE  counts'[c][k] = Cardinality(Tally(c, k))'
  BY DEF Counted, Escaped, Below
<1>1. \A d \in Below(c) : d \in Executor /\ d \in Steps
  BY BelowChildCase DEF Below
<1>2. \A d \in Below(c) \ {e} :
        (phase'[d] = "done" <=> phase[d] = "done") /\ result'[d] = result[d]
  BY <1>1, OthersKeep DEF Keeps, Begins
<1>3. phase[e] \notin {"done", "raised"}
  BY OwnSteps DEF Own, OwnEnter, OwnWait, OwnCore, OwnFailure, OwnStart, OwnReturn, OwnClose
<1>4. ~Escaped(c)
  <2>1. \A d \in Below(c) \ {e} : phase[d] # "raised"
    BY <1>1, OthersKeep DEF Begins
  <2> QED
    BY <1>3, <2>1 DEF Escaped
<1>5. counts[c][k] = Cardinality(Tally(c, k)) /\ counts[c][k] \in Nat
  BY <1>4 DEF Counted, Recorded
<1>6. IsFiniteSet(Tally(c, k))
  <2>1. Tally(c, k) \subseteq Executor
    BY <1>1 DEF Tally
  <2> QED
    BY <2>1, TreeAssumption, FS_Subset
<1>7. Tally(c, k)' = {d \in Below(c) : phase'[d] = "done" /\ InClass(d, k)'}
  BY DEF Tally, Below
<1>8. CASE counts' = counts /\ phase[e] # "done" /\ phase'[e] # "done"
  <2>1. Tally(c, k)' = Tally(c, k)
    BY <1>2, <1>7, <1>8 DEF Tally, InClass
  <2> QED
    BY <1>5, <1>8, <2>1
<1>9. ASSUME NEW kind \in Counter, Count(e, kind), result'[e] = result[e],
             e \in Below(c) => phase'[e] = "done" /\ InClass(e, kind)
      PROVE  counts'[c][k] = Cardinality(Tally(c, k))'
  <2>1. counts'[c][k] = IF e \in Below(c) /\ k = kind THEN counts[c][k] + 1 ELSE counts[c][k]
    BY <1>9, CountOfCase DEF Recorded
  <2>2. CASE e \in Below(c) /\ k = kind
    <3>1. Tally(c, k)' = Tally(c, k) \cup {e}
      BY <1>2, <1>7, <1>9, <2>2 DEF Tally, InClass
    <3>2. e \notin Tally(c, k)
      BY <1>3 DEF Tally
    <3>3. Cardinality(Tally(c, k) \cup {e}) = Cardinality(Tally(c, k)) + 1
      BY <1>6, <3>2, FS_AddElement
    <3> QED
      BY <1>5, <2>1, <2>2, <3>1, <3>3
  <2>3. CASE ~(e \in Below(c) /\ k = kind)
    <3>1. e \in Below(c) => ~InClass(e, k) /\ ~InClass(e, k)'
      BY <1>9, <2>3 DEF InClass
    <3>2. Tally(c, k)' = Tally(c, k)
      BY <1>2, <1>7, <3>1 DEF Tally, InClass
    <3> QED
      BY <1>5, <2>1, <2>3, <3>2
  <2> QED
    BY <2>2, <2>3
<1>10. ASSUME phase[e] = "closing", phase'[e] = "done", result'[e] = result[e],
              Count(e, IF e \in skipped THEN "skipped" ELSE "done")
       PROVE  counts'[c][k] = Cardinality(Tally(c, k))'
  BY <1>1, <1>9, <1>10 DEF Classed, Counter
<1>11. ASSUME phase[e] = "erroring", phase'[e] \in {"done", "raised"}, Count(e, "failed"),
              result'[e] = result[e]
       PROVE  counts'[c][k] = Cardinality(Tally(c, k))'
  BY <1>1, <1>9, <1>11 DEF Classed, Counter
<1> QED
  BY <1>8, <1>10, <1>11, Counts

(* Below a finished child case nothing is still closing, unless an exception  *)
(* made an executor stop waiting.                                            *)
LEMMA NothingUnderWay ==
  ASSUME Scheduled, NEW c \in ChildCases, phase[c] = "done", ~Escaped(c), NEW d \in Below(c)
  PROVE  phase[d] \in {"idle", "done"}
<1> SUFFICES ASSUME Busy(d) PROVE FALSE
  BY DEF Busy
<1> DEFINE B == {b \in Below(c) : Busy(b)}
<1>1. PICK b \in B : Above[b] \cap B = {}
  <2>1. B \in SUBSET Executor /\ d \in B
    BY DEF Below
  <2> HIDE DEF B
  <2> QED
    BY <2>1, Topmost
<1> DEFINE p == Parent[b]
<1>2. b \in Executor /\ b # Root /\ c \in Above[b] /\ Busy(b)
  BY <1>1, AboveIs, TreeAssumption DEF Below
<1>3. p \in Executor /\ b \in Children(p) /\ Above[b] = {p} \cup Above[p]
  BY <1>2, ParentIsExecutor, AboveIs
<1>4. p = c \/ p \in Below(c)
  BY <1>2, <1>3 DEF Below
<1>5. phase[p] # "children"
  BY <1>1, <1>3, <1>4 DEF Busy
<1>6. \A s \in Children(p) : s \in Below(c)
  <2>1. \A s \in Children(p) : s \in Executor /\ Above[s] = {p} \cup Above[p]
    <3> TAKE s \in Children(p)
    <3>1. s \in Executor /\ s # Root /\ Parent[s] = p
      BY <1>3, ParentOfChild
    <3> QED
      BY <3>1, AboveIs
  <2> QED
    BY <1>4, <2>1 DEF Below
<1>7. phase[b] # "raised"
  BY <1>1 DEF Escaped
<1>8. \E s \in Children(p) : phase[s] = "raised"
  BY <1>2, <1>3, <1>5, <1>7 DEF Scheduled, SP!Awaited, SP!ActiveChildAwaited, SP!Active,
     SP!Finished, SP!Children, Children, Busy
<1> QED
  BY <1>6, <1>8 DEF Escaped

LEMMA TalliesAreComplete ==
  ASSUME Scheduled, Recorded, Settled, Counted
  PROVE  CountsAreExact
<1> SUFFICES ASSUME NEW c \in ChildCases, phase[c] = "done", ~Escaped(c)
             PROVE  /\ counts[c]["failed"] = Cardinality(Below(c) \cap Failed)
                    /\ counts[c]["skipped"] =
                         Cardinality({d \in Below(c) : result[d] = "skipped_self"})
                    /\ counts[c]["done"] = Cardinality(
                         {d \in Below(c) : result[d] \in {"success", "error_child", "skipped_child"}})
  BY DEF CountsAreExact
<1>1. \A d \in Below(c) : d \in Steps /\ (result[d] # "unknown" => phase[d] = "done")
  BY BelowChildCase, NothingUnderWay DEF Settled, Late
<1>2. \A k \in Counter : counts[c][k] = Cardinality(Tally(c, k))
  BY DEF Counted
<1>3. Tally(c, "failed") = Below(c) \cap Failed
  BY <1>1 DEF Tally, InClass, Failed
<1>4. Tally(c, "skipped") = {d \in Below(c) : result[d] = "skipped_self"}
  BY <1>1 DEF Tally, InClass
<1>5. Tally(c, "done") =
        {d \in Below(c) : result[d] \in {"success", "error_child", "skipped_child"}}
  BY <1>1 DEF Tally, InClass
<1> QED
  BY <1>2, <1>3, <1>4, <1>5 DEF Counter

LEMMA CountedInit ==
  ASSUME Init
  PROVE  Classed /\ Counted
<1>1. \A x \in Executor : phase[x] \notin {"closing", "erroring", "done"}
  BY DEF Init, Sched!Init
<1>2. Classed
  BY <1>1 DEF Classed, Steps
<1>3. ASSUME NEW c \in ChildCases, NEW k \in Counter PROVE counts[c][k] = Cardinality(Tally(c, k))
  <2>1. Tally(c, k) = {}
    BY <1>1 DEF Tally, Below
  <2> QED
    BY <2>1, FS_EmptySet DEF Init
<1> QED
  BY <1>2, <1>3 DEF Counted

LEMMA CountedNext ==
  ASSUME Scheduled, Recorded, Entered, Settled, Classed, Counted, [Next]_vars
  PROVE  Settled' /\ Classed' /\ Counted'
<1>1. ASSUME NEW e \in Executor, RunTask(e) PROVE Settled' /\ Classed' /\ Counted'
  BY <1>1, SettledStep, ClassedStep, CountedStep
<1>2. CASE TaskRunner \/ Quiescent \/ UNCHANGED vars
  <2>1. UNCHANGED <<phase, status, result, skipped, ran, counts>>
    BY <1>2 DEF TaskRunner, Quiescent, vars, scheduling, outcome, history, Sched!TaskRunner,
       Sched!TopLevelReturns, Sched!TopLevelRaises, Sched!DrainReturns, Sched!DrainRaises,
       Sched!Quiescent, Sched!vars, Sched!semaphore
  <2>2. Settled' /\ Classed'
    BY <2>1 DEF Settled, Classed, InClass
  <2>3. Counted'
    BY <2>1 DEF Counted, Escaped, Tally, InClass
  <2> QED
    BY <2>2, <2>3
<1> QED
  BY <1>1, <1>2 DEF Next

(* Once a child case has finished, and no exception has left an executor below*)
(* it, its counters add up: each step below is counted once, as what it was.  *)
THEOREM CountersAreExact == Spec => []CountsAreExact
<1>1. Init => Cascade /\ Settled /\ Classed /\ Counted
  BY CascadeInit, JudgedInit, CountedInit DEF Judged
<1>2. Scheduled /\ Recorded /\ Cascade /\ [Next]_vars => Cascade'
  BY CascadeNext
<1>3. Scheduled /\ Recorded /\ Cascade /\ Settled /\ Classed /\ Counted /\ [Next]_vars
        => Settled' /\ Classed' /\ Counted'
  BY CountedNext DEF Cascade
<1>4. Scheduled /\ Recorded /\ Settled /\ Counted => CountsAreExact
  BY TalliesAreComplete
<1> QED
  BY <1>1, <1>2, <1>3, <1>4, ScheduledAlways, RecordedAlways, PTL DEF Spec

-----------------------------------------------------------------------------
(* Where the climb of a failed step's error strategy ends.                   *)

LEMMA RootIsAbove ==
  ASSUME NEW e \in Executor, e # Root
  PROVE  Root \in Above[e]
<1> DEFINE S == {n \in Executor : n = Root \/ Root \in Above[n]}
<1>1. Root \in S
  BY TreeAssumption
<1>2. ASSUME NEW n \in Executor, n # Root, Parent[n] \in S PROVE n \in S
  <2>1. Above[n] = {Parent[n]} \cup Above[Parent[n]]
    BY <1>2, AboveIs
  <2> QED
    BY <1>2, <2>1
<1>3. S = Executor
  BY <1>1, <1>2, TreeInduction
<1> QED
  BY <1>3

LEMMA NoneAboveItself ==
  ASSUME NEW e \in Executor
  PROVE  e \notin Above[e] /\ Above[e] \subseteq Executor
         /\ \A a \in Above[e] : Above[a] \subseteq Above[e] /\ a \notin Above[a] /\ e \notin Above[a]
<1>1. \A a \in Above[e] : a \in Executor /\ Above[a] \subseteq Above[e]
  BY AboveType, AboveTransitive
<1> QED
  BY <1>1, AboveType, TreeAssumption

(* The climb of get_real_error_strategy ends: it stops at the nearest        *)
(* executor above that does not hand the error on, and keeps the topmost     *)
(* child multitasker on the way.                                             *)
LEMMA ClimbEnds ==
  ASSUME NEW H \in SUBSET (Executor \ {Root}), NEW M \in SUBSET Executor
  PROVE  \E f : f = [n \in Executor \ {Root} |->
           LET up   == Parent[n]
               iter == IF up \in M THEN up ELSE NoNode
           IN  IF up \in H
                 THEN <<f[up][1], IF f[up][2] = NoNode THEN iter ELSE f[up][2]>>
                 ELSE <<up, iter>>]
<1> DEFINE Stops(n, a) == a \in Above[n] \ H /\ \A b \in Above[n] \ H : b = a \/ b \in Above[a]
           Stop(n) == CHOOSE a : Stops(n, a)
           Iters(n) == {b \in Above[n] \cap M : b = Stop(n) \/ Stop(n) \in Above[b]}
           Tops(B, t) == t \in B /\ Above[t] \cap B = {}
           Iter(n) == IF Iters(n) = {} THEN NoNode ELSE CHOOSE t : Tops(Iters(n), t)
           mine(n) == IF Parent[n] \in M THEN Parent[n] ELSE NoNode
           f == [n \in Executor \ {Root} |-> <<Stop(n), Iter(n)>>]
<1>1. ASSUME NEW n \in Executor \ {Root} PROVE Stops(n, Stop(n))
  <2> DEFINE S == {e \in Executor : e # Root => \E a : Stops(e, a)}
  <2>1. S = Executor
    <3>1. Root \in S
      BY TreeAssumption
    <3>2. ASSUME NEW e \in Executor, e # Root, Parent[e] \in S PROVE e \in S
      <4>1. Above[e] = {Parent[e]} \cup Above[Parent[e]] /\ Parent[e] \in Executor
        BY <3>2, AboveIs
      <4>2. CASE Parent[e] \notin H
        <5>1. Stops(e, Parent[e])
          BY <4>1, <4>2
        <5> QED
          BY <5>1
      <4>3. CASE Parent[e] \in H
        <5>1. PICK a : Stops(Parent[e], a)
          BY <3>2, <4>3
        <5>2. Stops(e, a)
          BY <4>1, <4>3, <5>1
        <5> QED
          BY <5>2
      <4> QED
        BY <4>2, <4>3
    <3> HIDE DEF S
    <3>3. S \in SUBSET Executor
      BY DEF S
    <3> QED
      BY <3>1, <3>2, <3>3, TreeInduction
  <2> HIDE DEF Stops
  <2> QED
    BY <2>1
<1>2. ASSUME NEW n \in Executor, NEW a, NEW b, Stops(n, a), Stops(n, b) PROVE a = b
  <2>1. \A x \in Above[n] : x \notin Above[x] /\ Above[x] \subseteq Executor
                            /\ \A y \in Above[x] : x \notin Above[y]
    BY AboveType, NoneAboveItself
  <2> QED
    BY <1>2, <2>1
<1>3. ASSUME NEW n \in Executor \ {Root}
      PROVE  /\ Parent[n] \in H => Stop(n) = Stop(Parent[n])
             /\ Parent[n] \notin H => Stop(n) = Parent[n]
  <2>1. Above[n] = {Parent[n]} \cup Above[Parent[n]] /\ Parent[n] \in Executor
    BY AboveIs, ParentIsExecutor
  <2>2. CASE Parent[n] \in H
    <3>1. Stops(Parent[n], Stop(Parent[n]))
      BY <1>1, <2>1, <2>2
    <3>2. Stops(n, Stop(Parent[n]))
      BY <2>1, <2>2, <3>1
    <3> HIDE DEF Stops, Stop
    <3> QED
      BY <1>1, <1>2, <2>2, <3>2
  <2>3. CASE Parent[n] \notin H
    <3>1. Stops(n, Parent[n])
      BY <2>1, <2>3
    <3> HIDE DEF Stops, Stop
    <3> QED
      BY <1>1, <1>2, <2>3, <3>1
  <2> QED
    BY <2>2, <2>3
<1>4. ASSUME NEW n \in Executor \ {Root}, Parent[n] \in H
      PROVE  Iters(n) = Iters(Parent[n]) \cup (M \cap {Parent[n]})
  <2>1. Above[n] = {Parent[n]} \cup Above[Parent[n]] /\ Parent[n] \in Executor
    BY AboveIs, ParentIsExecutor
  <2>2. Stop(n) = Stop(Parent[n]) /\ Stop(n) \in Above[Parent[n]]
    <3>1. Stop(n) = Stop(Parent[n])
      BY <1>3, <1>4
    <3>2. Stops(Parent[n], Stop(Parent[n]))
      BY <1>1, <1>4, <2>1
    <3> HIDE DEF Stop
    <3> QED
      BY <3>1, <3>2
  <2> HIDE DEF Stop
  <2> QED
    BY <2>1, <2>2
<1>5. ASSUME NEW n \in Executor \ {Root}, Parent[n] \notin H
      PROVE  Iters(n) = M \cap {Parent[n]}
  <2>1. Above[n] = {Parent[n]} \cup Above[Parent[n]] /\ Parent[n] \in Executor
    BY AboveIs, ParentIsExecutor
  <2>2. Stop(n) = Parent[n]
    BY <1>3, <1>5
  <2>3. \A b \in Above[Parent[n]] : Parent[n] # b /\ Parent[n] \notin Above[b]
    BY <2>1, NoneAboveItself
  <2> HIDE DEF Stop
  <2> QED
    BY <2>1, <2>2, <2>3
<1>6. ASSUME NEW n \in Executor, NEW B \in SUBSET Above[n], NEW a, NEW b, Tops(B, a), Tops(B, b)
      PROVE  a = b
  BY <1>6, AboveIsAChain
<1>7. ASSUME NEW n \in Executor, Iters(n) # {}
      PROVE  Tops(Iters(n), Iter(n)) /\ Iter(n) \in Executor /\ Iter(n) # NoNode
  <2> DEFINE B == Iters(n)
  <2>1. B \in SUBSET Executor
    BY AboveType
  <2> HIDE DEF B
  <2>2. \E t \in B : Above[t] \cap B = {}
    BY <1>7, <2>1, Topmost DEF B
  <2>3. \E t : Tops(B, t)
    BY <2>2
  <2>4. Iter(n) = CHOOSE t : Tops(B, t)
    BY <1>7 DEF B
  <2>5. Tops(B, Iter(n))
    BY <2>3, <2>4
  <2> HIDE DEF Iters, Iter
  <2>6. Iter(n) \in Executor
    BY <2>1, <2>5
  <2> QED
    BY <2>5, <2>6, TreeAssumption DEF B
<1>8. ASSUME NEW n \in Executor \ {Root}, Parent[n] \in H
      PROVE  Iter(n) = IF Iter(Parent[n]) = NoNode THEN mine(n) ELSE Iter(Parent[n])
  <2>1. Above[n] = {Parent[n]} \cup Above[Parent[n]] /\ Parent[n] \in Executor /\ Parent[n] # NoNode
    BY AboveIs, ParentIsExecutor, TreeAssumption
  <2>2. Iters(n) \in SUBSET Above[n] /\ Iters(Parent[n]) \in SUBSET Above[Parent[n]]
    OBVIOUS
  <2>3. Iters(n) = Iters(Parent[n]) \cup (M \cap {Parent[n]})
    BY <1>4, <1>8
  <2>4. CASE Iters(Parent[n]) = {} /\ Parent[n] \notin M
    <3> HIDE DEF Iters
    <3> QED
      BY <2>3, <2>4
  <2>5. CASE Iters(Parent[n]) = {} /\ Parent[n] \in M
    <3>1. Iters(n) = {Parent[n]}
      <4> HIDE DEF Iters
      <4> QED
        BY <2>3, <2>5
    <3>2. Iter(n) = Parent[n]
      <4>1. Tops(Iters(n), Iter(n))
        BY <1>7, <3>1
      <4> HIDE DEF Iters, Iter
      <4> QED
        BY <3>1, <4>1
    <3>3. Iter(Parent[n]) = NoNode
      BY <2>5
    <3> QED
      BY <2>5, <3>2, <3>3
  <2>6. CASE Iters(Parent[n]) # {}
    <3>1. Tops(Iters(Parent[n]), Iter(Parent[n])) /\ Iter(Parent[n]) # NoNode
      BY <1>7, <2>1, <2>6
    <3> HIDE DEF Iters, Iter
    <3>3. Iter(Parent[n]) \in Above[Parent[n]]
      BY <2>2, <3>1
    <3>4. Parent[n] \notin Above[Iter(Parent[n])]
      BY <2>1, <3>3, NoneAboveItself
    <3>5. Tops(Iters(n), Iter(Parent[n]))
      BY <2>3, <3>1, <3>4
    <3>6. Tops(Iters(n), Iter(n))
      BY <1>7, <3>5
    <3> QED
      BY <1>6, <2>2, <3>1, <3>5, <3>6
  <2> QED
    BY <2>4, <2>5, <2>6
<1>9. ASSUME NEW n \in Executor \ {Root}, Parent[n] \notin H
      PROVE  Iter(n) = mine(n)
  <2>1. CASE Parent[n] \in M
    <3>1. Iters(n) = {Parent[n]}
      BY <1>5, <1>9, <2>1
    <3>2. Tops(Iters(n), Iter(n))
      BY <1>7, <3>1
    <3> HIDE DEF Iters, Iter
    <3> QED
      BY <2>1, <3>1, <3>2
  <2>2. CASE Parent[n] \notin M
    BY <1>5, <1>9, <2>2
  <2> QED
    BY <2>1, <2>2
<1> HIDE DEF Stop, Iter, Iters
<1>10. ASSUME NEW n \in Executor \ {Root}
       PROVE  f[n] = IF Parent[n] \in H
                       THEN <<f[Parent[n]][1], IF f[Parent[n]][2] = NoNode THEN mine(n)
                                               ELSE f[Parent[n]][2]>>
                       ELSE <<Parent[n], mine(n)>>
  BY <1>3, <1>8, <1>9, ParentIsExecutor
<1>11. f = [n \in Executor \ {Root} |->
           LET up   == Parent[n]
               iter == IF up \in M THEN up ELSE NoNode
           IN  IF up \in H
                 THEN <<f[up][1], IF f[up][2] = NoNode THEN iter ELSE f[up][2]>>
                 ELSE <<up, iter>>]
  <2>1. f = [n \in Executor \ {Root} |-> f[n]]
    OBVIOUS
  <2> HIDE DEF f
  <2> QED
    BY <1>10, <2>1
<1> QED
  BY <1>11

(* The equation of the climb.                                                *)
LEMMA ClimbIs ==
  ASSUME NEW e \in Executor \ {Root}, NEW s, NEW i
  PROVE  LET up   == Parent[e]
             iter == IF Kind[up] = "child_multitasker" THEN up ELSE NoNode
             rest == RealErrorStrategy(up, s, i)
         IN  RealErrorStrategy(e, s, i) =
               IF HandsOn(up, s, i)
                 THEN <<rest[1], IF rest[2] = NoNode THEN iter ELSE rest[2]>>
                 ELSE <<up, iter>>
<1> DEFINE F(f) == f = [n \in Executor \ {Root} |->
             LET up   == Parent[n]
                 iter == IF Kind[up] = "child_multitasker" THEN up ELSE NoNode
             IN  IF HandsOn(up, s, i)
                   THEN <<f[up][1], IF f[up][2] = NoNode THEN iter ELSE f[up][2]>>
                   ELSE <<up, iter>>]
           climb == CHOOSE f : F(f)
<1>1. \E f : F(f)
  <2> DEFINE H == {a \in Executor : HandsOn(a, s, i)}
             M == {a \in Executor : Kind[a] = "child_multitasker"}
  <2>1. H \in SUBSET (Executor \ {Root}) /\ M \in SUBSET Executor
    BY DEF HandsOn
  <2>2. \A n \in Executor \ {Root} :
          /\ Parent[n] \in H <=> HandsOn(Parent[n], s, i)
          /\ Parent[n] \in M <=> Kind[Parent[n]] = "child_multitasker"
    BY ParentIsExecutor
  <2> HIDE DEF H, M
  <2>3. PICK f : f = [n \in Executor \ {Root} |->
           LET up   == Parent[n]
               iter == IF up \in M THEN up ELSE NoNode
           IN  IF up \in H
                 THEN <<f[up][1], IF f[up][2] = NoNode THEN iter ELSE f[up][2]>>
                 ELSE <<up, iter>>]
    BY <2>1, ClimbEnds
  <2>4. F(f)
    BY <2>2, <2>3
  <2> QED
    BY <2>4
<1>2. F(climb)
  BY <1>1
<1>3. \A n \in Executor : RealErrorStrategy(n, s, i) = climb[n]
  BY DEF RealErrorStrategy
<1> HIDE DEF climb
<1> QED
  BY <1>2, <1>3, ParentIsExecutor

(* It stops above the failed step, at one that does not hand the error on.   *)
LEMMA ClimbIsAbove ==
  ASSUME NEW e \in Executor \ {Root}, NEW s, NEW i
  PROVE  /\ Decider(e, s, i) \in Above[e] /\ ~HandsOn(Decider(e, s, i), s, i)
         /\ ChildIter(e, s, i) # NoNode =>
              /\ ChildIter(e, s, i) \in Above[e]
              /\ Kind[ChildIter(e, s, i)] = "child_multitasker"
<1> DEFINE R(n) == RealErrorStrategy(n, s, i)
           P(n) == /\ R(n)[1] \in Above[n] /\ ~HandsOn(R(n)[1], s, i)
                   /\ R(n)[2] # NoNode => R(n)[2] \in Above[n] /\ Kind[R(n)[2]] = "child_multitasker"
           S == {n \in Executor : n # Root => P(n)}
<1>1. S = Executor
  <2>1. Root \in S
    BY TreeAssumption
  <2>2. ASSUME NEW n \in Executor, n # Root, Parent[n] \in S PROVE n \in S
    <3> DEFINE up == Parent[n]
               iter == IF Kind[up] = "child_multitasker" THEN up ELSE NoNode
    <3>1. R(n) = IF HandsOn(up, s, i)
                   THEN <<R(up)[1], IF R(up)[2] = NoNode THEN iter ELSE R(up)[2]>>
                   ELSE <<up, iter>>
      BY <2>2, ClimbIs
    <3>2. Above[n] = {up} \cup Above[up] /\ up \in Executor
      BY <2>2, AboveIs, ParentIsExecutor
    <3>3. HandsOn(up, s, i) => P(up)
      BY <2>2 DEF HandsOn
    <3> HIDE DEF R
    <3>4. P(n)
      BY <3>1, <3>2, <3>3
    <3> QED
      BY <2>2, <3>4
  <2> HIDE DEF S
  <2>3. S \in SUBSET Executor
    BY DEF S
  <2> QED
    BY <2>1, <2>2, <2>3, TreeInduction
<1> QED
  BY <1>1 DEF Decider, ChildIter

(* The nearest of a kind is above, or there is none.                         *)
LEMMA NearestType ==
  ASSUME NEW e \in Executor, NEW kind
  PROVE  NearestAbove(e, kind) \in Above[e] \cup {NoNode}
<1>1. CASE \E a \in Above[e] : Kind[a] = kind
  BY <1>1, NearestIsFound
<1>2. CASE ~\E a \in Above[e] : Kind[a] = kind
  BY <1>2 DEF NearestAbove
<1> QED
  BY <1>1, <1>2

(* What a failed step ends is above it, or is the step.                      *)
LEMMA TargetIsAbove ==
  ASSUME NEW e \in Steps, NEW s, NEW i
  PROVE  Target(e, s, i) \in Above[e] \cup {e, NoNode}
<1>1. e \in Executor /\ e # Root
  BY StepIsNoRoot
<1>2. Root \in Above[e]
  BY <1>1, RootIsAbove
<1>3. \A kind : NearestAbove(e, kind) \in Above[e] \cup {NoNode}
  BY <1>1, NearestType
<1>4. \A kind : NearestFrom(e, kind) \in Above[e] \cup {e, NoNode}
  BY <1>3 DEF NearestFrom
<1>5. ChildIter(e, s, i) # NoNode =>
        ChildIter(e, s, i) \in Above[e] /\ Parent[ChildIter(e, s, i)] \in Above[e]
  <2> DEFINE it == ChildIter(e, s, i)
  <2> SUFFICES ASSUME it # NoNode PROVE it \in Above[e] /\ Parent[it] \in Above[e]
    OBVIOUS
  <2>1. it \in Above[e] /\ Kind[it] = "child_multitasker"
    BY <1>1, ClimbIsAbove
  <2>2. it \in Executor /\ it # Root
    BY <1>1, <2>1, AboveType, KindAssumption
  <2>3. Parent[it] \in Above[it] /\ Above[it] \subseteq Above[e]
    <3> HIDE DEF it
    <3>1. Above[it] = {Parent[it]} \cup Above[Parent[it]]
      BY <2>2, AboveIs
    <3>2. Above[it] \subseteq Above[e]
      BY <1>1, <2>1, AboveTransitive
    <3> QED
      BY <3>1, <3>2
  <2> QED
    BY <2>1, <2>3
<1> HIDE DEF NearestAbove
<1> QED
  BY <1>2, <1>3, <1>4, <1>5 DEF Target

-----------------------------------------------------------------------------
(* Why a step is skipped.                                                    *)

(* A parent that runs its children one by one has one at a time under way.   *)
InOrder ==
  \A p \in Executor : Mode[p] = "sequential" =>
    \A c, d \in Children(p) : c # d /\ Busy(c) => ~Busy(d)

LEMMA InOrderStep ==
  ASSUME Scheduled, Recorded, InOrder, NEW e \in Executor, RunTask(e)
  PROVE  InOrder'
<1> SUFFICES ASSUME NEW p \in Executor, Mode[p] = "sequential",
                    NEW c \in Children(p), NEW d \in Children(p), c # d,
                    phase'[c] \notin {"idle", "done"}, phase'[d] \notin {"idle", "done"}
             PROVE  FALSE
  BY DEF InOrder, Busy, Children
<1> USE DEF Busy
<1>1. c \in Executor /\ d \in Executor /\ phase \in [Executor -> SP!Phase]
  BY ChildrenAreExecutors DEF Scheduled, SP!TypeOK
<1>2. phase[e] \notin {"idle", "done"}
  BY OwnSteps DEF Own, OwnEnter, OwnWait, OwnCore, OwnFailure, OwnStart, OwnReturn, OwnClose
<1>3. ASSUME NEW x \in Children(p), phase'[x] \notin {"idle", "done"}, ~Busy(x)
      PROVE  StartNext(p)
  <2>1. x \in Executor /\ x # e
    BY <1>2, <1>3, ChildrenAreExecutors
  <2>2. Begins(e, x)
    BY <1>3, <2>1, OthersKeep
  <2>3. p = e
    BY <2>2, ParentOfChild DEF Begins
  <2>4. StartNext(e) \/ StartAll(e)
    BY <1>1, <2>1, <2>2 DEF Begins, RunTask, AcquireNow, AcquireWait, Resume, BeforeRaises,
       CoreReturns, CoreRaises, ChildRaises, RunReturns, CallbackReturns, ErrorReturns, ErrorRaises,
       Sched!AcquireNow, Sched!AcquireWait, Sched!Resume, Sched!BeforeRaises,
       Sched!CoreReturns, Sched!CoreRaises, Sched!ChildRaises, Sched!RunReturns,
       Sched!CallbackReturns, Sched!ErrorReturns, Sched!ErrorRaises, Sched!Goto
  <2> QED
    BY <2>3, <2>4 DEF StartAll, Sched!StartAll
<1>4. CASE StartNext(p)
  <2>1. /\ \A x \in Children(p) : phase[x] \in {"idle", "done"}
        /\ phase' = [phase EXCEPT ![Head(queue[p])] = "before"]
    BY <1>4 DEF StartNext, Sched!StartNext, Sched!Children, Children
  <2> QED
    BY <1>1, <2>1
<1>5. CASE ~StartNext(p)
  <2>1. Busy(c) /\ Busy(d)
    BY <1>3, <1>5
  <2> QED
    BY <2>1 DEF InOrder
<1> QED
  BY <1>4, <1>5

(* Below a child case that is over, what is under way is below a failed step. *)
LEMMA OrphansHaveFailed ==
  ASSUME Scheduled, Attended, InOrder, NEW c \in ChildCases, phase[c] \in Late,
         NEW d \in Below(c), phase[d] \notin {"idle", "done", "raised"}
  PROVE  Above[d] \cap Failed # {}
<1> DEFINE Active(x) == phase[x] \notin {"idle", "done", "raised"}
           B == {b \in Below(c) : (b = d \/ b \in Above[d]) /\ Active(b)}
<1>1. PICK b \in B : Above[b] \cap B = {}
  <2>1. B \in SUBSET Executor /\ d \in B
    BY DEF Below
  <2> HIDE DEF B
  <2> QED
    BY <2>1, Topmost
<1> DEFINE p == Parent[b]
<1>2. b \in Executor /\ b # Root /\ c \in Above[b] /\ Active(b) /\ d \in Executor
  BY <1>1, AboveIs, TreeAssumption DEF Below
<1>3. p \in Executor /\ b \in Children(p) /\ Above[b] = {p} \cup Above[p]
  BY <1>2, ParentIsExecutor, AboveIs
<1>4. p \in Above[d]
  <2>1. b \in Above[d] => Above[b] \subseteq Above[d]
    BY <1>2, AboveTransitive
  <2> QED
    BY <1>1, <1>3, <2>1
<1>5. p # c
  <2> SUFFICES ASSUME p = c PROVE FALSE
    OBVIOUS
  <2>1. \E s \in Children(p) : phase[s] = "raised"
    BY <1>2, <1>3 DEF Scheduled, SP!Awaited, SP!ActiveChildAwaited, SP!Active,
       SP!Finished, SP!Children, Children, Late
  <2>2. Mode[p] = "sequential"
    BY ExecutionAssumption DEF ChildCases
  <2> QED
    BY <1>2, <1>3, <2>1, <2>2 DEF InOrder, Busy
<1>6. p \in Below(c)
  BY <1>2, <1>3, <1>5 DEF Below
<1>7. ~Active(p)
  BY <1>1, <1>3, <1>4, <1>6
<1>8. Abandons(p)
  BY <1>2, <1>3, <1>7 DEF Attended, Busy
<1>9. p \in Steps
  BY <1>3, <1>6, BelowChildCase DEF Below
<1> QED
  BY <1>4, <1>8, <1>9 DEF Abandons, Failed

(* What has been skipped, has failed or was ended stays so.                  *)
LEMMA CausesGrow ==
  ASSUME Scheduled, Recorded, Entered, Settled, NEW e \in Executor, RunTask(e)
  PROVE  /\ skipped \subseteq skipped' /\ unmet \subseteq unmet'
         /\ Failed \subseteq Failed' /\ Ended \subseteq Ended'
<1>1. skipped \subseteq skipped' /\ unmet \subseteq unmet'
  <2>1. \A x \in Steps : x # e => Keeps(x)
    BY OthersKeep DEF Steps
  <2>2. OwnEnter(e) => e \notin skipped /\ unmet' = unmet
    BY DEF OwnEnter, Entered, Early, Recorded
  <2>3. ~OwnEnter(e) => skipped' = skipped /\ unmet \subseteq unmet'
    BY OwnSteps DEF Own, OwnWait, OwnCore, OwnFailure, OwnStart, OwnReturn, OwnClose, history
  <2> QED
    BY <2>1, <2>2, <2>3 DEF Keeps, Recorded
<1>2. ASSUME NEW x \in Failed PROVE result'[x] = result[x]
  <2>1. x \in Steps /\ x \in Executor /\ phase[x] \in Late
    BY <1>2 DEF Failed, Settled, Steps
  <2>2. CASE x # e
    BY <2>1, <2>2, OthersKeep DEF Keeps
  <2>3. CASE x = e
    BY <2>1, <2>3, Reports DEF ReportsFailure, OwnFailure, ReportsOutcome, OwnReturn,
       ReportsNothing, Late
  <2> QED
    BY <2>2, <2>3
<1>3. strategy' = strategy
  BY DEF RunTask, AcquireNow, AcquireWait, Resume, BeforeRaises, CoreReturns, CoreRaises, StartNext,
     StartAll, ChildRaises, RunReturns, CallbackReturns, ErrorReturns, ErrorRaises
<1>4. Failed \subseteq Failed'
  BY <1>2 DEF Failed
<1>5. Ended' = {Target(f, strategy, InnerStrategy) : f \in Failed'}
  BY <1>3 DEF Ended
<1> QED
  BY <1>1, <1>4, <1>5 DEF Ended

(* Where a status that stops others comes from.                              *)
Stopping(e, x) ==
  \/ x \in Ended'
  \/ /\ status'[x] = status[x]
     /\ x \in Steps /\ phase[x] = "waiting" /\ status[x] = "skipped" =>
          phase'[x] = "waiting" \/ x \in skipped'
  \/ /\ x = e /\ phase[e] = "before" /\ Checked(e) = "skipped" /\ status'[e] = "skipped"
     /\ e \in Steps => phase'[e] = "waiting" \/ e \in skipped'
  \/ x = e /\ e \in Steps /\ status'[e] = "error" /\ e \in Failed'
  \/ x = e /\ e \in ChildCases /\ status'[e] = "error" /\ phase'[e] \in Late
  \/ x = e /\ e \in skipped /\ status'[e] = "skipped"
  \/ x = e /\ e \in Steps /\ status'[e] = "conditional" /\ e \in unmet'

(* A step that leaves a stopping status is one of these.                     *)
LEMMA StoppingStep ==
  ASSUME Scheduled, Recorded, Classed, NEW e \in Executor, RunTask(e),
         NEW x \in Executor, status'[x] \in StopStatus
  PROVE  Stopping(e, x)
<1> USE DEF StopStatus, Recorded, Outcomes
<1>1. phase \in [Executor -> SP!Phase]
  BY DEF Scheduled, SP!TypeOK
<1>2. CASE AcquireNow(e)
  <2>1. CASE x = e
    BY <1>1, <1>2, <2>1 DEF AcquireNow, Sched!AcquireNow, Sched!Goto, Enters, Stopping, Checked, Checks
  <2>2. CASE x # e
    BY <1>1, <1>2, <2>2 DEF AcquireNow, Sched!AcquireNow, Sched!Goto, Enters, Stopping
  <2> QED
    BY <2>1, <2>2
<1>3. CASE AcquireWait(e)
  <2>1. CASE x = e
    BY <1>1, <1>3, <2>1 DEF AcquireWait, Sched!AcquireWait, Sched!Goto, Stopping, Checked, Checks
  <2>2. CASE x # e
    BY <1>1, <1>3, <2>2 DEF AcquireWait, Sched!AcquireWait, Sched!Goto, Stopping
  <2> QED
    BY <2>1, <2>2
<1>4. CASE Resume(e)
  BY <1>1, <1>4 DEF Resume, Sched!Resume, Sched!Goto, Enters, Stopping
<1>5. CASE BeforeRaises(e) \/ CoreRaises(e) \/ ChildRaises(e)
  <2>1. CASE x = e
    <3>1. phase'[e] \in Late
      BY <1>1, <1>5 DEF BeforeRaises, CoreRaises, ChildRaises, Sched!BeforeRaises,
         Sched!CoreRaises, Sched!ChildRaises, Sched!Goto, Late
    <3>2. CASE e \in Steps
      BY <1>5, <2>1, <3>2 DEF BeforeRaises, CoreRaises, ChildRaises, Fails, FailsUnplaced, Stopping, Failed
    <3>3. CASE e \in ChildCases
      BY <1>5, <2>1, <3>1, <3>3 DEF BeforeRaises, CoreRaises, ChildRaises, Fails, FailsUnplaced, Stopping
    <3>4. CASE e \notin Steps \cup ChildCases
      BY <1>5, <2>1, <3>4 DEF BeforeRaises, CoreRaises, ChildRaises, Fails, FailsUnplaced, Stopping
    <3> QED
      BY <3>2, <3>3, <3>4
  <2>2. CASE x # e
    BY <1>1, <1>5, <2>2 DEF BeforeRaises, CoreRaises, ChildRaises, Fails, FailsUnplaced,
       Sched!BeforeRaises, Sched!CoreRaises, Sched!ChildRaises, Sched!Goto, Stopping
  <2> QED
    BY <2>1, <2>2
<1>6. CASE CoreReturns(e)
  <2>1. Kind[e] = "if" => e \in Steps
    BY DEF Steps, StepKind, ContainerKind
  <2> QED
    BY <1>1, <1>6, <2>1 DEF CoreReturns, Sched!CoreReturns, Sched!Goto, Stopping
<1>7. CASE StartNext(e) \/ StartAll(e)
  <2>1. /\ phase[e] = "children"
        /\ \E S \in SUBSET Children(e) :
              /\ \A c \in S : phase[c] = "idle"
              /\ phase' = [c \in Executor |-> IF c \in S THEN "before" ELSE phase[c]]
              /\ status' = [c \in Executor |->
                              IF c \in S \cap ChildCases THEN "running" ELSE status[c]]
    BY <1>7, StartsSome
  <2> QED
    BY <2>1 DEF Stopping
<1>8. CASE RunReturns(e)
  <2>1. phase' = [phase EXCEPT ![e] = "closing"] /\ phase[e] = "children"
    BY <1>8 DEF RunReturns, Sched!RunReturns, Sched!Goto
  <2>2. \/ StepSkipped(e) /\ e \in skipped
        \/ StepEnds(e) \/ ChildCaseEnds(e) \/ UNCHANGED outcome
    BY <1>8, EndsSomehow DEF RunReturns
  <2>3. status'[x] = status[x] \/ (x = e /\ e \in skipped /\ status'[e] = "skipped")
    BY <2>2 DEF StepSkipped, StepEnds, ChildCaseEnds, outcome
  <2>4. phase[x] = "waiting" => phase'[x] = "waiting"
    BY <1>1, <2>1
  <2> QED
    BY <2>3, <2>4 DEF Stopping
<1>9. CASE CallbackReturns(e) \/ ErrorRaises(e)
  BY <1>1, <1>9 DEF CallbackReturns, ErrorRaises, outcome, Sched!CallbackReturns,
     Sched!ErrorRaises, Sched!Goto, Stopping
<1>10. CASE ErrorReturns(e)
  <2>1. phase[e] = "erroring" /\ phase' = [phase EXCEPT ![e] = "done"] /\ strategy' = strategy
        /\ result' = result
    BY <1>10 DEF ErrorReturns, Sched!ErrorReturns, Sched!Goto
  <2>2. phase[x] = "waiting" => phase'[x] = "waiting"
    BY <1>1, <2>1
  <2>3. CASE status'[x] = status[x]
    BY <2>2, <2>3 DEF Stopping
  <2>4. CASE status'[x] # status[x]
    <3>1. e \in Steps /\ x = Target(e, strategy, InnerStrategy)
      BY <1>10, <2>4 DEF ErrorReturns, AppliesStrategy
    <3>2. e \in Failed'
      BY <2>1, <3>1 DEF Classed, InClass, Failed
    <3>3. x \in Ended'
      BY <2>1, <3>1, <3>2 DEF Ended
    <3> QED
      BY <3>3 DEF Stopping
  <2> QED
    BY <2>3, <2>4
<1> QED
  BY <1>2, <1>3, <1>4, <1>5, <1>6, <1>7, <1>8, <1>9, <1>10 DEF RunTask

(* A step enters as skipped when it is empty or was to be skipped.           *)
LEMMA EntersSkipped ==
  ASSUME Recorded, Scheduled, NEW e \in Steps, RunTask(e), e \in skipped' \ skipped
  PROVE  Kind[e] = "empty" \/ (IF phase[e] = "before" THEN Checked(e) ELSE status[e]) = "skipped"
<1>1. AcquireNow(e) \/ Resume(e)
  BY DEF RunTask, AcquireWait, BeforeRaises, CoreReturns, CoreRaises, StartNext, StartAll,
     ChildRaises, RunReturns, CallbackReturns, ErrorReturns, ErrorRaises, history
<1> QED
  BY <1>1 DEF AcquireNow, Resume, Enters, Sched!AcquireNow, Sched!Resume, Sched!Goto

(* What may stop a step: one skipped, one whose condition did not hold, one  *)
(* that failed, and what a failed step ended.                                *)
Causes == skipped \cup unmet \cup Failed \cup Ended
Why(e) == e \in Disabled \/ Kind[e] = "empty" \/ Above[e] \cap Causes # {}

(* Every skip, and every status that makes others skip, has such a cause;    *)
(* not the status of a child case that is over, but what is still under way  *)
(* in it is below a failed step (OrphansHaveFailed).                         *)
Caused ==
  /\ \A e \in skipped : Why(e)
  /\ \A n \in Steps :
       /\ status[n] = "skipped" => n \in skipped \cup Ended \/ (phase[n] = "waiting" /\ Why(n))
       /\ status[n] = "conditional" => n \in unmet \cup Ended
       /\ status[n] = "error" => n \in Failed \cup Ended
  /\ \A n \in Executor \ Steps :
       status[n] \in StopStatus =>
         \/ (Above[n] \cup {n}) \cap Ended # {}
         \/ n \in ChildCases /\ phase[n] \in Late

(* What a failed step ends is past its core.                                 *)
LEMMA EndedIsPast ==
  ASSUME Within, Settled, NEW n \in Ended, n # NoNode
  PROVE  n \in Executor /\ phase[n] \notin Early \cup {"core"}
<1>1. PICK f \in Failed : n = Target(f, strategy, InnerStrategy)
  BY DEF Ended
<1>2. f \in Steps /\ f \in Executor /\ phase[f] \in Late
  BY DEF Failed, Settled, Steps
<1>3. n \in Above[f] \cup {f}
  BY <1>1, <1>2, TargetIsAbove
<1> QED
  BY <1>2, <1>3, AboveType DEF Within, Late, Early

(* What a check looks at is above.                                           *)
LEMMA ScopesAreAbove ==
  ASSUME NEW e \in Executor, e # Root
  PROVE  Scopes(e) \cup {Parent[e]} \subseteq Above[e]
  BY RootIsAbove, AboveIs DEF Scopes

(* A check that finds a reason to skip finds one above.                      *)
LEMMA CheckedHasCause ==
  ASSUME Scheduled, Recorded, Within, Entered, Attended, InOrder, Settled, Caused,
         NEW e \in Steps \cup ChildCases, phase[e] = "before", Checked(e) = "skipped"
  PROVE  /\ e \in Steps => Why(e)
         /\ e \in ChildCases => Above[e] \cap Ended # {}
<1>1. e \in Executor /\ e # Root /\ Checks(e) /\ e # NoNode
  BY StepIsNoRoot, KindAssumption, TreeAssumption DEF Steps, ChildCases, Checks
<1>2. ASSUME ~Stopped(e), e \notin Disabled \/ e \notin Steps
      PROVE  e \in ChildCases /\ Above[e] \cap Ended # {}
  <2>1. status[e] = "skipped"
    BY <1>2 DEF Checked
  <2>2. e \notin skipped
    BY DEF Entered, Early, Recorded
  <2>3. e \notin Ended
    BY <1>1, EndedIsPast DEF Early
  <2>4. e \notin Steps
    BY <2>1, <2>2, <2>3 DEF Caused
  <2>5. (Above[e] \cup {e}) \cap Ended # {}
    BY <1>1, <2>1, <2>4 DEF Caused, StopStatus, Late
  <2> QED
    BY <2>3, <2>4, <2>5
<1>3. ASSUME Stopped(e) PROVE Above[e] \cap Causes # {} /\ (e \in ChildCases => Above[e] \cap Ended # {})
  <2>1. PICK n \in Scopes(e) \cup {Parent[e]} : status[n] \in StopStatus
    BY <1>3 DEF Stopped, StoppedAt
  <2>2. n \in Above[e] /\ n \in Executor /\ n # NoNode
    BY <1>1, ScopesAreAbove, AboveType, TreeAssumption
  <2>3. phase[n] \notin Early
    BY <1>1, <2>2 DEF Within
  <2>4. CASE n \in Steps
    <3>1. n \in Causes
      BY <2>1, <2>3, <2>4 DEF Caused, Causes, StopStatus, Early
    <3>2. e \notin ChildCases
      BY <2>2, <2>4, StepsAreBelow, KindsApart DEF ChildCases
    <3> QED
      BY <2>2, <3>1, <3>2
  <2>5. CASE (Above[n] \cup {n}) \cap Ended # {}
    BY <1>1, <2>2, <2>5, AboveTransitive DEF Causes
  <2>6. CASE n \in ChildCases /\ phase[n] \in Late
    <3>1. e \notin ChildCases
      BY <2>2, <2>6, ChildCasesAreApart
    <3>2. Above[e] \cap Failed # {}
      BY <1>1, <2>2, <2>6, OrphansHaveFailed DEF Below
    <3> QED
      BY <3>1, <3>2 DEF Causes
  <2> QED
    BY <2>1, <2>2, <2>4, <2>5, <2>6 DEF Caused
<1> QED
  BY <1>2, <1>3, KindsApart DEF Why, Causes

(* Every step of the task keeps the causes.                                  *)
LEMMA CausedStep ==
  ASSUME Scheduled, Recorded, Within, Entered, Attended, InOrder, Settled, Classed, Caused,
         NEW e \in Executor, RunTask(e)
  PROVE  Caused'
<1>1. Causes \subseteq Causes' /\ skipped \subseteq skipped' /\ unmet \subseteq unmet'
      /\ Failed \subseteq Failed' /\ Ended \subseteq Ended'
  BY CausesGrow DEF Causes
<1>2. \A n : Why(n) => Why(n)'
  BY <1>1 DEF Why
<1>3. Own(e) /\ (e \in Steps \cup ChildCases => e # Root)
  BY OwnSteps, StepIsNoRoot, KindAssumption DEF ChildCases
<1>4. phase[e] = "waiting" /\ e \in Steps /\ status[e] = "skipped" => Why(e)
  <2> SUFFICES ASSUME phase[e] = "waiting", e \in Steps, status[e] = "skipped" PROVE Why(e)
    OBVIOUS
  <2>1. e \notin skipped
    BY DEF Entered, Early, Recorded
  <2>2. e \notin Ended
    BY EndedIsPast, TreeAssumption DEF Early
  <2> QED
    BY <2>1, <2>2 DEF Caused
<1>5. phase[e] = "before" /\ Checked(e) = "skipped" =>
        (e \in Steps => Why(e)) /\ (e \in ChildCases => Above[e] \cap Ended # {})
  BY CheckedHasCause
<1>6. ASSUME NEW x \in skipped' PROVE Why(x)'
  <2>1. x \in Executor /\ x \in Steps
    BY RecordedStep DEF Next, Recorded, Steps
  <2>2. CASE x \in skipped
    BY <1>2, <2>2 DEF Caused
  <2>3. CASE x \notin skipped
    <3>1. x = e
      BY <2>1, <2>3, OthersKeep DEF Keeps
    <3>2. OwnEnter(e)
      BY <1>3, <2>3, <3>1
         DEF Own, OwnWait, OwnCore, OwnFailure, OwnStart, OwnReturn, OwnClose, history
    <3>3. Kind[e] = "empty" \/ (IF phase[e] = "before" THEN Checked(e) ELSE status[e]) = "skipped"
      BY <2>1, <2>3, <3>1, <3>2, EntersSkipped
    <3>4. Why(e)
      BY <1>4, <1>5, <2>1, <3>1, <3>2, <3>3 DEF OwnEnter, Why
    <3> QED
      BY <1>2, <3>1, <3>4
  <2> QED
    BY <2>2, <2>3
<1>7. ASSUME NEW n \in Executor, status'[n] \in StopStatus
      PROVE  Stopping(e, n)
  BY <1>7, StoppingStep
<1>8. ASSUME NEW n \in Steps
      PROVE  /\ status'[n] = "skipped" =>
                  n \in skipped' \cup Ended' \/ (phase'[n] = "waiting" /\ Why(n)')
             /\ status'[n] = "conditional" => n \in unmet' \cup Ended'
             /\ status'[n] = "error" => n \in Failed' \cup Ended'
  <2> SUFFICES ASSUME status'[n] \in StopStatus, n \notin Ended'
               PROVE  /\ status'[n] = "skipped" =>
                            n \in skipped' \/ (phase'[n] = "waiting" /\ Why(n)')
                      /\ status'[n] = "conditional" => n \in unmet'
                      /\ status'[n] = "error" => n \in Failed'
    BY DEF StopStatus
  <2>1. n \in Executor /\ n \notin ChildCases /\ n \notin Ended
    BY <1>1, KindsApart DEF Steps
  <2>2. Stopping(e, n)
    BY <1>7, <2>1
  <2>3. CASE /\ status'[n] = status[n]
             /\ phase[n] = "waiting" /\ status[n] = "skipped" => phase'[n] = "waiting" \/ n \in skipped'
    BY <1>1, <1>2, <2>1, <2>3 DEF Caused
  <2>4. CASE n = e /\ phase[e] = "before" /\ Checked(e) = "skipped" /\ status'[e] = "skipped"
             /\ (phase'[e] = "waiting" \/ e \in skipped')
    BY <1>2, <1>5, <2>4
  <2> QED
    BY <1>1, <2>1, <2>2, <2>3, <2>4 DEF Stopping
<1>9. ASSUME NEW n \in Executor \ Steps, status'[n] \in StopStatus
      PROVE  \/ (Above[n] \cup {n}) \cap Ended' # {}
             \/ n \in ChildCases /\ phase'[n] \in Late
  <2>1. Stopping(e, n)
    BY <1>7, <1>9
  <2>2. CASE status'[n] = status[n]
    <3>1. phase[n] \in Late => phase'[n] \in Late
      <4>1. CASE n = e
        BY <4>1, OwnSteps DEF Own, OwnEnter, OwnWait, OwnCore, OwnFailure, OwnStart, OwnReturn, OwnClose, Late
      <4>2. CASE n # e
        BY <4>2, OthersKeep DEF Begins, Late
      <4> QED
        BY <4>1, <4>2
    <3>2. \/ (Above[n] \cup {n}) \cap Ended # {}
          \/ n \in ChildCases /\ phase[n] \in Late
      BY <1>9, <2>2 DEF Caused
    <3> QED
      BY <1>1, <3>1, <3>2
  <2>3. CASE n = e /\ phase[e] = "before" /\ Checked(e) = "skipped" /\ status'[e] = "skipped"
             /\ status[e] # "skipped"
    <3>1. e \in ChildCases
      BY <1>9, <2>3 DEF Checked, Checks, ChildCases
    <3> QED
      BY <1>1, <1>5, <2>3, <3>1
  <2>4. n \notin skipped
    BY <1>9 DEF Recorded
  <2> QED
    BY <1>9, <2>1, <2>2, <2>3, <2>4 DEF Stopping
<1> QED
  BY <1>6, <1>8, <1>9 DEF Caused

(* With Cascade, the inductive invariant of SkipsAreExplained.               *)
Explained == Attended /\ InOrder /\ Settled /\ Classed /\ Caused

LEMMA ExplainedInit ==
  ASSUME Init
  PROVE  Explained
<1>1. Attended /\ Settled /\ Classed
  BY JudgedInit, CountedInit DEF Judged
<1>2. InOrder
  <2>1. \A p \in Executor : \A c \in Children(p) : phase[c] = "idle"
    BY ParentOfChild DEF Init, Sched!Init
  <2> QED
    BY <2>1 DEF InOrder, Busy
<1>3. Caused
  <2>1. skipped = {} /\ \A x \in Executor : status[x] = "pending"
    BY DEF Init
  <2>2. Steps \subseteq Executor
    BY DEF Steps
  <2> QED
    BY <2>1, <2>2 DEF Caused, StopStatus
<1> QED
  BY <1>1, <1>2, <1>3 DEF Explained

LEMMA ExplainedNext ==
  ASSUME Scheduled, Recorded, Within, Entered, Explained, [Next]_vars
  PROVE  Explained'
<1>1. ASSUME NEW e \in Executor, RunTask(e) PROVE Explained'
  BY <1>1, AttendedStep, InOrderStep, SettledStep, ClassedStep, CausedStep DEF Explained
<1>2. CASE TaskRunner \/ Quiescent \/ UNCHANGED vars
  <2>1. UNCHANGED <<phase, strategy, status, result, childError, skipped, ran, unmet>>
    BY <1>2 DEF TaskRunner, Quiescent, vars, scheduling, outcome, history, Sched!TaskRunner,
       Sched!TopLevelReturns, Sched!TopLevelRaises, Sched!DrainReturns, Sched!DrainRaises,
       Sched!Quiescent, Sched!vars, Sched!semaphore
  <2>2. Attended' /\ InOrder' /\ Settled' /\ Classed'
    BY <2>1 DEF Explained, Attended, Abandons, InOrder, Busy, Children, Settled, Classed, InClass
  <2>3. UNCHANGED <<Failed, Ended>>
    BY <2>1 DEF Failed, Ended
  <2>4. Caused'
    BY <2>1, <2>3 DEF Explained, Caused, Why, Causes
  <2> QED
    BY <2>2, <2>4 DEF Explained
<1> QED
  BY <1>1, <1>2 DEF Next

(* Every skipped step is disabled or empty, or is below one that was skipped, *)
(* did not meet its condition or failed, or below what a failed step's        *)
(* strategy ended: also when what stopped it belongs to an execution that an   *)
(* exception has left behind.                                                *)
THEOREM SkipsAreExplained == Spec => []SkipsHaveACause
<1>1. Init => Cascade /\ Explained
  BY CascadeInit, ExplainedInit
<1>2. Scheduled /\ Recorded /\ Cascade /\ [Next]_vars => Cascade'
  BY CascadeNext
<1>3. Scheduled /\ Recorded /\ Cascade /\ Explained /\ [Next]_vars => Explained'
  BY ExplainedNext DEF Cascade
<1>4. Explained => SkipsHaveACause
  BY DEF Explained, Caused, Why, Causes, SkipsHaveACause
<1> QED
  BY <1>1, <1>2, <1>3, <1>4, ScheduledAlways, RecordedAlways, PTL DEF Spec

-----------------------------------------------------------------------------
(* A stop is final.                                                          *)

(* A child case is not stopped before it is started; until it is over it is   *)
(* stopped only as skipped.                                                  *)
Fresh ==
  \A c \in ChildCases :
    /\ phase[c] = "idle" => status[c] \notin StopStatus
    /\ phase[c] \notin Late => status[c] \notin {"error", "conditional"}

(* A step whose body has returned needs its status no more.                  *)
Served(n) ==
  n \in Steps /\ phase[n] \in Late /\ \A c \in Children(n) : phase[c] \in {"idle", "done"}

(* What the proofs below may use of a reachable state.                       *)
Inside == Scheduled /\ Recorded /\ Within /\ Entered /\ Explained

(* Only the end of a step's body takes a stopping status away.               *)
LEMMA StopStays ==
  ASSUME Inside, Fresh, NEW e \in Executor, RunTask(e), NEW n \in Executor,
         status[n] \in StopStatus, status'[n] \notin StopStatus
  PROVE  n = e /\ OwnReturn(e) /\ Served(n)'
<1> USE DEF Inside, Explained, StopStatus
<1>1. phase \in [Executor -> SP!Phase] /\ status \in [Executor -> Status]
  BY DEF Scheduled, SP!TypeOK, Recorded, Outcomes
<1>2. e \in Steps /\ phase[e] \in {"before", "waiting", "core"} /\ status[e] \in StopStatus =>
        \/ e \in skipped /\ phase[e] = "core"
        \/ status[e] = "skipped" /\ phase[e] = "waiting"
  <2> SUFFICES ASSUME phase[e] \in {"before", "waiting", "core"}, e \in Steps,
                      status[e] \in StopStatus
               PROVE  \/ e \in skipped /\ phase[e] = "core"
                      \/ status[e] = "skipped" /\ phase[e] = "waiting"
    OBVIOUS
  <2>1. e \notin Ended
    BY EndedIsPast, TreeAssumption DEF Early
  <2>2. e \notin Failed /\ e \notin unmet /\ (e \in skipped => phase[e] = "core")
    BY DEF Failed, Settled, Entered, Late, Early
  <2> QED
    BY <2>1, <2>2 DEF Caused
<1>3. ~(AcquireNow(e) \/ AcquireWait(e))
  <2>1. Checked(e) \in {"skipped", status[e]}
    BY DEF Checked
  <2>2. AcquireNow(e) => phase[e] = "before"
    BY DEF AcquireNow, Sched!AcquireNow, Sched!Goto
  <2> QED
    BY <1>1, <1>2, <2>1, <2>2 DEF AcquireNow, AcquireWait, Enters
<1>4. ~Resume(e)
  <2>1. Resume(e) => phase[e] = "waiting"
    BY DEF Resume, Sched!Resume, Sched!Goto
  <2> QED
    BY <1>1, <1>2, <2>1 DEF Resume, Enters
<1>5. ~(BeforeRaises(e) \/ CoreRaises(e) \/ ChildRaises(e))
  BY <1>1 DEF BeforeRaises, CoreRaises, ChildRaises, Fails, FailsUnplaced
<1>6. ~CoreReturns(e)
  <2>1. CoreReturns(e) => phase[e] = "core"
    BY DEF CoreReturns, Sched!CoreReturns, Sched!Goto
  <2>2. Kind[e] = "if" => e \in Steps
    BY DEF Steps, StepKind, ContainerKind
  <2> QED
    BY <1>1, <1>2, <2>1, <2>2 DEF CoreReturns
<1>7. ~(StartNext(e) \/ StartAll(e))
  <2> SUFFICES ASSUME StartNext(e) \/ StartAll(e) PROVE FALSE
    OBVIOUS
  <2>1. PICK S \in SUBSET Children(e) :
          /\ \A c \in S : phase[c] = "idle"
          /\ status' = [c \in Executor |-> IF c \in S \cap ChildCases THEN "running" ELSE status[c]]
    BY StartsSome
  <2> QED
    BY <2>1 DEF Fresh
<1>8. ~(CallbackReturns(e) \/ ErrorRaises(e) \/ ErrorReturns(e))
  BY <1>1 DEF CallbackReturns, ErrorRaises, ErrorReturns, AppliesStrategy, outcome
<1>9. CASE RunReturns(e)
  <2>1. phase'[e] = "closing" /\ phase[e] = "children"
    BY <1>1, <1>9 DEF RunReturns, Sched!RunReturns, Sched!Goto
  <2>2. OwnReturn(e)
    BY <2>1, OwnSteps DEF Own, OwnEnter, OwnWait, OwnCore, OwnFailure, OwnStart, OwnClose
  <2>3. n = e /\ (e \in ChildCases => status[e] = "skipped")
    <3>1. StepSkipped(e) \/ StepEnds(e) \/ ChildCaseEnds(e) \/ UNCHANGED outcome
      BY <1>9, EndsSomehow DEF RunReturns, Recorded
    <3>2. e \in ChildCases /\ status[e] \in StopStatus => status[e] = "skipped"
      BY <2>1 DEF Fresh, Late
    <3> QED
      BY <1>1, <3>1, <3>2 DEF StepSkipped, StepEnds, ChildCaseEnds, outcome
  <2>4. e \in Steps
    <3>1. \/ e \in Steps
          \/ e \in ChildCases /\ ChildCaseEnds(e)
          \/ UNCHANGED outcome
      BY <1>9, EndsSomehow DEF RunReturns, Recorded
    <3> QED
      BY <1>1, <2>3, <3>1 DEF ChildCaseEnds, outcome
  <2> QED
    BY <2>1, <2>2, <2>3, <2>4 DEF Served, OwnReturn, Late, Children
<1> QED
  BY <1>3, <1>4, <1>5, <1>6, <1>7, <1>8, <1>9 DEF RunTask

(* The check of a child case starts from a fresh status.                     *)
LEMMA FreshStep ==
  ASSUME Inside, Fresh, NEW e \in Executor, RunTask(e)
  PROVE  Fresh'
<1> SUFFICES ASSUME NEW c \in ChildCases
             PROVE  /\ phase'[c] = "idle" => status'[c] \notin StopStatus
                    /\ phase'[c] \notin Late => status'[c] \notin {"error", "conditional"}
  BY DEF Fresh
<1> USE DEF Inside, Explained
<1>1. c \in Executor /\ c \notin Steps /\ c # NoNode
  BY KindsApart, TreeAssumption DEF ChildCases
<1>2. phase'[c] = "idle" => phase[c] = "idle" /\ c # e
  BY <1>1, OthersKeep, OwnSteps DEF Begins, Own, OwnEnter, OwnWait, OwnCore, OwnFailure, OwnStart,
     OwnReturn, OwnClose
<1>3. phase'[c] \notin Late => phase[c] \notin Late
  <2>1. CASE c = e
    BY <2>1, OwnSteps DEF Own, OwnEnter, OwnWait, OwnCore, OwnFailure, OwnStart, OwnReturn, OwnClose, Late
  <2>2. CASE c # e
    BY <1>1, <2>2, OthersKeep DEF Begins, Late
  <2> QED
    BY <2>1, <2>2
<1>4. ASSUME phase'[c] = "idle" PROVE status'[c] \notin StopStatus
  <2>1. c \notin Ended'
    <3>1. Within' /\ Settled'
      BY WithinStep, SettledStep
    <3>2. ASSUME NEW f \in Failed', c = Target(f, strategy', InnerStrategy) PROVE FALSE
      <4>1. f \in Steps /\ f \in Executor /\ phase'[f] \in Late
        BY <3>1 DEF Failed, Settled, Steps
      <4>2. c \in Above[f] \cup {f}
        BY <1>1, <3>2, <4>1, TargetIsAbove
      <4> QED
        BY <1>4, <3>1, <4>1, <4>2 DEF Within, Late, Early
    <3> QED
      BY <3>2 DEF Ended
  <2>2. ASSUME status'[c] \in StopStatus PROVE FALSE
    <3>1. Stopping(e, c)
      BY <1>1, <2>2, StoppingStep
    <3>2. status'[c] = status[c]
      BY <1>2, <1>4, <2>1, <3>1 DEF Stopping
    <3> QED
      BY <1>2, <1>4, <2>2, <3>2 DEF Fresh
  <2> QED
    BY <2>2
<1>5. ASSUME phase'[c] \notin Late, status'[c] \in {"error", "conditional"} PROVE FALSE
  <2>1. CASE c # e
    BY <1>1, <1>3, <1>5, <2>1, OthersKeep DEF Keeps, Fresh
  <2>2. CASE c = e
    BY <1>1, <1>3, <1>5, <2>2, Reports DEF ReportsFailure, OwnFailure, ReportsOutcome, OwnReturn,
       ReportsNothing, Late, Fresh
  <2> QED
    BY <2>1, <2>2
<1> QED
  BY <1>4, <1>5

(* What a strategy ended is stopped as long as it has children to start.     *)
Obeyed ==
  \A f \in Failed : phase[f] = "done" =>
    LET n == Target(f, strategy, InnerStrategy)
    IN  n # NoNode => status[n] \in StopStatus \/ Served(n)

(* A step whose body has returned starts nothing more.                       *)
LEMMA ServedStays ==
  ASSUME Scheduled, Recorded, NEW e \in Executor, RunTask(e), NEW n, Served(n)
  PROVE  Served(n)'
<1>1. n \in Executor /\ phase[n] \in Late
  BY DEF Served, Steps
<1>2. phase[e] \notin {"idle", "done"} /\ Own(e)
  BY OwnSteps DEF Own, OwnEnter, OwnWait, OwnCore, OwnFailure, OwnStart, OwnReturn, OwnClose
<1>3. phase'[n] \in Late
  <2>1. CASE n = e
    BY <1>1, <1>2, <2>1 DEF Own, OwnEnter, OwnWait, OwnCore, OwnFailure, OwnStart, OwnReturn, OwnClose, Late
  <2>2. CASE n # e
    BY <1>1, <2>2, OthersKeep DEF Begins, Late
  <2> QED
    BY <2>1, <2>2
<1>4. ASSUME NEW c \in Children(n) PROVE phase'[c] \in {"idle", "done"}
  <2>1. c \in Executor /\ c # e /\ Parent[c] = n
    BY <1>1, <1>2, ParentOfChild DEF Served
  <2>2. ~Begins(e, c)
    <3>1. Begins(e, c) => Parent[c] = e
      BY ParentOfChild DEF Begins
    <3> QED
      BY <1>1, <2>1, <3>1 DEF Begins, Late
  <2> QED
    BY <2>1, <2>2, OthersKeep DEF Served
<1> QED
  BY <1>3, <1>4 DEF Served, Children

(* A strategy that has been applied keeps its effect.                        *)
LEMMA ObeyedStep ==
  ASSUME Inside, Fresh, Obeyed, NEW e \in Executor, RunTask(e)
  PROVE  Obeyed'
<1> USE DEF Inside, Explained
<1>1. strategy' = strategy
  BY DEF RunTask, AcquireNow, AcquireWait, Resume, BeforeRaises, CoreReturns, CoreRaises, StartNext,
     StartAll, ChildRaises, RunReturns, CallbackReturns, ErrorReturns, ErrorRaises
<1> SUFFICES ASSUME NEW f \in Failed', phase'[f] = "done",
                    NEW n, n = Target(f, strategy, InnerStrategy), n # NoNode
             PROVE  status'[n] \in StopStatus \/ Served(n)'
  BY <1>1 DEF Obeyed
<1>2. f \in Steps /\ f \in Executor
  BY DEF Failed, Steps
<1>3. n \in Executor
  BY <1>2, TargetIsAbove, AboveType
<1>4. CASE f \in Failed /\ phase[f] = "done"
  <2>1. CASE Served(n)
    BY <2>1, ServedStays
  <2>2. CASE status[n] \in StopStatus
    BY <1>3, <2>2, StopStays
  <2> QED
    BY <1>4, <2>1, <2>2 DEF Obeyed
<1>5. CASE f \notin Failed \/ phase[f] # "done"
  <2>1. f = e
    BY <1>2, <1>5, OthersKeep DEF Failed, Keeps, Begins
  <2>2. OwnClose(e) /\ result'[e] = result[e]
    BY <1>5, <2>1, Reports DEF Failed, ReportsFailure, OwnFailure, ReportsOutcome, OwnReturn,
       ReportsNothing, OwnEnter, OwnWait, OwnCore, OwnStart
  <2>3. phase[e] = "erroring"
    BY <2>1, <2>2 DEF OwnClose, Classed, InClass, Failed
  <2>4. ErrorReturns(e)
    <3>1. phase \in [Executor -> SP!Phase]
      BY DEF Scheduled, SP!TypeOK
    <3> QED
      BY <2>1, <2>3, <3>1, StartsSome
         DEF RunTask, AcquireNow, AcquireWait, Resume, BeforeRaises, CoreReturns, CoreRaises,
         ChildRaises, RunReturns, CallbackReturns, ErrorRaises, Sched!AcquireNow,
         Sched!AcquireWait, Sched!Resume, Sched!BeforeRaises, Sched!CoreReturns,
         Sched!CoreRaises, Sched!ChildRaises, Sched!RunReturns, Sched!CallbackReturns,
         Sched!ErrorRaises, Sched!Goto
  <2>5. status'[n] = "skipped"
    BY <1>2, <1>3, <2>1, <2>4 DEF ErrorReturns, AppliesStrategy, Recorded, Outcomes
  <2> QED
    BY <2>5 DEF StopStatus
<1> QED
  BY <1>4, <1>5

-----------------------------------------------------------------------------
(* How an executor that was stopped before its check goes on.                *)

Silent(e) == (Below(e) \cup {e}) \cap ran = {}

(* It has not been checked, and its check will stop it or never come,        *)
Unchecked(e) ==
  /\ phase[e] \in {"idle", "before"}
  /\ Stopped(e) \/ (phase[e] = "idle" /\ phase[Parent[e]] \in Late)

(* or a step has been told to do nothing, or has failed before it did any,   *)
StepShut(e) ==
  /\ Silent(e)
  /\ \/ Unchecked(e)
     \/ phase[e] = "waiting" /\ status[e] = "skipped"
     \/ e \in skipped
     \/ phase[e] \in Late /\ \A d \in Below(e) : phase[d] = "idle"

(* or a child case keeps a status that stops all its steps.                  *)
CaseShut(e) ==
  /\ e \notin ran
  /\ \/ Unchecked(e) /\ Silent(e)
     \/ phase[e] = "waiting" /\ status[e] = "skipped" /\ Silent(e)
     \/ /\ \/ phase[e] \in {"core", "children"} /\ status[e] = "skipped"
           \/ phase[e] \in Late
        /\ \A c \in Children(e) : StepShut(c)

(* Nothing has started below what is not in its body.                        *)
LEMMA Unstarted ==
  ASSUME Inside, NEW e \in Executor, phase[e] \in Early \cup {"core"}
  PROVE  /\ \A d \in Below(e) : phase[d] = "idle"
         /\ Below(e) \cap ran = {}
         /\ phase[e] # "core" => Silent(e)
<1> USE DEF Inside
<1>1. \A d \in Below(e) : phase[d] = "idle" /\ d \in Executor
  BY DEF Within, Below
<1>2. \A d \in Executor : phase[d] \in Early => d \notin ran
  BY DEF Entered, Recorded
<1> QED
  BY <1>1, <1>2 DEF Silent, Early

(* As long as it is not checked, it stays to be stopped.                     *)
LEMMA UncheckedStep ==
  ASSUME Inside, Fresh, NEW e \in Executor, RunTask(e), NEW x \in Steps \cup ChildCases,
         Unchecked(x), phase'[x] \in {"idle", "before"}
  PROVE  Unchecked(x)'
<1> USE DEF Inside, Explained
<1>1. x \in Executor /\ x # Root /\ Parent[x] \in Executor /\ x \in Children(Parent[x])
  BY StepIsNoRoot, KindAssumption, ParentIsExecutor DEF Steps, ChildCases
<1>2. CASE phase[x] = "idle" /\ phase[Parent[x]] \in Late
  <2>1. phase'[Parent[x]] \in Late
    <3>1. CASE Parent[x] = e
      BY <1>2, <3>1, OwnSteps DEF Own, OwnEnter, OwnWait, OwnCore, OwnFailure, OwnStart, OwnReturn, OwnClose, Late
    <3>2. CASE Parent[x] # e
      BY <1>1, <1>2, <3>2, OthersKeep DEF Begins, Late
    <3> QED
      BY <3>1, <3>2
  <2>2. phase'[x] = "idle"
    <3>1. x # e
      BY <1>2, OwnSteps DEF Own, OwnEnter, OwnWait, OwnCore, OwnFailure, OwnStart, OwnReturn, OwnClose
    <3>2. Begins(e, x) => phase[Parent[x]] = "children"
      BY ParentOfChild DEF Begins
    <3> QED
      BY <1>1, <1>2, <3>1, <3>2, OthersKeep DEF Late
  <2> QED
    BY <2>1, <2>2 DEF Unchecked
<1>3. CASE Stopped(x)
  <2>1. PICK n \in Scopes(x) \cup {Parent[x]} : status[n] \in StopStatus /\ n # NoNode
    BY <1>3 DEF Stopped, StoppedAt
  <2>2. n \in Executor
    BY <1>1, <2>1, ScopesAreAbove, AboveType
  <2>3. CASE status'[n] \in StopStatus
    <3>1. Stopped(x)'
      BY <2>1, <2>3 DEF Stopped, StoppedAt, Scopes
    <3> QED
      BY <3>1 DEF Unchecked
  <2>4. CASE status'[n] \notin StopStatus
    <3>1. n = e /\ OwnReturn(e) /\ Served(n)'
      BY <2>1, <2>2, <2>4, StopStays
    <3>2. n = Parent[x]
      <4>1. n \in Steps
        BY <3>1 DEF Served
      <4> QED
        BY <2>1, <4>1, KindAssumption DEF Scopes, Steps, StepKind, ContainerKind
    <3>3. phase'[x] = "idle"
      BY <1>1, <3>1, <3>2 DEF Served, Children
    <3> QED
      BY <3>1, <3>2, <3>3 DEF Unchecked, Served
  <2> QED
    BY <2>3, <2>4
<1> QED
  BY <1>2, <1>3 DEF Unchecked

(* Only the actor runs its core.                                             *)
LEMMA RanGrows ==
  ASSUME Inside, NEW e \in Executor, RunTask(e)
  PROVE  /\ ran' \subseteq ran \cup {e}
         /\ e \in ran' \ ran =>
              OwnEnter(e) /\ (IF phase[e] = "before" THEN Checked(e) ELSE status[e]) # "skipped"
<1> USE DEF Inside
<1>1. \A x \in Steps \ {e} : Keeps(x)
  BY OthersKeep DEF Steps
<1>2. ran \subseteq Steps /\ ran' \subseteq Steps
  BY RecordedStep DEF Next, Recorded
<1>3. e \in ran' \ ran => OwnEnter(e)
  BY OwnSteps DEF Own, OwnWait, OwnCore, OwnFailure, OwnStart, OwnReturn, OwnClose, history
<1> QED
  BY <1>1, <1>2, <1>3 DEF Keeps, OwnEnter

(* The parent of what is below x is x, or is below it.                       *)
LEMMA BelowParent ==
  ASSUME NEW x \in Executor, NEW d \in Below(x)
  PROVE  d # Root /\ Parent[d] \in Executor /\ (Parent[d] = x \/ Parent[d] \in Below(x))
<1>1. d \in Executor /\ x \in Above[d] /\ d # Root
  BY AboveIs DEF Below
<1>2. Above[d] = {Parent[d]} \cup Above[Parent[d]] /\ Parent[d] \in Executor
  BY <1>1, AboveIs, ParentIsExecutor
<1> QED
  BY <1>1, <1>2 DEF Below

(* Nothing is started below what does not start its children.                *)
LEMMA BelowStaysIdle ==
  ASSUME Inside, NEW e \in Executor, RunTask(e), NEW x \in Executor, phase[x] # "children",
         \A d \in Below(x) : phase[d] = "idle"
  PROVE  \A d \in Below(x) : phase'[d] = "idle"
<1> USE DEF Inside
<1> TAKE d \in Below(x)
<1>1. phase[e] # "idle" /\ phase[d] = "idle" /\ d \in Executor /\ d # e
  BY OwnSteps DEF Own, OwnEnter, OwnWait, OwnCore, OwnFailure, OwnStart, OwnReturn, OwnClose, Below
<1>2. ~Begins(e, d)
  <2>1. Parent[d] = x \/ Parent[d] \in Below(x)
    BY BelowParent
  <2>2. phase[Parent[d]] # "children"
    BY <2>1
  <2> QED
    BY <2>2, ParentOfChild DEF Begins
<1> QED
  BY <1>1, <1>2, OthersKeep

(* A step that is shut stays so.                                             *)
LEMMA StepShutStep ==
  ASSUME Inside, Fresh, SkipsCascade', NEW e \in Executor, RunTask(e), NEW x \in Steps, StepShut(x)
  PROVE  StepShut(x)'
<1> USE DEF Inside, Explained
<1>1. x \in Executor /\ Checks(x)
  BY DEF Steps, Checks
<1>2. Own(e) /\ phase[e] \notin {"idle", "done"}
  BY OwnSteps DEF Own, OwnEnter, OwnWait, OwnCore, OwnFailure, OwnStart, OwnReturn, OwnClose
<1>3. Silent(x)' <=> (Below(x) \cup {x}) \cap ran' = {}
  BY DEF Silent, Below
<1>4. e \in ran' \ ran => phase[e] \in {"before", "waiting"}
  BY RanGrows DEF OwnEnter
<1>5. CASE \A d \in Below(x) : phase[d] = "idle"
  <2>1. e \notin Below(x)
    BY <1>2, <1>5
  <2>2. x \notin ran' => Silent(x)'
    BY <1>3, <2>1, RanGrows DEF StepShut, Silent
  <2>3. phase[x] # "children" => \A d \in Below(x) : phase'[d] = "idle"
    BY <1>1, <1>5, BelowStaysIdle
  <2>4. x # e => x \notin ran' /\ Keeps(x) /\ (phase'[x] = phase[x] \/ Begins(e, x))
    BY <1>1, OthersKeep DEF StepShut, Silent, Keeps
  <2>5. CASE Unchecked(x) /\ phase'[x] \in {"idle", "before"}
    <3>1. x \notin ran'
      BY <2>4, <2>5, RanGrows DEF OwnEnter, StepShut, Silent
    <3> QED
      BY <2>2, <2>5, <3>1, UncheckedStep DEF StepShut
  <2>6. CASE Unchecked(x) /\ phase'[x] \notin {"idle", "before"}
    <3>1. x = e /\ phase[e] = "before"
      BY <1>2, <2>4, <2>6 DEF Unchecked, Begins
    <3>2. Checked(e) = "skipped"
      BY <1>1, <2>6, <3>1 DEF Unchecked, Checked
    <3>3. x \notin ran'
      BY <3>1, <3>2, RanGrows DEF StepShut, Silent
    <3>4. OwnEnter(e) \/ OwnWait(e) \/ OwnFailure(e)
      BY <1>2, <3>1 DEF Own, OwnCore, OwnStart, OwnReturn, OwnClose
    <3>5. CASE OwnEnter(e)
      BY <2>2, <3>1, <3>2, <3>3, <3>5 DEF OwnEnter, StepShut
    <3>6. CASE OwnWait(e)
      BY <2>2, <3>1, <3>2, <3>3, <3>6 DEF OwnWait, StepShut
    <3>7. CASE OwnFailure(e)
      <4>1. phase'[x] \in Late /\ \A d \in Below(x) : phase'[d] = "idle"
        BY <2>3, <3>1, <3>7 DEF OwnFailure, Late
      <4>2. Below(x)' = Below(x)
        BY DEF Below
      <4> QED
        BY <2>2, <3>3, <4>1, <4>2 DEF StepShut
    <3> QED
      BY <3>4, <3>5, <3>6, <3>7
  <2>7. CASE phase[x] = "waiting" /\ status[x] = "skipped"
    <3>1. CASE x # e
      BY <2>2, <2>4, <2>7, <3>1 DEF Keeps, Begins, StepShut
    <3>2. CASE x = e
      <4>1. OwnEnter(e)
        BY <1>2, <2>7, <3>2 DEF Own, OwnWait, OwnCore, OwnFailure, OwnStart, OwnReturn, OwnClose
      <4>2. x \notin ran'
        BY <2>7, <3>2, RanGrows DEF StepShut, Silent
      <4> QED
        BY <2>2, <2>7, <3>2, <4>1, <4>2 DEF OwnEnter, StepShut
    <3> QED
      BY <3>1, <3>2
  <2>8. CASE phase[x] \in Late
    <3>1. x \notin ran' /\ phase'[x] \in Late
      BY <1>2, <1>4, <2>4, <2>8, RanGrows
         DEF StepShut, Silent, Begins, Late, Own, OwnEnter, OwnWait, OwnCore, OwnFailure, OwnStart,
         OwnReturn, OwnClose
    <3>2. \A d \in Below(x) : phase'[d] = "idle"
      BY <2>3, <2>8 DEF Late
    <3>3. Below(x)' = Below(x)
      BY DEF Below
    <3> QED
      BY <2>2, <3>1, <3>2, <3>3 DEF StepShut
  <2>9. CASE x \in skipped
    <3>1. x \notin ran'
      BY <1>4, <2>9, RanGrows DEF Entered, Early, StepShut, Silent
    <3> QED
      BY <2>2, <2>9, <3>1, CausesGrow DEF StepShut
  <2> QED
    BY <2>5, <2>6, <2>7, <2>8, <2>9 DEF StepShut
<1>6. CASE x \in skipped
  <2>1. x \in skipped'
    BY <1>6, CausesGrow
  <2>2. Below(x) \cap ran' = {}
    BY <2>1 DEF SkipsCascade, Below
  <2>3. x \notin ran'
    BY <1>4, <1>6, RanGrows DEF Entered, Early, StepShut, Silent
  <2> QED
    BY <1>3, <2>1, <2>2, <2>3 DEF StepShut
<1>7. CASE phase[x] \in Early
  BY <1>1, <1>5, <1>7, Unstarted
<1> QED
  BY <1>5, <1>6, <1>7 DEF StepShut, Unchecked, Early

(* The children of a child case are steps.                                   *)
LEMMA ChildOfCase ==
  ASSUME NEW x \in ChildCases, NEW c \in Children(x)
  PROVE  c \in Steps /\ c \in Executor /\ Parent[c] = x /\ c \in Below(x) /\ Below(c) \subseteq Below(x)
<1>1. x \in Executor /\ c \in Executor /\ c # Root /\ Parent[c] = x
  BY ParentOfChild DEF ChildCases
<1>2. c \in Steps
  BY <1>1, KindAssumption DEF ChildCases, Steps, KindBelow, OriginKind, StepKind, ContainerKind
<1>3. x \in Above[c]
  BY <1>1, AboveIs
<1>4. \A d \in Below(c) : x \in Above[d]
  BY <1>3, AboveTransitive DEF Below
<1> QED
  BY <1>1, <1>2, <1>3, <1>4 DEF Below

(* What is below x is a child of x or below one.                             *)
LEMMA PathToChild ==
  ASSUME NEW x \in Executor, NEW d \in Below(x)
  PROVE  \E c \in Children(x) : d = c \/ d \in Below(c)
<1> DEFINE S == {n \in Executor : x \in Above[n] =>
                   \E c \in Children(x) : n = c \/ c \in Above[n]}
<1>1. S = Executor
  <2>1. Root \in S
    BY AboveIs, TreeAssumption
  <2>2. ASSUME NEW n \in Executor, n # Root, Parent[n] \in S PROVE n \in S
    <3>1. Above[n] = {Parent[n]} \cup Above[Parent[n]] /\ n \in Children(Parent[n])
      BY <2>2, AboveIs, ParentIsExecutor
    <3>2. CASE Parent[n] = x
      BY <3>1, <3>2
    <3>3. CASE x \in Above[Parent[n]]
      BY <2>2, <3>1, <3>3
    <3>4. CASE Parent[n] # x /\ x \notin Above[Parent[n]]
      BY <3>1, <3>4
    <3> QED
      BY <3>2, <3>3, <3>4
  <2> QED
    BY <2>1, <2>2, TreeInduction
<1> QED
  BY <1>1 DEF Below

(* A child case that enters its body skipped, or fails before, hands that on. *)
LEMMA ChildrenUnchecked ==
  ASSUME Inside, NEW e \in Executor, RunTask(e), NEW x \in ChildCases,
         phase[x] \in {"before", "waiting"}, Silent(x), status'[x] \in StopStatus, x = e
  PROVE  \A c \in Children(x) : StepShut(c)'
<1> TAKE c \in Children(x)
<1>1. c \in Steps /\ c \in Executor /\ Parent[c] = x /\ c \in Below(x) /\ Below(c) \subseteq Below(x)
  BY ChildOfCase
<1>2. x \in Executor /\ x # NoNode /\ x \notin Steps
  BY KindsApart DEF ChildCases
<1>3. phase[c] = "idle"
  BY <1>1, <1>2, Unstarted DEF Early
<1>4. phase'[c] = "idle"
  BY <1>1, <1>2, <1>3, OthersKeep DEF Begins, Inside
<1>5. (Below(c) \cup {c}) \cap ran' = {}
  <2>1. ran' \subseteq ran \cup {x} /\ x \notin ran'
    <3>1. ran' \subseteq Steps
      BY RecordedStep DEF Inside, Next, Recorded
    <3> QED
      BY <1>2, <3>1, RanGrows
  <2> QED
    BY <1>1, <2>1 DEF Silent
<1>6. Stopped(c)'
  BY <1>1, <1>2 DEF Stopped, StoppedAt
<1> QED
  BY <1>4, <1>5, <1>6 DEF StepShut, Silent, Unchecked, Below

(* A child case that is shut stays so.                                       *)
LEMMA CaseShutStep ==
  ASSUME Inside, Fresh, SkipsCascade', NEW e \in Executor, RunTask(e),
         NEW x \in ChildCases, CaseShut(x)
  PROVE  CaseShut(x)'
<1> USE DEF Inside, Explained
<1>1. x \in Executor /\ Checks(x) /\ x \notin Steps
  BY KindsApart DEF ChildCases, Checks
<1>2. Own(e) /\ phase[e] \notin {"idle", "done"}
  BY OwnSteps DEF Own, OwnEnter, OwnWait, OwnCore, OwnFailure, OwnStart, OwnReturn, OwnClose
<1>3. x \notin ran'
  BY <1>1, RecordedStep DEF Next, Recorded
<1>4. x # e => Keeps(x) /\ (phase'[x] = phase[x] \/ Begins(e, x))
  BY <1>1, OthersKeep
<1>5. phase[x] \in Early => Silent(x)'
  <2> SUFFICES ASSUME phase[x] \in Early PROVE Silent(x)'
    OBVIOUS
  <2>1. Silent(x) /\ e \notin Below(x)
    BY <1>1, <1>2, Unstarted DEF Early
  <2>2. (Below(x) \cup {x}) \cap ran' = {}
    BY <1>3, <2>1, RanGrows DEF Silent
  <2> QED
    BY <2>2 DEF Silent, Below
<1>6. CASE Unchecked(x) /\ phase'[x] \in {"idle", "before"}
  BY <1>3, <1>5, <1>6, UncheckedStep DEF CaseShut, Unchecked, Early
<1>7. CASE Unchecked(x) /\ phase'[x] \notin {"idle", "before"}
  <2>1. x = e /\ phase[e] = "before" /\ Silent(x)
    BY <1>1, <1>2, <1>4, <1>7, Unstarted DEF Unchecked, Begins, Early
  <2>2. Checked(e) = "skipped"
    BY <1>1, <1>7, <2>1 DEF Unchecked, Checked
  <2>3. OwnEnter(e) \/ OwnWait(e) \/ OwnFailure(e)
    BY <1>2, <2>1 DEF Own, OwnCore, OwnStart, OwnReturn, OwnClose
  <2>4. CASE OwnWait(e)
    BY <1>3, <1>5, <2>1, <2>2, <2>4 DEF OwnWait, CaseShut, Early
  <2>5. CASE OwnEnter(e)
    <3>1. AcquireNow(e)
      BY <2>1, <2>5 DEF OwnEnter, Scheduled, SP!TypeOK, RunTask, AcquireWait, Resume, BeforeRaises, CoreReturns,
         CoreRaises, StartNext, StartAll, ChildRaises, RunReturns, CallbackReturns, ErrorReturns,
         ErrorRaises, Sched!AcquireWait, Sched!Resume, Sched!BeforeRaises, Sched!CoreReturns,
         Sched!CoreRaises, Sched!StartNext, Sched!StartAll, Sched!ChildRaises,
         Sched!RunReturns, Sched!CallbackReturns, Sched!ErrorReturns, Sched!ErrorRaises, Sched!Goto
    <3>2. status'[e] = "skipped" /\ phase'[e] = "core"
      BY <1>1, <2>1, <2>2, <2>5, <3>1 DEF AcquireNow, Enters, Recorded, Outcomes, OwnEnter
    <3>3. \A c \in Children(x) : StepShut(c)'
      BY <2>1, <3>2, ChildrenUnchecked DEF StopStatus
    <3> QED
      BY <1>3, <2>1, <3>2, <3>3 DEF CaseShut, Children
  <2>6. CASE OwnFailure(e)
    <3>1. status'[e] = "error" /\ phase'[e] \in Late
      <4>1. ReportsFailure(e)
        BY <2>1, <2>6, Reports DEF OwnFailure, ReportsOutcome, OwnReturn, ReportsNothing, OwnEnter,
           OwnWait, OwnCore, OwnStart, OwnClose
      <4> QED
        BY <2>1, <2>6, <4>1 DEF ReportsFailure, OwnFailure, Late
    <3>2. \A c \in Children(x) : StepShut(c)'
      BY <2>1, <3>1, ChildrenUnchecked DEF StopStatus
    <3> QED
      BY <1>3, <2>1, <3>1, <3>2 DEF CaseShut, Children
  <2> QED
    BY <2>3, <2>4, <2>5, <2>6
<1>8. CASE phase[x] = "waiting" /\ status[x] = "skipped"
  <2>1. CASE x # e
    BY <1>3, <1>4, <1>5, <1>8, <2>1 DEF Keeps, Begins, CaseShut, Early
  <2>2. CASE x = e
    <3>1. Resume(e)
      BY <1>8, <2>2, StartsSome DEF RunTask, AcquireNow, AcquireWait, BeforeRaises, CoreReturns,
         CoreRaises, ChildRaises, RunReturns, CallbackReturns, ErrorReturns,
         ErrorRaises, Sched!AcquireNow, Sched!AcquireWait, Sched!BeforeRaises, Sched!CoreReturns,
         Sched!CoreRaises, Sched!ChildRaises,
         Sched!RunReturns, Sched!CallbackReturns, Sched!ErrorReturns, Sched!ErrorRaises, Sched!Goto
    <3>2. phase'[e] = "core"
      BY <3>1 DEF Resume, Sched!Resume, Sched!Goto, Scheduled, SP!TypeOK
    <3>3. status'[e] = "skipped"
      BY <1>1, <1>8, <2>2, <3>1 DEF Resume, Enters, Recorded, Outcomes
    <3>4. Silent(x)
      BY <1>1, <1>8, Unstarted DEF Early
    <3>5. \A c \in Children(x) : StepShut(c)'
      BY <1>8, <2>2, <3>3, <3>4, ChildrenUnchecked DEF StopStatus
    <3> QED
      BY <1>3, <2>2, <3>2, <3>3, <3>5 DEF CaseShut, Children
  <2> QED
    BY <2>1, <2>2
<1>9. CASE /\ \/ phase[x] \in {"core", "children"} /\ status[x] = "skipped"
              \/ phase[x] \in Late
           /\ \A c \in Children(x) : StepShut(c)
  <2>1. \A c \in Children(x) : StepShut(c)'
    BY <1>9, ChildOfCase, StepShutStep
  <2>2. \/ phase'[x] \in {"core", "children"} /\ status'[x] = "skipped"
        \/ phase'[x] \in Late
    <3>1. CASE x # e
      BY <1>1, <1>4, <1>9, <3>1 DEF Keeps, Begins, Late
    <3>2. CASE x = e
      BY <1>9, <3>2, Reports DEF ReportsFailure, OwnFailure, ReportsOutcome, OwnReturn,
         ReportsNothing, OwnEnter, OwnWait, OwnCore, OwnStart, OwnClose, Late
    <3> QED
      BY <3>1, <3>2
  <2> QED
    BY <1>3, <2>1, <2>2 DEF CaseShut, Children
<1> QED
  BY <1>6, <1>7, <1>8, <1>9 DEF CaseShut

-----------------------------------------------------------------------------
(* Once shut, an executor never does anything again.                         *)
Shut(x) == IF x \in Steps THEN StepShut(x) ELSE CaseShut(x)

(* What is stopped before its check is shut.                                 *)
LEMMA StoppedIsShut ==
  ASSUME Inside, Obeyed, NEW x \in Steps \cup ChildCases,
         phase[x] \in {"idle", "before"}, Stopped(x) \/ EndedFor(x)
  PROVE  Shut(x)
<1>1. x \in Executor
  BY DEF Steps, ChildCases
<1>2. Silent(x)
  BY <1>1, Unstarted DEF Early
<1>3. Unchecked(x)
  <2>1. CASE Stopped(x)
    BY <2>1 DEF Unchecked
  <2>2. CASE EndedFor(x)
    <3>1. PICK f \in Failed : /\ phase[f] = "done"
                              /\ Target(f, strategy, InnerStrategy) \in Scopes(x) \cup {Parent[x]}
      BY <2>2 DEF EndedFor
    <3> DEFINE n == Target(f, strategy, InnerStrategy)
    <3>2. n # NoNode /\ x \in Children(Parent[x])
      <4>1. x # Root
        BY StepIsNoRoot, KindAssumption DEF ChildCases
      <4>2. n \in Executor
        BY <1>1, <3>1, <4>1, ScopesAreAbove, AboveType
      <4> QED
        BY <1>1, <4>1, <4>2, TreeAssumption, ParentIsExecutor
    <3>3. CASE status[n] \in StopStatus
      BY <3>1, <3>2, <3>3 DEF Unchecked, Stopped, StoppedAt
    <3>4. CASE Served(n)
      <4>1. n = Parent[x]
        BY <3>1, <3>4, KindAssumption DEF Served, Scopes, Steps, StepKind, ContainerKind
      <4>2. phase[x] = "idle" /\ phase[Parent[x]] \in Late
        BY <3>2, <3>4, <4>1 DEF Served
      <4> QED
        BY <4>2 DEF Unchecked
    <3> HIDE DEF n
    <3> QED
      BY <3>1, <3>2, <3>3, <3>4 DEF Obeyed, n
  <2> QED
    BY <2>1, <2>2
<1> QED
  BY <1>1, <1>2, <1>3 DEF Shut, StepShut, CaseShut, Silent

LEMMA ShutIsSilent ==
  ASSUME NEW x \in Steps \cup ChildCases, Shut(x)
  PROVE  (Below(x) \cup {x}) \cap ran = {}
<1>1. CASE x \in Steps
  BY <1>1 DEF Shut, StepShut, Silent
<1>2. CASE x \notin Steps /\ ~Silent(x)
  <2>1. x \notin ran /\ \A c \in Children(x) : Silent(c)
    BY <1>2 DEF Shut, CaseShut, StepShut
  <2>2. \A d \in Below(x) : \E c \in Children(x) : d \in Below(c) \cup {c}
    BY PathToChild DEF ChildCases, Steps
  <2> QED
    BY <2>1, <2>2 DEF Silent
<1> QED
  BY <1>1, <1>2 DEF Silent

LEMMA ShutNext ==
  ASSUME Inside, Fresh, SkipsCascade', [Next]_vars, NEW x \in Steps \cup ChildCases, Shut(x)
  PROVE  Shut(x)'
<1>1. ASSUME NEW e \in Executor, RunTask(e) PROVE Shut(x)'
  <2>1. CASE x \in Steps
    BY <1>1, <2>1, StepShutStep DEF Shut
  <2>2. CASE x \notin Steps
    BY <1>1, <2>2, CaseShutStep DEF Shut
  <2> QED
    BY <2>1, <2>2
<1>2. CASE TaskRunner \/ Quiescent \/ UNCHANGED vars
  <2>1. UNCHANGED <<phase, strategy, status, skipped, ran>>
    BY <1>2 DEF TaskRunner, Quiescent, vars, scheduling, outcome, history, Sched!TaskRunner,
       Sched!TopLevelReturns, Sched!TopLevelRaises, Sched!DrainReturns, Sched!DrainRaises,
       Sched!Quiescent, Sched!vars, Sched!semaphore
  <2>2. Unchecked(x)' <=> Unchecked(x)
    BY <2>1 DEF Unchecked, Stopped, StoppedAt, Scopes
  <2>3. \A c : StepShut(c) => StepShut(c)'
    BY <2>1 DEF StepShut, Unchecked, Stopped, StoppedAt, Scopes, Silent, Below
  <2> QED
    BY <2>1, <2>2, <2>3 DEF Shut, CaseShut, Silent, Below, Children
<1> QED
  BY <1>1, <1>2 DEF Next

LEMMA FinalInit ==
  ASSUME Init
  PROVE  Fresh /\ Obeyed
<1>1. \A c \in ChildCases : status[c] = "pending"
  BY DEF Init, ChildCases
<1>2. Failed = {}
  BY DEF Init, Failed, Steps
<1> QED
  BY <1>1, <1>2 DEF Fresh, Obeyed, StopStatus

LEMMA FinalNext ==
  ASSUME Inside, Fresh, Obeyed, [Next]_vars
  PROVE  Fresh' /\ Obeyed'
<1>1. ASSUME NEW e \in Executor, RunTask(e) PROVE Fresh' /\ Obeyed'
  BY <1>1, FreshStep, ObeyedStep
<1>2. CASE TaskRunner \/ Quiescent \/ UNCHANGED vars
  <2>1. UNCHANGED <<phase, strategy, status, result>>
    BY <1>2 DEF TaskRunner, Quiescent, vars, scheduling, outcome, history, Sched!TaskRunner,
       Sched!TopLevelReturns, Sched!TopLevelRaises, Sched!DrainReturns, Sched!DrainRaises,
       Sched!Quiescent, Sched!vars, Sched!semaphore
  <2> QED
    BY <2>1 DEF Fresh, Obeyed, Failed, Served, Children
<1> QED
  BY <1>1, <1>2 DEF Next

(* An executor that is stopped before its check, by the outcome of what it    *)
(* is in or by a failed step's strategy, never runs its core, and neither     *)
(* does what is below it: whatever is overwritten above it later, it has been *)
(* told by then, or will never be started.                                   *)
THEOREM StopsAreFinal == Spec => StopIsFinal
<1>1. ASSUME NEW e \in Steps \cup ChildCases
      PROVE  Spec => [](phase[e] \in {"idle", "before"} /\ (Stopped(e) \/ EndedFor(e))
                          => []((Below(e) \cup {e}) \cap ran = {}))
  <2>1. Init => Cascade /\ Explained /\ Fresh /\ Obeyed
    BY CascadeInit, ExplainedInit, FinalInit
  <2>2. Scheduled /\ Recorded /\ Cascade /\ [Next]_vars => Cascade'
    BY CascadeNext
  <2>3. Scheduled /\ Recorded /\ Cascade /\ Explained /\ [Next]_vars => Explained'
    BY ExplainedNext DEF Cascade
  <2>4. Scheduled /\ Recorded /\ Cascade /\ Explained /\ Fresh /\ Obeyed /\ [Next]_vars
          => Fresh' /\ Obeyed'
    BY FinalNext DEF Cascade, Inside
  <2>5. Scheduled /\ Recorded /\ Cascade /\ Explained /\ Obeyed
        /\ phase[e] \in {"idle", "before"} /\ (Stopped(e) \/ EndedFor(e)) => Shut(e)
    BY StoppedIsShut DEF Cascade, Inside
  <2>6. Scheduled /\ Recorded /\ Cascade /\ Explained /\ Fresh /\ Cascade' /\ [Next]_vars /\ Shut(e)
          => Shut(e)'
    BY ShutNext DEF Cascade, Inside
  <2>7. Shut(e) => (Below(e) \cup {e}) \cap ran = {}
    BY ShutIsSilent
  <2> QED
    BY <2>1, <2>2, <2>3, <2>4, <2>5, <2>6, <2>7, ScheduledAlways, RecordedAlways, PTL DEF Spec
<1>2. \A e \in Steps \cup ChildCases :
        Spec => [](phase[e] \in {"idle", "before"} /\ (Stopped(e) \/ EndedFor(e))
                     => []((Below(e) \cup {e}) \cap ran = {}))
  BY <1>1
<1> QED
  BY <1>2 DEF StopIsFinal

-----------------------------------------------------------------------------
(* What an error strategy ends.                                              *)

(* A climb that stops at a multitasker starts right below it, or has come    *)
(* through the iteration that it keeps.                                      *)
LEMMA IterOfMultitasker ==
  ASSUME NEW e \in Executor \ {Root}, NEW s, NEW i, Kind[Decider(e, s, i)] = "multitasker"
  PROVE  \/ ChildIter(e, s, i) = NoNode /\ Decider(e, s, i) = Parent[e]
         \/ ChildIter(e, s, i) \in Children(Decider(e, s, i)) \cap Above[e]
<1> DEFINE R(n) == RealErrorStrategy(n, s, i)
           P(n) == Kind[R(n)[1]] = "multitasker" =>
                     \/ R(n)[2] = NoNode /\ R(n)[1] = Parent[n]
                     \/ R(n)[2] \in Children(R(n)[1]) \cap Above[n]
           S == {n \in Executor : n # Root => P(n)}
<1>1. S = Executor
  <2>1. Root \in S
    BY TreeAssumption
  <2>2. ASSUME NEW n \in Executor, n # Root, Parent[n] \in S PROVE n \in S
    <3> DEFINE up == Parent[n]
               iter == IF Kind[up] = "child_multitasker" THEN up ELSE NoNode
    <3>1. R(n) = IF HandsOn(up, s, i)
                   THEN <<R(up)[1], IF R(up)[2] = NoNode THEN iter ELSE R(up)[2]>>
                   ELSE <<up, iter>>
      BY <2>2, ClimbIs
    <3>2. Above[n] = {up} \cup Above[up] /\ up \in Executor
      BY <2>2, AboveIs, ParentIsExecutor
    <3> HIDE DEF R
    <3>3. CASE ~HandsOn(up, s, i)
      BY <2>2, <3>1, <3>3
    <3>4. CASE HandsOn(up, s, i) /\ R(up)[2] # NoNode
      <4>1. up # Root /\ P(up)
        BY <2>2, <3>4 DEF HandsOn
      <4>2. R(n)[1] = R(up)[1] /\ R(n)[2] = R(up)[2]
        BY <3>1, <3>4
      <4> QED
        BY <2>2, <3>2, <3>4, <4>1, <4>2
    <3>5. CASE HandsOn(up, s, i) /\ R(up)[2] = NoNode
      <4>1. up # Root /\ P(up)
        BY <2>2, <3>5 DEF HandsOn
      <4>2. R(n)[1] = R(up)[1] /\ R(n)[2] = iter
        BY <3>1, <3>5
      <4>3. ASSUME Kind[R(up)[1]] = "multitasker" PROVE iter \in Children(R(n)[1]) \cap Above[n]
        <5>1. R(up)[1] = Parent[up]
          <6>1. NoNode \notin Executor /\ Above[up] \subseteq Executor
            BY <3>2, AboveType, TreeAssumption
          <6> QED
            BY <3>5, <4>1, <4>3, <6>1
        <5>2. Kind[up] = "child_multitasker"
          BY <3>2, <4>1, <4>3, <5>1, KindOfChild DEF KindBelow
        <5>3. up \in Children(Parent[up])
          BY <3>2, <4>1, ParentIsExecutor
        <5> QED
          BY <3>2, <4>2, <5>1, <5>2, <5>3
      <4> QED
        BY <2>2, <4>2, <4>3
    <3> QED
      BY <3>3, <3>4, <3>5
  <2> HIDE DEF S
  <2>3. S \in SUBSET Executor
    BY DEF S
  <2> QED
    BY <2>1, <2>2, <2>3, TreeInduction
<1> QED
  BY <1>1 DEF Decider, ChildIter

(* However many multitaskers lie between a failed step and the one that      *)
(* decides for itself, that one or the iteration of it around the step is    *)
(* ended: child_iter (error_strategy.py:80) is replaced all the way up.      *)
THEOREM MultitaskersEndThemselves == MultitaskerEndsItself
<1> SUFFICES ASSUME NEW e \in Steps, ~Unresolved(e, strategy, InnerStrategy),
                    Kind[Decider(e, strategy, InnerStrategy)] = "multitasker"
             PROVE  LET d == Decider(e, strategy, InnerStrategy)
                    IN  /\ strategy[d] = "multitasker" => Target(e, strategy, InnerStrategy) = d
                        /\ strategy[d] = "current_multitasker" =>
                             Target(e, strategy, InnerStrategy) \in Children(d) \cap Above[e]
  BY DEF MultitaskerEndsItself, Resolved
<1> DEFINE d == Decider(e, strategy, InnerStrategy)
           it == ChildIter(e, strategy, InnerStrategy)
<1>1. e \in Executor \ {Root} /\ d \in Executor
  BY StepIsNoRoot, ClimbIsAbove, AboveType
<1>2. strategy[d] \in {"multitasker", "current_multitasker"} =>
        it # NoNode /\ it \in Children(d) \cap Above[e] /\ Parent[it] = d
  <2> SUFFICES ASSUME strategy[d] \in {"multitasker", "current_multitasker"}
               PROVE  it # NoNode /\ it \in Children(d) \cap Above[e] /\ Parent[it] = d
    OBVIOUS
  <2>1. it # NoNode
    BY DEF Unresolved
  <2>2. it \in Children(d) \cap Above[e]
    BY <1>1, <2>1, IterOfMultitasker
  <2>3. Parent[it] = d
    <3> HIDE DEF d, it
    <3> QED
      BY <1>1, <2>2, ParentOfChild
  <2> QED
    BY <2>1, <2>2, <2>3
<1>3. strategy[d] = "multitasker" =>
        Target(e, strategy, InnerStrategy) = IF it = NoNode THEN NoNode ELSE Parent[it]
  BY DEF Target
<1>4. strategy[d] = "current_multitasker" => Target(e, strategy, InnerStrategy) = it
  BY DEF Target
<1> HIDE DEF d, it
<1> QED
  BY <1>2, <1>3, <1>4 DEF d, it

(* Where no referenced case decides for itself, ending the case reaches the  *)
(* main case above the failed step and ending the current case the child     *)
(* case, from whatever depth of referenced cases and loops.                  *)
THEOREM CallersDecideForThemselves == CallerDecidesForItself
<1> SUFFICES ASSUME NEW e \in Steps, \A a \in Above[e] : strategy[a] # "ref_case_inner"
             PROVE  LET decision == strategy[Decider(e, strategy, InnerStrategy)]
                        Reaches(kind) == \E a \in Above[e] :
                          Kind[a] = kind /\ Target(e, strategy, InnerStrategy) = a
                    IN  /\ decision = "case" => Reaches("main_case")
                        /\ decision = "current_case" => Reaches("child_case")
  BY DEF CallerDecidesForItself, Resolved
<1>1. e \in Executor /\ Kind[e] \notin {"main_case", "child_case"}
  BY StepIsNoRoot DEF Steps, StepKind, ContainerKind
<1>2. ~DecidesInside(e, strategy)
  BY <1>1, NearestIsFound DEF DecidesInside, InCase
<1>3. PICK c \in Above[e] : c \in ChildCases
  BY CaseOfStep
<1>4. Parent[c] \in Above[e] /\ Kind[Parent[c]] = "main_case"
  <2>1. c \in Executor /\ c # Root /\ Kind[c] = "child_case"
    BY <1>1, <1>3, AboveType, KindAssumption DEF ChildCases
  <2>2. Kind[Parent[c]] = "main_case"
    BY <2>1, KindOfChild DEF KindBelow, OriginKind
  <2>3. Parent[c] \in Above[c] /\ Above[c] \subseteq Above[e]
    <3>1. Above[c] = {Parent[c]} \cup Above[Parent[c]]
      BY <2>1, AboveIs
    <3>2. Above[c] \subseteq Above[e]
      BY <1>1, <1>3, AboveTransitive
    <3> QED
      BY <3>1, <3>2
  <2> QED
    BY <2>2, <2>3
<1>5. \A kind \in {"main_case", "child_case"} :
        NearestFrom(e, kind) \in Above[e] /\ Kind[NearestFrom(e, kind)] = kind
  <2> TAKE kind \in {"main_case", "child_case"}
  <2>1. NearestFrom(e, kind) = NearestAbove(e, kind)
    BY <1>1 DEF NearestFrom
  <2>2. \E a \in Above[e] : Kind[a] = kind
    BY <1>3, <1>4 DEF ChildCases
  <2> QED
    BY <1>1, <2>1, <2>2, NearestIsFound
<1>6. /\ strategy[Decider(e, strategy, InnerStrategy)] = "case" =>
           Target(e, strategy, InnerStrategy) = NearestFrom(e, "main_case")
      /\ strategy[Decider(e, strategy, InnerStrategy)] = "current_case" =>
           Target(e, strategy, InnerStrategy) = NearestFrom(e, "child_case")
  BY <1>2 DEF Target
<1> QED
  BY <1>5, <1>6

(* What a referenced case that decides for itself decides about its own      *)
(* steps ends the case step or what is below it, never more of the caller.   *)
THEOREM InnerDecisionsStayInside == InsideStaysInside
<1> DEFINE c(e) == NearestAbove(e, "case")
<1> SUFFICES ASSUME NEW e \in Steps, c(e) \in Above[Decider(e, strategy, InnerStrategy)],
                    strategy[c(e)] = "ref_case_inner",
                    strategy[Decider(e, strategy, InnerStrategy)] \in {"case", "current_case"}
             PROVE  Target(e, strategy, InnerStrategy) \in {c(e)} \cup Below(c(e))
  BY DEF InsideStaysInside, Resolved
<1>1. /\ e \in Executor \ {Root} /\ NoNode \notin Executor
      /\ Decider(e, strategy, InnerStrategy) \in Executor
  BY StepIsNoRoot, ClimbIsAbove, AboveType, TreeAssumption
<1>2. \E a \in Above[e] : Kind[a] = "case"
  <2>1. c(e) \in Executor
    BY <1>1, AboveType
  <2> QED
    BY <1>1, <2>1 DEF NearestAbove
<1>3. /\ c(e) \in Above[e] /\ Kind[c(e)] = "case" /\ c(e) \in Executor
      /\ \A b \in Above[e] : Kind[b] = "case" => b = c(e) \/ b \in Above[c(e)]
  BY <1>1, <1>2, NearestIsFound, AboveType
<1>4. DecidesInside(e, strategy)
  BY <1>2 DEF DecidesInside, InCase
<1>5. CASE strategy[Decider(e, strategy, InnerStrategy)] = "case"
  BY <1>4, <1>5 DEF Target
<1>6. CASE strategy[Decider(e, strategy, InnerStrategy)] = "current_case"
  <2>1. Target(e, strategy, InnerStrategy) = NearestFrom(e, "child_step_case")
    BY <1>4, <1>6 DEF Target
  <2> HIDE DEF c
  <2>2. PICK k \in Children(c(e)) : e = k \/ e \in Below(k)
    BY <1>1, <1>3, PathToChild DEF Below
  <2>3. k \in Executor /\ k # Root /\ Parent[k] = c(e) /\ Kind[k] = "child_step_case"
    <3>1. k \in Executor /\ k # Root /\ Parent[k] = c(e)
      BY <1>3, <2>2, ParentOfChild
    <3> QED
      BY <1>3, <3>1, KindOfChild DEF KindBelow
  <2>4. c(e) \in Above[k]
    BY <2>3, AboveIs
  <2>5. CASE Kind[e] = "child_step_case"
    BY <1>1, <1>3, <2>1, <2>5 DEF NearestFrom, Below
  <2>6. CASE Kind[e] # "child_step_case"
    <3> DEFINE t == NearestAbove(e, "child_step_case")
    <3>1. k \in Above[e]
      BY <2>2, <2>3, <2>6 DEF Below
    <3>2. t \in Above[e] /\ (k = t \/ k \in Above[t])
      BY <1>1, <2>3, <3>1, NearestIsFound
    <3>3. t \in Executor /\ Target(e, strategy, InnerStrategy) = t
      BY <1>1, <2>1, <2>6, <3>2, AboveType DEF NearestFrom
    <3>4. c(e) \in Above[t]
      <4> HIDE DEF t
      <4> QED
        BY <2>4, <3>2, <3>3, AboveTransitive
    <3> QED
      BY <3>3, <3>4 DEF Below
  <2> QED
    BY <2>5, <2>6
<1> QED
  BY <1>5, <1>6

=============================================================================
