------------------------ MODULE TaskLifecycle_proofs ------------------------
(***************************************************************************)
(* Proofs about TaskLifecycle, for every set of runs, however they share   *)
(* their tasks, whatever method they name, and with any of them troubled.  *)
(***************************************************************************)
EXTENDS TaskLifecycle, TLAPS

(* The facts about the order of the stages that the proofs need. *)
LEMMA StageOrder ==
    /\ \A s \in DOMAIN Following : Following[s] \in Stage
    /\ "finished" \notin DOMAIN Following
BY DEF Following, Stage

(* A child that goes on to the next stage is still a child. *)
LEMMA AdvancedType ==
    ASSUME NEW c \in ChildState, c.at \in DOMAIN Following
    PROVE  Advanced(c) \in ChildState
BY StageOrder DEF Advanced, ChildState

(* What a cut-short execution may have done. *)
Executed(c, pools, written) ==
    [c EXCEPT !.open = @ \cup pools, !.marks = @ \cup written]

LEMMA PartlyExecuted ==
    ASSUME NEW r \in Runs, child[r].at = "execute"
    PROVE  Partly(r) = {Executed(child[r], pools, written) :
                          pools \in PoolsOpened, written \in SUBSET {"recorded"}}
BY DEF Partly, Executed

(* What an interrupted stage may leave is a state of a child, and of the disk. *)
LEMMA PartlyType ==
    ASSUME TypeOK, NEW r \in Runs
    PROVE  /\ Partly(r) \subseteq ChildState
           /\ PartlyOnDisk(r) \subseteq DiskState
<1>1. Partly(r) \subseteq ChildState
  <2>1. child[r] \in ChildState /\ Called(r, "start") \in ChildState
                               /\ Called(r, "end") \in ChildState
    BY SMTT(30) DEF TypeOK, ChildState, Called
  <2>2. ASSUME NEW pools \in PoolsOpened, NEW written \in SUBSET {"recorded"}
        PROVE  Executed(child[r], pools, written) \in ChildState
    BY <2>1 DEF ChildState, PoolsOpened, Pools, Connections, Executed
  <2>3. CASE child[r].at = "execute"
    BY <2>3, <2>2, PartlyExecuted
  <2>4. [child[r] EXCEPT !.marks = @ \cup {"session"}] \in ChildState
    BY <2>1 DEF ChildState
  <2>5. CASE child[r].at # "execute"
    BY <2>1, <2>4, <2>5 DEF Partly
  <2> QED BY <2>3, <2>5
<1>2. PartlyOnDisk(r) \subseteq DiskState
  BY DEF TypeOK, PartlyOnDisk, DiskState
<1> QED BY <1>1, <1>2

(* The end of a process keeps the types. *)
LEMMA EndsType ==
    ASSUME TypeOK, NEW r \in Runs, NEW status \in {"exited", "killed"},
           NEW c \in ChildState, Ends(r, status, c)
    PROVE  /\ proc' \in [Runs -> {"none", "booting", "running",
                                  "exited", "killed"}]
           /\ child' \in [Runs -> ChildState]
<1>1. [c EXCEPT !.open = {}] \in ChildState
  BY DEF ChildState
<1> QED BY <1>1 DEF TypeOK, Ends

LEMMA KilledType ==
    ASSUME TypeOK, NEW r \in Runs, Killed(r)
    PROVE  /\ proc' \in [Runs -> {"none", "booting", "running",
                                  "exited", "killed"}]
           /\ child' \in [Runs -> ChildState]
<1>1. child[r] \in ChildState
  BY DEF TypeOK
<1> QED BY <1>1, EndsType DEF TypeOK, Killed

(* A stage that succeeds keeps the types of everything but the disk. *)
LEMMA PassType ==
    ASSUME TypeOK, NEW r \in Runs, NEW stage \in DOMAIN Following,
           NEW c \in ChildState, c.at = stage, Pass(r, stage, c)
    PROVE  /\ child' \in [Runs -> ChildState]
           /\ UNCHANGED <<monitor, proc, signal>>
<1>1. Advanced(c) \in ChildState
  BY AdvancedType
<1> QED BY <1>1 DEF TypeOK, Pass

LEMMA MonitorType ==
    ASSUME TypeOK, NEW r \in Runs,
           \/ Monitor(r) \/ StartFails(r) \/ SeesLimit(r) \/ MonitorFails(r)
    PROVE  TypeOK'
<1> USE DEF TypeOK, Supervise
<1>1. CASE Starts(r) BY <1>1 DEF Starts
<1>2. CASE SeesEnd(r) BY <1>2 DEF SeesEnd
<1>3. CASE Joins(r) BY <1>3 DEF Joins
<1>4. CASE JoinTimesOut(r) BY <1>4, KilledType DEF JoinTimesOut
<1>5. CASE StartFails(r) BY <1>5 DEF StartFails
<1>6. CASE SeesLimit(r) BY <1>6 DEF SeesLimit
<1>7. CASE MonitorFails(r) BY <1>7, KilledType DEF MonitorFails
<1> QED BY <1>1, <1>2, <1>3, <1>4, <1>5, <1>6, <1>7 DEF Monitor

LEMMA StageFailsType ==
    ASSUME TypeOK, NEW r \in Runs, NEW faults \in SUBSET {"faulted", "left"},
           StageCaught(r, faults) \/ StageEscapes(r, faults)
    PROVE  /\ proc' \in [Runs -> {"none", "booting", "running",
                                  "exited", "killed"}]
           /\ child' \in [Runs -> ChildState]
           /\ disk' \in DiskState
           /\ UNCHANGED monitor
<1>1. ASSUME NEW c \in Partly(r)
      PROVE  /\ c \in ChildState
             /\ [Caught(c) EXCEPT !.marks = @ \cup faults] \in ChildState
             /\ [c EXCEPT !.marks = @ \cup faults] \in ChildState
  <2>1. c \in ChildState
    BY PartlyType
  <2>2. Caught(c) \in ChildState
    BY <2>1 DEF Caught, ChildState, Stage, Following
  <2> QED BY <2>1, <2>2 DEF ChildState
<1>2. disk' \in DiskState
  BY PartlyType DEF StageCaught, StageEscapes
<1>3. CASE StageCaught(r, faults)
  BY <1>1, <1>2, <1>3 DEF StageCaught, TypeOK
<1>4. CASE StageEscapes(r, faults)
  BY <1>1, <1>2, <1>4, EndsType DEF StageEscapes
<1> QED BY <1>3, <1>4

(* A stage that succeeds keeps every type if it leaves a child and a disk. *)
LEMMA PassesType ==
    ASSUME TypeOK, NEW r \in Runs, NEW stage \in DOMAIN Following,
           NEW c, Pass(r, stage, c),
           c \in ChildState, c.at = child[r].at, disk' \in DiskState
    PROVE  TypeOK'
BY PassType DEF TypeOK, Pass, In

LEMMA PreType ==
    ASSUME TypeOK, NEW r \in Runs, Pre(r) \/ Execute(r)
    PROVE  TypeOK'
<1> DEFINE c == child[r]
<1>1. c \in ChildState /\ disk \in DiskState
  BY DEF TypeOK
<1>2. {"generate", "files", "start_call", "execute"} \subseteq DOMAIN Following
  BY DEF Following
<1>3. CASE Generate(r)
  <2>1. [c EXCEPT !.open = {"redis"}] \in ChildState
    BY <1>1 DEF ChildState, Connections
  <2>2. disk' \in DiskState
    BY <1>1, <1>3 DEF Generate, DiskState
  <2> QED BY <1>1, <1>2, <1>3, <2>1, <2>2, PassesType DEF Generate, ChildState
<1>4. CASE CacheFiles(r)
  <2>1. [c EXCEPT !.open = @ \cup {"session"}, !.marks = @ \cup {"session"}]
           \in ChildState
    BY <1>1 DEF ChildState, Connections
  <2>2. disk' \in DiskState
    BY <1>1, <1>4 DEF CacheFiles, DiskState
  <2> QED BY <1>1, <1>2, <1>4, <2>1, <2>2, PassesType DEF CacheFiles, ChildState
<1>5. CASE StartCall(r)
  <2>1. Called(r, "start") \in ChildState /\ Called(r, "start").at = c.at
    BY <1>1 DEF ChildState, Called
  <2> QED BY <1>1, <1>2, <1>5, <2>1, PassesType DEF StartCall
<1>6. CASE Execute(r)
  <2> DEFINE Ran(pools) ==
               [c EXCEPT !.open = (@ \ {"session"}) \cup pools,
                         !.marks = @ \cup {"recorded"}]
  <2>1. PICK pools \in PoolsOpened : Pass(r, "execute", Ran(pools))
    BY <1>6 DEF Execute
  <2>2. Ran(pools) \in ChildState /\ Ran(pools).at = c.at
    BY <1>1 DEF ChildState, PoolsOpened, Pools, Connections
  <2>3. disk' \in DiskState
    BY <1>1, <1>6 DEF Execute
  <2> HIDE DEF Ran
  <2> QED BY <1>2, <2>1, <2>2, <2>3, PassesType
<1> QED BY <1>3, <1>4, <1>5, <1>6 DEF Pre

LEMMA PostType ==
    ASSUME TypeOK, NEW r \in Runs, Post(r)
    PROVE  TypeOK'
<1> DEFINE c == child[r]
<1>1. c \in ChildState /\ disk \in DiskState
  BY DEF TypeOK
<1>2. {"end_call", "clean", "prune", "export", "write", "close_session",
       "close_pools", "close_files", "close_redis"} \subseteq DOMAIN Following
  BY DEF Following
<1>3. CASE EndCall(r)
  <2> DEFINE Ended(answer) == [Called(r, "end") EXCEPT !.listed = answer]
  <2>1. PICK answer \in SUBSET Runs : Pass(r, "end_call", Ended(answer))
    BY <1>3 DEF EndCall, SameTask
  <2>2. Ended(answer) \in ChildState /\ Ended(answer).at = c.at
    BY <1>1 DEF ChildState, Called
  <2>3. disk' \in DiskState
    BY <1>1, <1>3 DEF EndCall
  <2> HIDE DEF Ended
  <2> QED BY <1>2, <2>1, <2>2, <2>3, PassesType
<1>4. CASE CleanTemp(r)
  <2>1. disk' \in DiskState
    BY <1>1, <1>4 DEF CleanTemp, DiskState
  <2> QED BY <1>1, <1>2, <1>4, <2>1, PassesType DEF CleanTemp
<1>5. CASE Prune(r)
  <2>1. [c EXCEPT !.listed = {}] \in ChildState
    BY <1>1 DEF ChildState
  <2>2. [s \in Runs |-> IF s \in Prunable(r) THEN "none" ELSE disk.backup[s]]
           \in [Runs -> {"none", "partial", "whole"}]
    BY <1>1 DEF DiskState
  <2>3. disk' \in DiskState
    BY <1>1, <1>5, <2>2 DEF Prune, DiskState
  <2> QED BY <1>1, <1>2, <1>5, <2>1, <2>3, PassesType DEF Prune, ChildState
<1>6. CASE Export(r)
  <2>1. disk' \in DiskState
    BY <1>1, <1>6 DEF Export, DiskState
  <2> QED BY <1>1, <1>2, <1>6, <2>1, PassesType DEF Export
<1>7. CASE Write(r)
  <2>1. disk' \in DiskState
    BY <1>1, <1>7 DEF Write, DiskState
  <2> QED BY <1>1, <1>2, <1>7, <2>1, PassesType DEF Write
<1>8. CASE CloseSession(r)
  <2>1. [c EXCEPT !.open = @ \ {"session"}] \in ChildState
    BY <1>1 DEF ChildState
  <2> QED BY <1>1, <1>2, <1>8, <2>1, PassesType DEF CloseSession, ChildState
<1>9. CASE ClosePools(r)
  <2>1. [c EXCEPT !.open = @ \ Pools] \in ChildState
    BY <1>1 DEF ChildState
  <2> QED BY <1>1, <1>2, <1>9, <2>1, PassesType DEF ClosePools, ChildState
<1>10. CASE CloseFiles(r)
  <2>1. disk' \in DiskState
    BY <1>1, <1>10 DEF CloseFiles, DiskState
  <2> QED BY <1>1, <1>2, <1>10, <2>1, PassesType DEF CloseFiles
<1>11. CASE CloseRedis(r)
  <2>1. [c EXCEPT !.open = @ \ {"redis"}] \in ChildState
    BY <1>1 DEF ChildState
  <2> QED BY <1>1, <1>2, <1>11, <2>1, PassesType DEF CloseRedis, ChildState
<1> QED BY <1>3, <1>4, <1>5, <1>6, <1>7, <1>8, <1>9, <1>10, <1>11 DEF Post

LEMMA ChildType ==
    ASSUME TypeOK, NEW r \in Runs, Child(r)
    PROVE  TypeOK'
<1>1. CASE Boots(r)
  BY <1>1 DEF Boots, TypeOK
<1>2. CASE Pre(r) \/ Execute(r)
  BY <1>2, PreType
<1>3. CASE Post(r)
  BY <1>3, PostType
<1>4. CASE Returns(r)
  <2>1. child[r] \in ChildState
    BY DEF TypeOK
  <2> QED BY <1>4, <2>1, EndsType DEF Returns, TypeOK
<1>5. CASE DoomedEscapes(r)
  BY <1>5, StageFailsType DEF DoomedEscapes, TypeOK
<1> QED BY <1>1, <1>2, <1>3, <1>4, <1>5 DEF Child

LEMMA TroubleType ==
    ASSUME TypeOK, NEW r \in Runs, Trouble(r)
    PROVE  TypeOK'
<1>1. CASE StartFails(r) \/ SeesLimit(r) \/ MonitorFails(r)
  BY <1>1, MonitorType
<1>2. CASE Fails(r)
  BY <1>2, StageFailsType DEF Fails, TypeOK
<1>3. CASE SignalTerminates(r)
  BY <1>3, KilledType DEF SignalTerminates, Handles, TypeOK
<1>4. CASE SignalCaught(r) \/ SignalEscapes(r)
  BY <1>4, StageFailsType DEF SignalCaught, SignalEscapes, Handles, TypeOK
<1>5. CASE SignalSwallowed(r)
  BY <1>5 DEF SignalSwallowed, Handles, TypeOK
<1>6. CASE Crashes(r)
  BY <1>6, KilledType DEF Crashes, TypeOK
<1>7. CASE ScriptExits(r)
  BY <1>7, StageFailsType DEF ScriptExits, TypeOK
<1> QED BY <1>1, <1>2, <1>3, <1>4, <1>5, <1>6, <1>7 DEF Trouble, Handler

LEMMA InitType == Init => TypeOK
BY DEF Init, TypeOK, ChildState, DiskState, Stage, Following

(* Type correctness: in particular a child is at a stage there is, holds only *)
(* connections there are, and answers only with runs there are.               *)
THEOREM LifecycleTypes == Spec => []TypeOK
<1>1. TypeOK /\ [Next]_vars => TypeOK'
  <2> SUFFICES ASSUME TypeOK, [Next]_vars PROVE TypeOK'
    OBVIOUS
  <2>1. CASE UNCHANGED vars
    BY <2>1 DEF TypeOK, vars
  <2>2. ASSUME NEW r \in Runs, Monitor(r) \/ Child(r) \/ Trouble(r) PROVE TypeOK'
    BY <2>2, MonitorType, ChildType, TroubleType
  <2> QED BY <2>1, <2>2 DEF Next, Quiescent
<1> QED BY <1>1, InitType, PTL DEF Spec
-----------------------------------------------------------------------------
(* What the kinds of steps leave of the state *)

Step(r) == Monitor(r) \/ Child(r) \/ Trouble(r)

(* The steps in which the child gets no further. *)
Waits(r) ==
    \/ Monitor(r) \/ StartFails(r) \/ SeesLimit(r) \/ MonitorFails(r)
    \/ Boots(r) \/ Returns(r)
    \/ SignalTerminates(r) \/ SignalSwallowed(r) \/ Crashes(r)

(* Where a child is and what it has done, without its connections. *)
SameChild(c, d) ==
    /\ c.at = d.at /\ c.method = d.method /\ c.called = d.called
    /\ c.listed = d.listed /\ c.marks = d.marks

(* A process that ends ends by itself only at the last stage, or by a stage *)
(* that fails; nothing starts it again, and no signal is taken back.        *)
LEMMA WaitsEffect ==
    ASSUME TypeOK, NEW r \in Runs, Waits(r)
    PROVE  /\ disk' = disk
           /\ \A s \in Runs : SameChild(child'[s], child[s])
           /\ child'[r].open \in {child[r].open, {}}
           /\ \A s \in Runs \ {r} :
                 UNCHANGED <<child[s], proc[s], signal[s], monitor[s]>>
           /\ proc'[r] = "exited" => proc[r] = "exited" \/ In(r, "finished")
           /\ proc[r] # "none" => proc'[r] # "none"
           /\ signal[r] # "none" => signal'[r] # "none"
<1> USE DEF TypeOK, ChildState, SameChild, Supervise, Killed, Ends
<1>1. CASE Starts(r) BY <1>1 DEF Starts
<1>2. CASE SeesEnd(r) BY <1>2 DEF SeesEnd
<1>3. CASE Joins(r) BY <1>3 DEF Joins
<1>4. CASE JoinTimesOut(r) BY <1>4 DEF JoinTimesOut
<1>5. CASE StartFails(r) BY <1>5 DEF StartFails
<1>6. CASE SeesLimit(r) BY <1>6 DEF SeesLimit
<1>7. CASE MonitorFails(r)
  <2>1. monitor' = [monitor EXCEPT ![r] = "done"] /\ UNCHANGED <<signal, disk>>
    BY <1>7 DEF MonitorFails
  <2>2. CASE Alive(r)
    BY <1>7, <2>1, <2>2 DEF MonitorFails
  <2>3. CASE ~Alive(r)
    BY <1>7, <2>1, <2>3 DEF MonitorFails
  <2> QED BY <2>2, <2>3
<1>8. CASE Boots(r) BY <1>8 DEF Boots
<1>9. CASE Returns(r) BY <1>9 DEF Returns, In
<1>10. CASE SignalTerminates(r)
  <2>1. signal' = [signal EXCEPT ![r] = "handled"] /\ Alive(r) /\ disk' = disk
        /\ monitor' = monitor /\ proc' = [proc EXCEPT ![r] = "killed"]
        /\ child' = [child EXCEPT ![r] = [child[r] EXCEPT !.open = {}]]
    BY <1>10 DEF SignalTerminates, Handles, Alive
  <2> QED BY <2>1
<1>11. CASE SignalSwallowed(r) BY <1>11 DEF SignalSwallowed, Handles
<1>12. CASE Crashes(r) BY <1>12 DEF Crashes
<1> QED BY <1>1, <1>2, <1>3, <1>4, <1>5, <1>6, <1>7, <1>8, <1>9, <1>10,
           <1>11, <1>12 DEF Waits, Monitor

(* A stage that succeeds leaves the child c at the next one. *)
LEMMA PassEffect ==
    ASSUME TypeOK, NEW r \in Runs, NEW stage \in DOMAIN Following,
           NEW c \in ChildState, c.at = child[r].at, Pass(r, stage, c)
    PROVE  /\ child[r].at = stage /\ proc[r] = "running"
           /\ child'[r].at = Following[stage]
           /\ child'[r].method = c.method /\ child'[r].called = c.called
           /\ child'[r].marks = c.marks /\ child'[r].open = c.open
           /\ \A s \in Runs \ {r} : child'[s] = child[s]
           /\ UNCHANGED <<proc, signal, monitor>>
<1>1. /\ child' = [child EXCEPT ![r] = Advanced(c)]
      /\ child \in [Runs -> ChildState]
      /\ child[r].at = stage /\ proc[r] = "running"
      /\ UNCHANGED <<proc, signal, monitor>>
  BY DEF Pass, In, TypeOK
<1>2. child'[r] = Advanced(c) /\ \A s \in Runs \ {r} : child'[s] = child[s]
  BY <1>1
<1>3. /\ Advanced(c).at = Following[stage]
      /\ Advanced(c).method = c.method /\ Advanced(c).called = c.called
      /\ Advanced(c).marks = c.marks /\ Advanced(c).open = c.open
  BY <1>1 DEF Advanced, ChildState
<1> QED BY <1>1, <1>2, <1>3

(* What a failing stage leaves of a child: it only adds to it. *)
LEMMA PartlyEffect ==
    ASSUME TypeOK, NEW r \in Runs, NEW d \in Partly(r)
    PROVE  /\ d.at = child[r].at /\ d.method = child[r].method
           /\ child[r].marks \subseteq d.marks
           /\ d.called = IF r \in Remote /\ child[r].at = "start_call"
                         THEN child[r].called \cup {"start"}
                         ELSE IF r \in Remote /\ child[r].at = "end_call"
                              THEN child[r].called \cup {"end"}
                              ELSE child[r].called
<1>1. child[r] \in ChildState
  BY DEF TypeOK
<1>2. CASE child[r].at = "execute"
  <2>1. PICK pools \in PoolsOpened, written \in SUBSET {"recorded"} :
             d = Executed(child[r], pools, written)
    BY <1>2, PartlyExecuted
  <2>2. /\ d.at = child[r].at
        /\ d.method = child[r].method
        /\ d.called = child[r].called
        /\ d.marks = child[r].marks \cup written
    BY <1>1, <2>1 DEF ChildState, Executed
  <2> QED BY <1>2, <2>2
<1>3. CASE child[r].at # "execute"
  <2> DEFINE opened == [child[r] EXCEPT !.marks = @ \cup {"session"}]
  <2>1. /\ child[r].at = "files" => d \in {child[r], opened}
        /\ child[r].at = "start_call" => d = Called(r, "start")
        /\ child[r].at = "end_call" => d = Called(r, "end")
        /\ child[r].at \notin {"files", "start_call", "end_call"} => d = child[r]
    BY <1>3 DEF Partly
  <2>2. /\ opened.at = child[r].at /\ opened.method = child[r].method
        /\ opened.called = child[r].called /\ child[r].marks \subseteq opened.marks
    BY <1>1 DEF ChildState
  <2> HIDE DEF opened
  <2> QED BY <1>1, <2>1, <2>2 DEF Called, ChildState
<1> QED BY <1>2, <1>3

(* What a failing stage leaves of the disk: it only adds to the directories. *)
LEMMA PartlyOnDiskEffect ==
    ASSUME TypeOK, NEW r \in Runs, NEW d \in PartlyOnDisk(r)
    PROVE  /\ disk.copies \subseteq d.copies
           /\ d.backup = disk.backup /\ d.archive = disk.archive
           /\ d.tempdir \in {disk.tempdir, disk.tempdir \cup {r}}
           /\ child[r].at # "generate" => d.tempdir = disk.tempdir
BY DEF PartlyOnDisk, TypeOK, DiskState

(* What the operations of a stage do to the child and to the disk, apart from *)
(* the move to the next stage.                                               *)
Calls(r, called) ==
    IF r \in Remote /\ child[r].at = "start_call" THEN called \cup {"start"}
    ELSE IF r \in Remote /\ child[r].at = "end_call" THEN called \cup {"end"}
    ELSE called

Connects(r) ==
    CASE child[r].at = "generate" -> child'[r].open = {"redis"}
      [] child[r].at = "files" ->
            child'[r].open = child[r].open \cup {"session"}
      [] child[r].at = "execute" -> "session" \notin child'[r].open
      [] child[r].at = "close_session" ->
            child'[r].open = child[r].open \ {"session"}
      [] child[r].at = "close_pools" ->
            child'[r].open = child[r].open \ Pools
      [] child[r].at = "close_redis" ->
            child'[r].open = child[r].open \ {"redis"}
      [] OTHER -> child'[r].open = child[r].open

BacksUp(r) ==
    CASE child[r].at = "prune" ->
            \A s \in Runs : \/ disk'.backup[s] = disk.backup[s]
                            \/ /\ r \in Remote /\ s \in Named(r)
                               /\ disk'.backup[s] = "none"
      [] child[r].at = "export" /\ Recorded(r) ->
            disk'.backup = [disk.backup EXCEPT ![r] = "partial"]
      [] child[r].at = "write" /\ disk.backup[r] = "partial" ->
            disk'.backup = [disk.backup EXCEPT ![r] = "whole"]
      [] OTHER -> disk'.backup = disk.backup

Stores(r) ==
    /\ disk.copies \ disk'.copies \subseteq
          IF child[r].at = "clean" THEN SameTask(r) ELSE {}
    /\ child[r].at = "files" /\ r \notin Remote => r \in disk'.copies
    /\ disk'.tempdir = CASE child[r].at = "generate" -> disk.tempdir \cup {r}
                         [] child[r].at = "close_files" -> disk.tempdir \ {r}
                         [] OTHER -> disk.tempdir

Marked(r, marks) ==
    IF child[r].at = "files" THEN marks \cup {"session"}
    ELSE IF child[r].at = "execute" THEN marks \cup {"recorded"}
    ELSE marks

StageEffect(r) ==
    /\ proc[r] = "running" /\ child[r].at \in DOMAIN Following
    /\ child'[r].at = Following[child[r].at]
    /\ child'[r].method = child[r].method
    /\ child'[r].called = Calls(r, child[r].called)
    /\ child'[r].marks = Marked(r, child[r].marks)
    /\ Connects(r) /\ BacksUp(r) /\ Stores(r)
    /\ \A s \in Runs \ {r} : child'[s] = child[s]
    /\ UNCHANGED <<proc, signal, monitor>>

LEMMA PreEffect ==
    ASSUME TypeOK, NEW r \in Runs, Pre(r) \/ Execute(r)
    PROVE  StageEffect(r)
<1> DEFINE c == child[r]
<1>1. c \in ChildState /\ disk \in DiskState
  BY DEF TypeOK
<1>2. {"generate", "files", "start_call", "execute"} \subseteq DOMAIN Following
  BY DEF Following
<1>3. CASE Generate(r)
  <2> DEFINE d == [c EXCEPT !.open = {"redis"}]
  <2>1. d \in ChildState /\ d.at = c.at /\ d.method = c.method
        /\ d.called = c.called /\ d.marks = c.marks /\ d.open = {"redis"}
    BY <1>1 DEF ChildState, Connections
  <2>2. Pass(r, "generate", d)
    BY <1>3 DEF Generate
  <2>3. disk'.backup = disk.backup /\ disk'.copies = disk.copies
        /\ disk'.tempdir = disk.tempdir \cup {r}
    BY <1>1, <1>3 DEF Generate, DiskState
  <2> HIDE DEF d
  <2>4. c.at = "generate" /\ c'.open = {"redis"}
    BY <1>2, <2>1, <2>2, PassEffect
  <2>5. Connects(r) /\ BacksUp(r) /\ Stores(r)
    BY <2>3, <2>4 DEF Connects, BacksUp, Stores
  <2> QED BY <1>2, <2>1, <2>2, <2>4, <2>5, PassEffect DEF StageEffect, Calls, Marked
<1>4. CASE CacheFiles(r)
  <2> DEFINE d == [c EXCEPT !.open = @ \cup {"session"},
                            !.marks = @ \cup {"session"}]
  <2>1. d \in ChildState /\ d.at = c.at /\ d.method = c.method
        /\ d.called = c.called /\ d.marks = c.marks \cup {"session"}
        /\ d.open = c.open \cup {"session"}
    BY <1>1 DEF ChildState, Connections
  <2>2. Pass(r, "files", d)
    BY <1>4 DEF CacheFiles
  <2>3. disk'.backup = disk.backup /\ disk'.tempdir = disk.tempdir
        /\ disk'.copies = IF r \in Remote THEN disk.copies ELSE disk.copies \cup {r}
    BY <1>1, <1>4 DEF CacheFiles, DiskState
  <2> HIDE DEF d
  <2>4. c.at = "files" /\ c'.open = c.open \cup {"session"}
    BY <1>2, <2>1, <2>2, PassEffect
  <2>5. Connects(r) /\ BacksUp(r) /\ Stores(r)
    BY <2>3, <2>4 DEF Connects, BacksUp, Stores
  <2> QED BY <1>2, <2>1, <2>2, <2>4, <2>5, PassEffect DEF StageEffect, Calls, Marked
<1>5. CASE StartCall(r)
  <2> DEFINE d == Called(r, "start")
  <2>1. d \in ChildState /\ d.at = c.at /\ d.method = c.method
        /\ d.called = (IF r \in Remote THEN c.called \cup {"start"}
                       ELSE c.called)
        /\ d.marks = c.marks /\ d.open = c.open
    BY <1>1 DEF ChildState, Called
  <2>2. Pass(r, "start_call", d) /\ disk' = disk
    BY <1>5 DEF StartCall
  <2> HIDE DEF d
  <2>4. c.at = "start_call" /\ c'.open = c.open
    BY <1>2, <2>1, <2>2, PassEffect
  <2>5. Connects(r) /\ BacksUp(r) /\ Stores(r)
    BY <2>2, <2>4 DEF Connects, BacksUp, Stores
  <2> QED BY <1>2, <2>1, <2>2, <2>4, <2>5, PassEffect DEF StageEffect, Calls, Marked
<1>6. CASE Execute(r)
  <2> DEFINE Ran(pools) ==
               [c EXCEPT !.open = (@ \ {"session"}) \cup pools,
                         !.marks = @ \cup {"recorded"}]
  <2>1. PICK pools \in PoolsOpened : Pass(r, "execute", Ran(pools))
    BY <1>6 DEF Execute
  <2> DEFINE d == Ran(pools)
  <2>2. d \in ChildState /\ d.at = c.at /\ d.method = c.method
        /\ d.called = c.called /\ d.marks = c.marks \cup {"recorded"}
        /\ "session" \notin d.open
    BY <1>1 DEF ChildState, PoolsOpened, Pools, Connections
  <2>3. Pass(r, "execute", d) /\ disk' = disk
    BY <1>6, <2>1 DEF Execute
  <2> HIDE DEF d
  <2>4. c.at = "execute" /\ "session" \notin c'.open
    BY <1>2, <2>2, <2>3, PassEffect
  <2>5. Connects(r) /\ BacksUp(r) /\ Stores(r)
    BY <2>3, <2>4 DEF Connects, BacksUp, Stores
  <2> QED BY <1>2, <2>2, <2>3, <2>4, <2>5, PassEffect DEF StageEffect, Calls, Marked
<1> QED BY <1>3, <1>4, <1>5, <1>6 DEF Pre

LEMMA PostEffect ==
    ASSUME TypeOK, NEW r \in Runs, Post(r)
    PROVE  StageEffect(r)
<1> DEFINE c == child[r]
<1>1. c \in ChildState /\ disk \in DiskState
  BY DEF TypeOK
<1>2. {"end_call", "clean", "prune", "export", "write", "close_session",
       "close_pools", "close_files", "close_redis"} \subseteq DOMAIN Following
  BY DEF Following
<1>3. CASE EndCall(r)
  <2> DEFINE Ended(answer) == [Called(r, "end") EXCEPT !.listed = answer]
  <2>1. PICK answer \in SUBSET Runs : Pass(r, "end_call", Ended(answer))
    BY <1>3 DEF EndCall, SameTask
  <2> DEFINE d == Ended(answer)
  <2>2. d \in ChildState /\ d.at = c.at /\ d.method = c.method
        /\ d.called = (IF r \in Remote THEN c.called \cup {"end"} ELSE c.called)
        /\ d.marks = c.marks /\ d.open = c.open
    BY <1>1 DEF ChildState, Called
  <2>3. Pass(r, "end_call", d) /\ disk' = disk
    BY <1>3, <2>1 DEF EndCall
  <2> HIDE DEF d
  <2>4. c.at = "end_call" /\ c'.open = c.open
    BY <1>2, <2>2, <2>3, PassEffect
  <2>5. Connects(r) /\ BacksUp(r) /\ Stores(r)
    BY <2>3, <2>4 DEF Connects, BacksUp, Stores
  <2> QED BY <1>2, <2>2, <2>3, <2>4, <2>5, PassEffect DEF StageEffect, Calls, Marked
<1>4. ASSUME NEW stage \in {"clean", "export", "write", "close_files"},
             Pass(r, stage, c), BacksUp(r), Stores(r)
      PROVE  StageEffect(r)
  <2>1. c.at = stage /\ c'.open = c.open
    BY <1>1, <1>2, <1>4, PassEffect
  <2>2. Connects(r)
    BY <1>4, <2>1 DEF Connects
  <2> QED BY <1>1, <1>2, <1>4, <2>1, <2>2, PassEffect DEF StageEffect, Calls, Marked
<1>5. CASE CleanTemp(r)
  <2>1. Pass(r, "clean", c) /\ c.at = "clean"
    BY <1>5 DEF CleanTemp, Pass, In
  <2>2. disk'.backup = disk.backup /\ disk'.tempdir = disk.tempdir
        /\ disk.copies \ disk'.copies \subseteq SameTask(r)
    BY <1>1, <1>5 DEF CleanTemp, DiskState
  <2> QED BY <1>4, <2>1, <2>2 DEF BacksUp, Stores
<1>6. CASE Export(r)
  <2>1. Pass(r, "export", c) /\ c.at = "export"
    BY <1>6 DEF Export, Pass, In
  <2>2. disk'.copies = disk.copies /\ disk'.tempdir = disk.tempdir
        /\ disk'.backup = IF Recorded(r)
                          THEN [disk.backup EXCEPT ![r] = "partial"]
                          ELSE disk.backup
    BY <1>1, <1>6 DEF Export, DiskState
  <2> QED BY <1>4, <2>1, <2>2 DEF BacksUp, Stores
<1>7. CASE Write(r)
  <2>1. Pass(r, "write", c) /\ c.at = "write"
    BY <1>7 DEF Write, Pass, In
  <2>2. disk'.copies = disk.copies /\ disk'.tempdir = disk.tempdir
        /\ disk'.backup = IF disk.backup[r] = "partial"
                          THEN [disk.backup EXCEPT ![r] = "whole"]
                          ELSE disk.backup
    BY <1>1, <1>7 DEF Write, DiskState
  <2> QED BY <1>4, <2>1, <2>2 DEF BacksUp, Stores
<1>8. CASE CloseFiles(r)
  <2>1. Pass(r, "close_files", c) /\ c.at = "close_files"
    BY <1>8 DEF CloseFiles, Pass, In
  <2>2. disk'.copies = disk.copies /\ disk'.backup = disk.backup
        /\ disk'.tempdir = disk.tempdir \ {r}
    BY <1>1, <1>8 DEF CloseFiles, DiskState
  <2> QED BY <1>4, <2>1, <2>2 DEF BacksUp, Stores
<1>9. CASE Prune(r)
  <2> DEFINE d == [c EXCEPT !.listed = {}]
  <2>1. d \in ChildState /\ d.at = c.at /\ d.method = c.method
        /\ d.called = c.called /\ d.marks = c.marks /\ d.open = c.open
    BY <1>1 DEF ChildState
  <2>2. Pass(r, "prune", d)
    BY <1>9 DEF Prune
  <2>3. disk'.copies = disk.copies /\ disk'.tempdir = disk.tempdir
        /\ \A s \in Runs : \/ disk'.backup[s] = disk.backup[s]
                           \/ /\ r \in Remote /\ s \in Prunable(r)
                              /\ disk'.backup[s] = "none"
    BY <1>1, <1>9 DEF Prune, DiskState
  <2> HIDE DEF d
  <2>4. c.at = "prune" /\ c'.open = c.open
    BY <1>2, <2>1, <2>2, PassEffect
  <2>5. Connects(r) /\ BacksUp(r) /\ Stores(r)
    BY <2>3, <2>4 DEF Connects, BacksUp, Stores, Prunable
  <2> QED BY <1>2, <2>1, <2>2, <2>4, <2>5, PassEffect DEF StageEffect, Calls, Marked
<1>10. ASSUME NEW stage \in {"close_session", "close_pools", "close_redis"},
              NEW lost \in SUBSET Connections,
              Pass(r, stage, [c EXCEPT !.open = @ \ lost]), disk' = disk,
              lost = CASE stage = "close_session" -> {"session"}
                       [] stage = "close_pools" -> Pools
                       [] stage = "close_redis" -> {"redis"}
       PROVE  StageEffect(r)
  <2> DEFINE d == [c EXCEPT !.open = @ \ lost]
  <2>1. d \in ChildState /\ d.at = c.at /\ d.method = c.method
        /\ d.called = c.called /\ d.marks = c.marks /\ d.open = c.open \ lost
    BY <1>1 DEF ChildState
  <2>2. Pass(r, stage, d)
    BY <1>10
  <2> HIDE DEF d
  <2>3. c.at = stage /\ c'.open = c.open \ lost
    BY <1>2, <2>1, <2>2, PassEffect
  <2>4. Connects(r) /\ BacksUp(r) /\ Stores(r)
    BY <1>10, <2>3 DEF Connects, BacksUp, Stores
  <2> QED BY <1>2, <2>1, <2>2, <2>3, <2>4, PassEffect DEF StageEffect, Calls, Marked
<1>11. CASE CloseSession(r)
  BY <1>10, <1>11 DEF CloseSession, Connections
<1>12. CASE ClosePools(r)
  BY <1>10, <1>12 DEF ClosePools, Connections
<1>13. CASE CloseRedis(r)
  BY <1>10, <1>13 DEF CloseRedis, Connections
<1> QED BY <1>3, <1>5, <1>6, <1>7, <1>8, <1>9, <1>11, <1>12, <1>13 DEF Post

(* A failing stage: within the try the run goes on to the end call, elsewhere *)
(* the process ends.  What it had done until then stays.                      *)
FailEffect(r, faults) ==
    /\ proc[r] = "running"
    /\ child'[r].method = child[r].method
    /\ child'[r].called = Calls(r, child[r].called)
    /\ child[r].marks \cup faults \subseteq child'[r].marks
    /\ \A s \in Runs \ {r} : UNCHANGED <<child[s], proc[s]>>
    /\ UNCHANGED monitor
    /\ \/ /\ child[r].at \in Protected /\ child'[r].at = "end_call"
          /\ "session" \notin child'[r].open /\ proc' = proc
       \/ /\ child'[r].at = child[r].at
          /\ child'[r].open = {} /\ proc'[r] = "exited"
    /\ disk.copies \subseteq disk'.copies
    /\ disk'.backup = disk.backup
    /\ disk'.tempdir \in {disk.tempdir, disk.tempdir \cup {r}}
    /\ child[r].at # "generate" => disk'.tempdir = disk.tempdir

LEMMA CaughtEffect ==
    ASSUME TypeOK, NEW r \in Runs, NEW faults \in SUBSET {"faulted", "left"},
           StageCaught(r, faults)
    PROVE  FailEffect(r, faults) /\ proc' = proc /\ child[r].at \in Protected
<1>1. PICK d \in Partly(r) :
         child' = [child EXCEPT ![r] = [Caught(d) EXCEPT !.marks = @ \cup faults]]
  BY DEF StageCaught
<1>2. d \in ChildState
  BY PartlyType
<1>3. child'[r] = [Caught(d) EXCEPT !.marks = @ \cup faults]
      /\ \A s \in Runs \ {r} : child'[s] = child[s]
  BY <1>1 DEF TypeOK
<1>4. /\ child'[r].at = "end_call" /\ child'[r].method = d.method
      /\ child'[r].called = d.called /\ child'[r].marks = d.marks \cup faults
      /\ child'[r].open = d.open \ {"session"}
  BY <1>2, <1>3 DEF Caught, ChildState
<1>5. /\ d.method = child[r].method /\ child[r].marks \subseteq d.marks
      /\ d.called = Calls(r, child[r].called)
  BY PartlyEffect DEF Calls, Protected
<1>6. /\ disk.copies \subseteq disk'.copies /\ disk'.backup = disk.backup
      /\ disk'.tempdir \in {disk.tempdir, disk.tempdir \cup {r}}
      /\ child[r].at # "generate" => disk'.tempdir = disk.tempdir
  BY PartlyOnDiskEffect DEF StageCaught
<1>7. /\ proc[r] = "running" /\ child[r].at \in Protected
      /\ UNCHANGED <<monitor, proc>>
  BY DEF StageCaught
<1> QED BY <1>3, <1>4, <1>5, <1>6, <1>7 DEF FailEffect

LEMMA EscapesEffect ==
    ASSUME TypeOK, NEW r \in Runs, NEW faults \in SUBSET {"faulted", "left"},
           StageEscapes(r, faults)
    PROVE  FailEffect(r, faults) /\ child'[r].at = child[r].at
<1>1. PICK d \in Partly(r) : Ends(r, "exited", [d EXCEPT !.marks = @ \cup faults])
  BY DEF StageEscapes
<1>2. d \in ChildState
  BY PartlyType
<1>3. /\ child'[r] = [[d EXCEPT !.marks = @ \cup faults] EXCEPT !.open = {}]
      /\ proc'[r] = "exited"
      /\ \A s \in Runs \ {r} : child'[s] = child[s] /\ proc'[s] = proc[s]
  BY <1>1 DEF TypeOK, Ends
<1>4. /\ child'[r].at = d.at /\ child'[r].method = d.method
      /\ child'[r].called = d.called /\ child'[r].marks = d.marks \cup faults
      /\ child'[r].open = {}
  BY <1>2, <1>3 DEF ChildState
<1>5. /\ d.method = child[r].method /\ child[r].marks \subseteq d.marks
      /\ d.at = child[r].at /\ d.called = Calls(r, child[r].called)
  BY PartlyEffect DEF Calls
<1>6. /\ disk.copies \subseteq disk'.copies /\ disk'.backup = disk.backup
      /\ disk'.tempdir \in {disk.tempdir, disk.tempdir \cup {r}}
      /\ child[r].at # "generate" => disk'.tempdir = disk.tempdir
  BY PartlyOnDiskEffect DEF StageEscapes
<1>7. proc[r] = "running" /\ UNCHANGED monitor
  BY DEF StageEscapes
<1> QED BY <1>3, <1>4, <1>5, <1>6, <1>7 DEF FailEffect

(* A failure comes from outside, from a script, from the signal, or from a    *)
(* doomed stage; only the signal and a script that leaves get out of the try. *)
Failure(r) ==
    \E faults \in SUBSET {"faulted", "left"} :
       /\ FailEffect(r, faults)
       /\ \A s \in Runs \ {r} : signal'[s] = signal[s]
       /\ signal[r] # "none" => signal'[r] # "none"
       /\ \/ signal'[r] # "none"
          \/ /\ faults # {} \/ Doomed(r)
             /\ child[r].at \in Protected => proc' = proc \/ "left" \in faults

LEMMA StepCases ==
    ASSUME TypeOK, NEW r \in Runs, Step(r)
    PROVE  Waits(r) \/ StageEffect(r) \/ Failure(r)
<1>1. CASE Pre(r) \/ Execute(r) \/ Post(r)
  BY <1>1, PreEffect, PostEffect
<1>2. CASE Fails(r)
  <2>1. CASE StageCaught(r, {"faulted"})
    BY <1>2, <2>1, CaughtEffect DEF Fails, Failure
  <2>2. CASE child[r].at \notin Protected /\ StageEscapes(r, {"faulted"})
    BY <1>2, <2>2, EscapesEffect DEF Fails, Failure
  <2> QED BY <1>2, <2>1, <2>2 DEF Fails
<1>3. CASE DoomedEscapes(r)
  <2>1. FailEffect(r, {}) /\ signal' = signal /\ Doomed(r)
    BY <1>3, EscapesEffect DEF DoomedEscapes
  <2>2. child[r].at \notin Protected
    BY <2>1 DEF Doomed, In, Protected
  <2> QED BY <2>1, <2>2 DEF Failure
<1>4. CASE SignalCaught(r) \/ SignalEscapes(r)
  <2>1. FailEffect(r, {})
    BY <1>4, CaughtEffect, EscapesEffect DEF SignalCaught, SignalEscapes
  <2>2. signal' = [signal EXCEPT ![r] = "handled"]
    BY <1>4 DEF SignalCaught, SignalEscapes, Handles
  <2> QED BY <2>1, <2>2 DEF Failure, TypeOK
<1>5. CASE ScriptExits(r)
  <2>1. FailEffect(r, {"left"}) /\ signal' = signal
    BY <1>5, EscapesEffect DEF ScriptExits
  <2> QED BY <2>1 DEF Failure
<1> QED BY <1>1, <1>2, <1>3, <1>4, <1>5
        DEF Step, Waits, Monitor, Child, Trouble, Handler

(* Every step of the program is a step of one run. *)
LEMMA NextIsStep == Next => UNCHANGED vars \/ \E r \in Runs : Step(r)
BY DEF Next, Quiescent, Step
-----------------------------------------------------------------------------
(* The end of a task is reported *)

(* A REMOTE child past the end call has made it; only a signal and a script   *)
(* that leaves end a child between the start call and the end call.           *)
Reports(r) ==
    /\ "start" \in child[r].called => r \in Remote
    /\ child[r].at = "generate" => "start" \notin child[r].called
    /\ r \in Remote /\ "end" \notin child[r].called =>
         child[r].at \in Protected \cup {"generate", "end_call"}
    /\ proc[r] = "exited" /\ "start" \in child[r].called
         /\ "end" \notin child[r].called =>
         signal[r] # "none" \/ "left" \in child[r].marks

LEMMA ReportsStep ==
    ASSUME TypeOK, TypeOK', NEW r \in Runs, NEW s \in Runs, Step(s), Reports(r)
    PROVE  Reports(r)'
<1> USE DEF Reports, Remote, Calls, Marked, Protected
<1>1. CASE Waits(s)
  BY <1>1, WaitsEffect DEF SameChild, In
<1>2. CASE StageEffect(s)
  <2>1. CASE s = r
    BY <1>2, <2>1 DEF StageEffect, Following
  <2>2. CASE s # r
    BY <1>2, <2>2 DEF StageEffect
  <2> QED BY <2>1, <2>2
<1>3. CASE Failure(s)
  <2>1. CASE s = r
    BY <1>3, <2>1 DEF Failure, FailEffect, Doomed, In
  <2>2. CASE s # r
    BY <1>3, <2>2 DEF Failure, FailEffect
  <2> QED BY <2>1, <2>2
<1> QED BY <1>1, <1>2, <1>3, StepCases

LEMMA AllReport == Spec => [](\A r \in Runs : Reports(r))
<1> DEFINE I == \A r \in Runs : Reports(r)
<1>1. Init => I
  BY DEF Init, Reports, Protected
<1>2. TypeOK /\ TypeOK' /\ I /\ [Next]_vars => I'
  <2> SUFFICES ASSUME TypeOK, TypeOK', I, [Next]_vars, NEW r \in Runs
               PROVE  Reports(r)'
    OBVIOUS
  <2>1. CASE UNCHANGED vars
    BY <2>1 DEF vars, Reports, Remote
  <2>2. CASE \E s \in Runs : Step(s)
    BY <2>2, ReportsStep
  <2> QED BY <2>1, <2>2, NextIsStep
<1> QED BY <1>1, <1>2, LifecycleTypes, PTL DEF Spec

(* A run the server was told has started is reported ended by a child that    *)
(* ends by itself, whatever Exception its stages and its execution raise: all *)
(* but a signal and a script that leaves.                                     *)
THEOREM EndsAreReported == Spec => []StartedIsEnded
<1>1. (\A r \in Runs : Reports(r)) => StartedIsEnded
  BY DEF Reports, StartedIsEnded
<1> QED BY <1>1, AllReport, PTL
-----------------------------------------------------------------------------
(* What the disk keeps *)

(* Only a run that exports tears its own backup, and it is whole again when the *)
(* run gets on; the backup is written at all only if there is something in it.  *)
Torn(r) ==
    disk.backup[r] = "partial" => Recorded(r) /\ child[r].at = "write"

LEMMA TornStep ==
    ASSUME TypeOK, TypeOK', NEW r \in Runs, NEW s \in Runs, Step(s), Torn(r)
    PROVE  Torn(r)'
<1> USE DEF Torn, Recorded
<1>1. CASE Waits(s)
  BY <1>1, WaitsEffect DEF SameChild
<1>2. CASE StageEffect(s)
  <2>1. CASE s = r
    <3>1. disk.backup \in [Runs -> {"none", "partial", "whole"}]
      BY DEF TypeOK, DiskState
    <3>2. BacksUp(r) /\ child'[r].at = Following[child[r].at]
          /\ child[r].marks \subseteq child'[r].marks
      BY <1>2, <2>1 DEF StageEffect, Marked
    <3>3. CASE child[r].at \in {"prune", "export", "write"}
      BY <3>1, <3>2, <3>3 DEF BacksUp, Following
    <3>4. CASE child[r].at \notin {"prune", "export", "write"}
      BY <3>2, <3>4 DEF BacksUp
    <3> QED BY <3>3, <3>4
  <2>2. CASE s # r
    <3>1. disk.backup \in [Runs -> {"none", "partial", "whole"}]
      BY DEF TypeOK, DiskState
    <3>2. disk'.backup[r] \in {disk.backup[r], "none"}
      BY <1>2, <2>2, <3>1 DEF StageEffect, BacksUp
    <3> QED BY <1>2, <2>2, <3>2 DEF StageEffect
  <2> QED BY <2>1, <2>2
<1>3. CASE Failure(s)
  <2>1. CASE s = r
    BY <1>3, <2>1 DEF Failure, FailEffect, Protected
  <2>2. CASE s # r
    BY <1>3, <2>2 DEF Failure, FailEffect
  <2> QED BY <2>1, <2>2
<1> QED BY <1>1, <1>2, <1>3, StepCases

(* A backup cut short is that of a run whose child is stopped in writing it,  *)
(* however many runs write, prune and fail at once.                          *)
THEOREM BackupsTornByDeath == Spec => []TornBackupByDeath
<1> DEFINE I == \A r \in Runs : Torn(r)
<1>1. Init => I
  BY DEF Init, Torn
<1>2. TypeOK /\ TypeOK' /\ I /\ [Next]_vars => I'
  <2> SUFFICES ASSUME TypeOK, TypeOK', I, [Next]_vars, NEW r \in Runs
               PROVE  Torn(r)'
    OBVIOUS
  <2>1. CASE UNCHANGED vars
    BY <2>1 DEF vars, Torn, Recorded
  <2>2. CASE \E s \in Runs : Step(s)
    BY <2>2, TornStep
  <2> QED BY <2>1, <2>2, NextIsStep
<1>3. I => TornBackupByDeath
  BY DEF Torn, TornBackupByDeath
<1> QED BY <1>1, <1>2, <1>3, LifecycleTypes, PTL DEF Spec

(* Runs of different tasks do not touch each other's cached files. *)
OwnTask == \A r, s \in Runs : TaskOf[r] = TaskOf[s] => r = s

OwnCopies(r) ==
    OwnTask /\ r \notin Remote /\ child[r].at \in {"start_call", "execute"}
        => r \in disk.copies

LEMMA OwnCopiesStep ==
    ASSUME TypeOK, TypeOK', NEW r \in Runs, NEW s \in Runs, Step(s), OwnCopies(r)
    PROVE  OwnCopies(r)'
<1> USE DEF OwnCopies, Remote
<1>1. CASE Waits(s)
  BY <1>1, WaitsEffect DEF SameChild
<1>2. CASE StageEffect(s)
  <2>1. CASE s = r
    BY <1>2, <2>1 DEF StageEffect, Stores, Following
  <2>2. CASE s # r
    <3>1. OwnTask => r \notin SameTask(s)
      BY <2>2 DEF OwnTask, SameTask
    <3> QED BY <1>2, <2>2, <3>1 DEF StageEffect, Stores
  <2> QED BY <2>1, <2>2
<1>3. CASE Failure(s)
  <2>1. CASE s = r
    BY <1>3, <2>1 DEF Failure, FailEffect
  <2>2. CASE s # r
    BY <1>3, <2>2 DEF Failure, FailEffect
  <2> QED BY <2>1, <2>2
<1> QED BY <1>1, <1>2, <1>3, StepCases

(* The copies of a DJANGO run last to the end of its execution, if every run *)
(* is of a task of its own.                                                  *)
THEOREM CachedFilesKept == Spec => []OwnFilesKept
<1> DEFINE I == \A r \in Runs : OwnCopies(r)
<1>1. Init => I
  BY DEF Init, OwnCopies, OwnTask, Remote
<1>2. TypeOK /\ TypeOK' /\ I /\ [Next]_vars => I'
  <2> SUFFICES ASSUME TypeOK, TypeOK', I, [Next]_vars, NEW r \in Runs
               PROVE  OwnCopies(r)'
    OBVIOUS
  <2>1. CASE UNCHANGED vars
    BY <2>1 DEF vars, OwnCopies, OwnTask, Remote
  <2>2. CASE \E s \in Runs : Step(s)
    BY <2>2, OwnCopiesStep
  <2> QED BY <2>1, <2>2, NextIsStep
<1>3. I => OwnFilesKept
  BY DEF OwnCopies, OwnFilesKept, ExecPathsExist, OwnTask, Remote
<1> QED BY <1>1, <1>2, <1>3, LifecycleTypes, PTL DEF Spec
-----------------------------------------------------------------------------
(* The monitor and its child *)

(* A child lives only between its start and the end of its thread, and waits *)
(* for the end of its grace period only once it has been signalled.          *)
Supervised(r) ==
    /\ monitor[r] = "queued" => proc[r] = "none"
    /\ monitor[r] = "done" => ~Alive(r)
    /\ monitor[r] = "joining" /\ Alive(r) => signal[r] # "none"

LEMMA SupervisedStep ==
    ASSUME TypeOK, TypeOK', NEW r \in Runs, NEW s \in Runs, Step(s), Supervised(r)
    PROVE  Supervised(r)'
<1> USE DEF Supervised, Alive, TypeOK
<1>1. CASE s # r /\ Waits(s)
  BY <1>1, WaitsEffect
<1>2. CASE s = r /\ Waits(s)
  <2> USE DEF Supervise, Killed, Ends
  <2>1. CASE Starts(r) BY <2>1 DEF Starts
  <2>2. CASE SeesEnd(r) BY <2>2 DEF SeesEnd
  <2>3. CASE Joins(r) BY <2>3 DEF Joins
  <2>4. CASE JoinTimesOut(r) BY <2>4 DEF JoinTimesOut
  <2>5. CASE StartFails(r) BY <2>5 DEF StartFails
  <2>6. CASE SeesLimit(r) BY <2>6 DEF SeesLimit
  <2>7. CASE MonitorFails(r)
    <3>1. monitor' = [monitor EXCEPT ![r] = "done"]
      BY <2>7 DEF MonitorFails
    <3>2. ~Alive(r)'
      BY <2>7 DEF MonitorFails
    <3> QED BY <3>1, <3>2
  <2>8. CASE Boots(r) BY <2>8 DEF Boots
  <2>9. CASE Returns(r) BY <2>9 DEF Returns, In
  <2>10. CASE SignalTerminates(r) BY <2>10 DEF SignalTerminates, Handles
  <2>11. CASE SignalSwallowed(r) BY <2>11 DEF SignalSwallowed, Handles
  <2>12. CASE Crashes(r) BY <2>12 DEF Crashes
  <2> QED BY <1>2, <2>1, <2>2, <2>3, <2>4, <2>5, <2>6, <2>7, <2>8, <2>9,
             <2>10, <2>11, <2>12 DEF Waits, Monitor
<1>3. CASE StageEffect(s)
  BY <1>3 DEF StageEffect
<1>4. CASE Failure(s)
  <2>1. CASE s = r
    BY <1>4, <2>1 DEF Failure, FailEffect
  <2>2. CASE s # r
    BY <1>4, <2>2 DEF Failure, FailEffect
  <2> QED BY <2>1, <2>2
<1> QED BY <1>1, <1>2, <1>3, <1>4, StepCases

(* When the thread is done its child is not running, however the thread ended. *)
THEOREM NothingIsLeft == Spec => []NothingLeftRunning
<1> DEFINE I == \A r \in Runs : Supervised(r)
<1>1. Init => I
  BY DEF Init, Supervised, Alive
<1>2. TypeOK /\ TypeOK' /\ I /\ [Next]_vars => I'
  <2> SUFFICES ASSUME TypeOK, TypeOK', I, [Next]_vars, NEW r \in Runs
               PROVE  Supervised(r)'
    OBVIOUS
  <2>1. CASE UNCHANGED vars
    BY <2>1 DEF vars, Supervised, Alive
  <2>2. CASE \E s \in Runs : Step(s)
    BY <2>2, SupervisedStep
  <2> QED BY <2>1, <2>2, NextIsStep
<1>3. I => NothingLeftRunning
  BY DEF Supervised, NothingLeftRunning, Alive
<1> QED BY <1>1, <1>2, <1>3, LifecycleTypes, PTL DEF Spec

(* The grace period of join runs only for a child that was asked to stop. *)
THEOREM GraceAfterSignal == Spec => []KillIsLastResort
<1> DEFINE I == \A r \in Runs : Supervised(r)
<1>1. Init => I
  BY DEF Init, Supervised, Alive
<1>2. TypeOK /\ TypeOK' /\ I /\ [Next]_vars => I'
  <2> SUFFICES ASSUME TypeOK, TypeOK', I, [Next]_vars, NEW r \in Runs
               PROVE  Supervised(r)'
    OBVIOUS
  <2>1. CASE UNCHANGED vars
    BY <2>1 DEF vars, Supervised, Alive
  <2>2. CASE \E s \in Runs : Step(s)
    BY <2>2, SupervisedStep
  <2> QED BY <2>1, <2>2, NextIsStep
<1>3. I => KillIsLastResort
  BY DEF Supervised, KillIsLastResort, Alive
<1> QED BY <1>1, <1>2, <1>3, LifecycleTypes, PTL DEF Spec
-----------------------------------------------------------------------------
(* What an untroubled run leaves *)

(* Another run may have pruned the backup. *)
Shared(r) == \E s \in Runs : PrunedBy(r, s)

Untouched(r) == r \in Remote /\ Undisturbed(r)

(* What the stages have released, saved and removed, by the stage reached. *)
Releases(r) ==
    /\ child[r].at \notin Protected \cup {"generate"} =>
          Recorded(r) /\ "session" \notin child[r].open
    /\ child[r].at \notin {"generate", "files"} => "session" \in child[r].marks
    /\ child[r].at = "write" => disk.backup[r] = "partial" \/ Shared(r)
    /\ child[r].at \in {"close_session", "close_pools", "close_files",
                        "close_redis", "finished"} =>
          disk.backup[r] = "whole" \/ Shared(r)
    /\ child[r].at \in {"close_files", "close_redis", "finished"} =>
          child[r].open \cap Pools = {}
    /\ child[r].at \in {"close_redis", "finished"} => r \notin disk.tempdir
    /\ child[r].at = "finished" => child[r].open = {}
    /\ proc[r] = "exited" => child[r].at \in {"close_pools", "finished"}

Untroubled(r) == Untouched(r) => Releases(r)

(* A call that was made has been made for ever. *)
LEMMA SharedStays ==
    ASSUME TypeOK, NEW r \in Runs, NEW s \in Runs, Step(s), Shared(r)
    PROVE  Shared(r)'
<1>1. PICK t \in Runs : PrunedBy(r, t)
  BY DEF Shared
<1>2. child[t].called \subseteq child'[t].called
  <2>1. CASE Waits(s)
    BY <2>1, WaitsEffect DEF SameChild
  <2>2. CASE StageEffect(s)
    BY <2>2 DEF StageEffect, Calls
  <2>3. CASE Failure(s)
    BY <2>3 DEF Failure, FailEffect, Calls
  <2> QED BY <2>1, <2>2, <2>3, StepCases
<1> QED BY <1>1, <1>2 DEF Shared, PrunedBy, Named

(* A run once troubled stays so: nothing takes the signal or the fault back. *)
LEMMA UntouchedBefore ==
    ASSUME TypeOK, NEW r \in Runs, NEW s \in Runs, Step(s), Untouched(r)'
    PROVE  Untouched(r)
<1> USE DEF Untouched, Undisturbed, Remote
<1>1. CASE Waits(s)
  BY <1>1, WaitsEffect DEF SameChild
<1>2. CASE StageEffect(s)
  BY <1>2 DEF StageEffect, Marked
<1>3. CASE Failure(s)
  BY <1>3 DEF Failure, FailEffect
<1> QED BY <1>1, <1>2, <1>3, StepCases

LEMMA UntroubledStep ==
    ASSUME TypeOK, TypeOK', NEW r \in Runs, NEW s \in Runs, Step(s),
           Untroubled(r), Reports(s)
    PROVE  Untroubled(r)'
<1> SUFFICES ASSUME Untouched(r)' PROVE Releases(r)'
  BY DEF Untroubled
<1>1. Untouched(r) /\ Releases(r)
  BY UntouchedBefore DEF Untroubled
<1>2. Shared(r) => Shared(r)'
  BY SharedStays
<1> HIDE DEF Shared
<1>3. CASE Waits(s)
  <2>1. /\ SameChild(child'[r], child[r]) /\ disk' = disk
        /\ child'[r].open \in {child[r].open, {}}
        /\ proc'[r] = "exited" => proc[r] = "exited" \/ child[r].at = "finished"
    BY <1>3, WaitsEffect DEF In
  <2> QED BY <1>1, <1>2, <2>1 DEF Releases, Recorded, SameChild
<1>4. CASE s = r /\ StageEffect(r)
  <2> USE DEF StageEffect, Following
  <2>1. proc'[r] # "exited"
    BY <1>4
  <2>2. child'[r].at \notin Protected \cup {"generate"} =>
          Recorded(r)' /\ "session" \notin child'[r].open
    BY <1>1, <1>4 DEF Connects, Releases, Recorded, Marked, Protected
  <2>7. child'[r].at \notin {"generate", "files"} => "session" \in child'[r].marks
    BY <1>1, <1>4 DEF Releases, Marked
  <2>8. child'[r].at = "write" => disk'.backup[r] = "partial" \/ Shared(r)'
    <3>1. disk.backup \in [Runs -> {"none", "partial", "whole"}]
      BY DEF TypeOK, DiskState
    <3> QED BY <1>1, <1>4, <3>1 DEF BacksUp, Releases, Protected
  <2>3. child'[r].at \in {"close_session", "close_pools", "close_files",
                          "close_redis", "finished"} =>
          disk'.backup[r] = "whole" \/ Shared(r)'
    <3>1. disk.backup \in [Runs -> {"none", "partial", "whole"}]
      BY DEF TypeOK, DiskState
    <3>2. CASE child[r].at = "write"
      BY <1>1, <1>2, <1>4, <3>1, <3>2 DEF BacksUp, Releases, Protected
    <3>3. CASE child[r].at # "write"
      BY <1>1, <1>2, <1>4, <3>3 DEF BacksUp, Releases
    <3> QED BY <3>2, <3>3
  <2>4. child'[r].at \in {"close_files", "close_redis", "finished"} =>
          child'[r].open \cap Pools = {}
    BY <1>1, <1>4 DEF Connects, Releases
  <2>5. child'[r].at \in {"close_redis", "finished"} => r \notin disk'.tempdir
    BY <1>1, <1>4 DEF Stores, Releases
  <2>6. child'[r].at = "finished" => child'[r].open = {}
    <3>1. child[r].open \subseteq Connections
      BY DEF TypeOK, ChildState
    <3> QED BY <1>1, <1>4, <3>1
            DEF Connects, Releases, Connections, Pools, Protected
  <2> QED BY <2>1, <2>2, <2>3, <2>4, <2>5, <2>6, <2>7, <2>8 DEF Releases
<1>5. CASE s # r /\ StageEffect(s)
  <2>1. child'[r] = child[r] /\ proc' = proc
    BY <1>5 DEF StageEffect
  <2>2. disk'.backup[r] = disk.backup[r] \/ Shared(r)'
    <3>1. disk.backup \in [Runs -> {"none", "partial", "whole"}]
      BY DEF TypeOK, DiskState
    <3>2. CASE child[s].at = "prune" /\ s \in Remote /\ r \in Named(s)
      <4>1. "end" \in child[s].called
        BY <3>2 DEF Reports, Protected
      <4>2. PrunedBy(r, s)
        BY <1>5, <3>2, <4>1 DEF PrunedBy
      <4> QED BY <1>2, <4>2 DEF Shared
    <3>3. CASE ~(child[s].at = "prune" /\ s \in Remote /\ r \in Named(s))
      BY <1>5, <3>1, <3>3 DEF StageEffect, BacksUp
    <3> QED BY <3>2, <3>3
  <2>3. r \in disk'.tempdir => r \in disk.tempdir
    BY <1>5 DEF StageEffect, Stores
  <2> QED BY <1>1, <1>2, <2>1, <2>2, <2>3 DEF Releases, Recorded
<1>6. CASE s = r /\ Failure(r)
  <2>1. child[r].at = "close_pools" /\ child'[r].at = child[r].at
        /\ child'[r].open = {} /\ child[r].marks \subseteq child'[r].marks
        /\ disk'.backup = disk.backup
    <3>1. child[r].at \in Protected => child'[r].marks \cap {"faulted", "left"} # {}
                                      \/ signal'[r] # "none"
      BY <1>6 DEF Failure, FailEffect, Doomed, In, Protected
    <3>2. Doomed(r) /\ child[r].at \notin Protected
      BY <1>6, <3>1 DEF Failure, FailEffect, Untouched, Undisturbed
    <3>3. child[r].at = "close_pools"
      BY <1>1, <3>2 DEF Doomed, In, Untouched, Releases
    <3> QED BY <1>6, <3>2, <3>3 DEF Failure, FailEffect
  <2> QED BY <1>1, <1>2, <2>1 DEF Releases, Recorded
<1>7. CASE s # r /\ Failure(s)
  <2>1. child'[r] = child[r] /\ proc'[r] = proc[r] /\ disk'.backup = disk.backup
        /\ (r \in disk'.tempdir => r \in disk.tempdir)
    BY <1>7 DEF Failure, FailEffect
  <2> QED BY <1>1, <1>2, <2>1 DEF Releases, Recorded
<1> QED BY <1>3, <1>4, <1>5, <1>6, <1>7, StepCases

(* A REMOTE run that nothing outside disturbs saves its record, closes every   *)
(* connection and removes its temporary directory, unless it opened a mysql    *)
(* pool; only a run whose task's id begins its own task's prunes the record.   *)
THEOREM UntroubledRunsRelease == Spec => []UntroubledRunReleases
<1> DEFINE I == \A r \in Runs : Untroubled(r)
<1>1. Init => I
  BY DEF Init, Untroubled, Releases, Protected
<1>2. TypeOK /\ TypeOK' /\ (\A r \in Runs : Reports(r)) /\ I /\ [Next]_vars => I'
  <2> SUFFICES ASSUME TypeOK, TypeOK', \A s \in Runs : Reports(s), I, [Next]_vars,
                      NEW r \in Runs
               PROVE  Untroubled(r)'
    OBVIOUS
  <2>1. CASE UNCHANGED vars
    BY <2>1 DEF vars, Untroubled, Untouched, Undisturbed, Releases, Shared,
                PrunedBy, Recorded, Remote
  <2>2. CASE \E s \in Runs : Step(s)
    BY <2>2, UntroubledStep
  <2> QED BY <2>1, <2>2, NextIsStep
<1>3. I => UntroubledRunReleases
  BY DEF Untroubled, Untouched, Releases, Shared, UntroubledRunReleases, In,
         Remote
<1> QED BY <1>1, <1>2, <1>3, AllReport, LifecycleTypes, PTL DEF Spec
=============================================================================
