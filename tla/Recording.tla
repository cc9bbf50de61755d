------------------------------ MODULE Recording ------------------------------
(***************************************************************************)
(* How a task writes its record to redis, and how the record is exported   *)
(* to a backup at the end (core/record, core/executor/core.py, the writes  *)
(* of core/payload).  A write is either awaited by the coroutine that      *)
(* makes it or left to a task that nobody awaits, whose command reaches    *)
(* redis at any later time, or never when the event loop is closed first.  *)
(*                                                                         *)
(* A visit is one execution of a step; the iterations of a loop are visits *)
(* of the same step and write to the same keys.  The task, the main case   *)
(* and the child case, one of each, are one coroutine here: their writes   *)
(* come before and after those of the visits.                              *)
(***************************************************************************)
EXTENDS RedisStore, FiniteSets

CONSTANTS
  Visits,    \* executions of steps
  StepOf,    \* [Visits -> step]: the step in whose keys a visit writes (spi.step)
  ParentOf,  \* [Visits -> step or NoStep]: spi.parent_step
  KindOf,    \* [Visits -> metadata.type]
  After,     \* [Visits -> SUBSET Visits]: those that have ended when it begins
  Within,    \* [Visits -> SUBSET Visits]: those that run in its body
  InCase,    \* visits inside a referenced case
  Outcomes,  \* [Visits -> SUBSET {"success", "error", "skipped"}]: how its core may end
  Unmakeable, \* visits whose children it may be impossible to make
  Prints,    \* how often a script prints its one text
  Shown,     \* the recipients whose messages the model keeps
  MaxFlying, \* bound on the messages under way when a visit goes on
  RunTicks,  \* bound on the ticks of the clock before the task is over
  MaxTicks,  \* bound on the ticks of the clock
  Steady,    \* bound: redis does not restart once one of these visits has begun
  NoStep

VARIABLES
  db,       \* the store
  loaded,   \* redis has the lua scripts in its cache
  main,     \* the coroutine of the task: [at, pc]
  visit,    \* the coroutine of each visit: how many of its writes are done
  raised,   \* visits that an exception of a write has ended
  outcome,  \* how each visit ends
  unmade,   \* visits whose children cannot be made
  flying,   \* messages whose task has not reached redis yet
  left,     \* keys the export has still to read
  gathered, \* what it has read
  backup,   \* the backup file
  sent,     \* history: how many messages were meant for each list
  late,     \* history: a list got a message after the export had read it
  ticks     \* ticks of the clock so far

writing == <<db, loaded, main, visit, raised, outcome, unmade, flying, sent>>
saving == <<left, gathered, backup, late>>
recording == <<writing, saving, ticks>>

Steps == {StepOf[v] : v \in Visits} \cup ({ParentOf[v] : v \in Visits} \ {NoStep})

(* The keys of a record: task_info, record_info, child_case_list, the list   *)
(* and the statuses of the child case, the summary, and for each step its     *)
(* status and its list; one detail for each visit of an interface.            *)
TaskInfo == <<"task_info">>
RecordInfo == <<"record_info">>
ChildCases == <<"child_case_list">>
CaseStatus == <<"child_case", "status">>
CaseProcess == <<"child_case", "process">>
Summary == <<"summary", "process">>
Status(s) == <<"step", s, "status">>
Process(s) == <<"step", s, "process">>
Detail(v) == <<"detail", v>>

Entry(type, desc) == [type |-> type, desc |-> desc, times |-> 0]

(* What an entry is about: a visit, or one of the texts of the task.         *)
Texts ==
  {"waiting", "text", "task starts", "case starts", "case ends", "task ends", "case fails",
   "task fails"}

(* The steps that have steps within (make_child_executor).                   *)
Parental == {"group", "if", "case", "child_step_case", "multitasker", "child_multitasker"}

(* An interface is not its own parent (make_child_executor).  A step whose   *)
(* core fails runs no steps, so what has visits within succeeds or is skipped. *)
ASSUME VisitAssumption ==
  /\ IsFiniteSet(Visits) /\ Visits \cap Texts = {} /\ Prints \in Nat
  /\ \A v \in Visits : KindOf[v] = "interface" => ParentOf[v] # StepOf[v]
  /\ \A v \in Visits : Within[v] # {} => KindOf[v] \in Parental /\ "error" \notin Outcomes[v]
  /\ Unmakeable \subseteq {v \in Visits : KindOf[v] \in Parental}

Waiting == Entry("system", "waiting")

Recipients == {"step", "parent", "child_case", "summary"}

ASSUME ShownAssumption == Shown \subseteq Recipients

Lists == {Process(s) : s \in Steps} \cup {CaseProcess, Summary}

(* RunnerExecutor.add_step, add_parent_step, add_child_case, add_summary; a  *)
(* step without a parent step sends nothing to one.                           *)
Address(v, to) ==
  CASE to = "step"       -> {Process(StepOf[v])}
    [] to = "parent"     -> {Process(s) : s \in {ParentOf[v]} \ {NoStep}}
    [] to = "child_case" -> {CaseProcess}
    [] to = "summary"    -> {Summary}

KeptLists ==
  UNION {Address(v, to) : v \in Visits, to \in Shown}

(* send_step, send_parent_step, send_child_case, send_summary: one task each. *)
Messages(v, to, e) ==
  {[cmd |-> "push", key |-> k, entry |-> e, n |-> <<v, 0>>] :
     k \in UNION {Address(v, t) : t \in to \cap Shown}}

(* RunnerExecutor._print: a task for each call.                               *)
PrintMessages(v) ==
  {[cmd |-> "print", key |-> k, entry |-> Entry("action_script_print", "text"),
    n |-> <<v, i>>] :
     k \in UNION {Address(v, t) : t \in {"step"} \cap Shown}, i \in 1..Prints}

-----------------------------------------------------------------------------
(* Awaited writes.                                                           *)

Update(k, fields) == [cmd |-> "update", key |-> k, arg |-> fields]
Increment(k, fields) == [cmd |-> "increment", key |-> k, arg |-> fields]
InList(fields) == [cmd |-> "list", key |-> ChildCases, arg |-> fields]
Pushes(k, e) == [cmd |-> "push", key |-> k, arg |-> e]
Sets(k, v) == [cmd |-> "set", key |-> k, arg |-> v]
SetsAll(new) == [cmd |-> "set_all", key |-> TaskInfo, arg |-> new]
PushesAll(new) == [cmd |-> "push_all", key |-> TaskInfo, arg |-> new]

Scripted == {"update", "increment", "list", "print"}

(* EVALSHA of a script redis does not have; and the one error of a script.   *)
Raises(w) ==
  \/ w.cmd \in Scripted /\ ~loaded
  \/ w.cmd = "list" /\ ~Listed(db, w.key, 0)

Written(w) ==
  CASE w.cmd = "update"    -> UpdateFields(db, w.key, w.arg)
    [] w.cmd = "increment" -> IncrementFields(db, w.key, w.arg)
    [] w.cmd = "list"      -> UpdateInList(db, w.key, 0, w.arg)
    [] w.cmd = "push"      -> IF w.key \in KeptLists THEN Push(db, w.key, w.arg) ELSE db
    [] w.cmd = "set"       -> SetValue(db, w.key, w.arg)
    [] w.cmd = "set_all"   -> BatchSet(db, w.arg)
    [] w.cmd = "push_all"  -> BatchPush(db, w.arg)

(* The lists that awaited write w appends a message to.                       *)
Grows(w) ==
  CASE w.cmd = "push"     -> {w.key} \cap KeptLists
    [] w.cmd = "push_all" -> DOMAIN w.arg \cap KeptLists
    [] OTHER              -> {}

Counting(grown, msgs) ==
  [k \in DOMAIN sent |->
     sent[k] + (IF k \in grown THEN 1 ELSE 0)
             + Cardinality({m \in msgs : m.key = k})]

(* A coroutine's stretch between two awaits: the write it awaits, then the   *)
(* messages it sends before it awaits the next one.                           *)
Stretch(w, msgs) == [write |-> w, then |-> msgs]

Sending(stretches, msgs) ==
  [stretches EXCEPT ![Len(stretches)] = Stretch(@.write, @.then \cup msgs)]

-----------------------------------------------------------------------------
(* The writes of visit v when it ends with outcome o.  An exception of a     *)
(* child makes an error of it, also when the step itself was skipped.        *)
Outcome == {"success", "error", "skipped", "skipped_error"}

Skipped(o) == o \in {"skipped", "skipped_error"}
Failed(o) == IF Skipped(o) THEN "skipped_error" ELSE "error"
StatusOf(o) == IF o = "skipped_error" THEN "error" ELSE o

(* RealNode, not Empty, and not in a case: the steps whose status is shown.  *)
Tracked(v) ==
  v \notin InCase /\ KindOf[v] \notin {"empty", "child_multitasker", "child_step_case"}

(* StepExecRunner.exec_in_case and exec_not_in_case: who is told that the     *)
(* step runs or is skipped.                                                   *)
ToldOfStart(v, o) ==
  CASE v \in InCase                    -> {"step"}
    [] KindOf[v] = "empty"             -> {}
    [] KindOf[v] = "child_multitasker" -> Recipients \ {"step"}
    [] KindOf[v] \in {"interface", "assertion"} /\ ~Skipped(o) -> {"step"}
    [] OTHER                           -> Recipients

(* RunStepExecutor.send_all_record.                                          *)
ToldOfError(v) ==
  CASE KindOf[v] = "empty"             -> {}
    [] KindOf[v] = "child_multitasker" -> Recipients \ {"step"}
    [] OTHER                           -> Recipients

CaseStatusOf(v, status) == Update(CaseStatus, [s \in {StepOf[v]} |-> status])

(* before_callback, then get_base_process and the four sends of core_runner. *)
Beginning(v, o) ==
  LET start == <<Stretch(Update(Status(StepOf[v]), [start |-> v]), {})>>
      running == IF Skipped(o) \/ ~Tracked(v) THEN <<>>
                 ELSE <<Stretch(CaseStatusOf(v, "running"), {})>>
      e == Entry(IF Skipped(o) THEN "step_skipped" ELSE "step_running", v)
  IN Sending(start \o running, Messages(v, ToldOfStart(v, o), e))

Pointer(v) == Entry("interface", v)

(* Seeded fault of Core: the details are told of without waiting.            *)
Core_Unawaited(v, o) ==
  CASE KindOf[v] = "interface" /\ o = "success" ->
         <<Stretch(Sets(Detail(v), [of |-> v]), Messages(v, Recipients, Pointer(v)))>>
    [] KindOf[v] = "script" /\ ~Skipped(o) ->
         <<Stretch(Pushes(Process(StepOf[v]), Entry("action_script", v)), PrintMessages(v))>>
    [] OTHER -> <<>>

(* The core.  An interface stores its details, then tells its own list of     *)
(* them, and its CoreExecReturn the others; when it fails, the error of the   *)
(* step tells of them.  A script announces itself and prints.                 *)
Core(v, o) ==
  CASE KindOf[v] = "interface" /\ o = "success" ->
         <<Stretch(Sets(Detail(v), [of |-> v]), {}),
           Stretch(Pushes(Process(StepOf[v]), Pointer(v)),
                   Messages(v, Recipients \ {"step"}, Pointer(v)))>>
    [] KindOf[v] = "interface" /\ o = "error" ->
         <<Stretch(Sets(Detail(v), [of |-> v]), {})>>
    [] KindOf[v] = "script" /\ ~Skipped(o) ->
         <<Stretch(Pushes(Process(StepOf[v]), Entry("action_script", v)), PrintMessages(v))>>
    [] OTHER -> <<>>

StepCount(o) ==
  CASE StatusOf(o) = "success" -> [done_step_count |-> 1]
    [] StatusOf(o) = "error"   -> [failed_step_count |-> 1]
    [] StatusOf(o) = "skipped" -> [skipped_step_count |-> 1]

ErrorEntry(v) ==
  IF KindOf[v] = "interface" THEN Pointer(v) ELSE Entry("system_exception", v)

(* after_callback, skipped_callback or error_callback: the counter, then     *)
(* end_step, then for an error send_all_record.                               *)
Ending(v, o) ==
  LET count == <<Stretch(InList(StepCount(o)), {})>>
      shown == IF ~Tracked(v) THEN <<>>
               ELSE <<Stretch(CaseStatusOf(v, StatusOf(o)), {}),
                      Stretch(Update(Status(StepOf[v]), [end |-> v, status |-> StatusOf(o)]), {})>>
  IN Sending(count \o shown,
             IF StatusOf(o) = "error" THEN Messages(v, ToldOfError(v), ErrorEntry(v)) ELSE {})

ProgramOf ==
  [v \in Visits |-> [o \in Outcome |-> Beginning(v, o) \o Core(v, o) \o Ending(v, o)]]

BodyOf == [v \in Visits |-> [o \in Outcome |-> Len(Beginning(v, o) \o Core(v, o))]]

Program(v) == ProgramOf[v][outcome[v]]

Ended(v) == visit[v] = Len(Program(v))

(* Between its core and its closing callback a visit waits for its children, *)
(* or for the exception of one.                                               *)
InBody(v) == visit[v] = BodyOf[v][outcome[v]]
Abandons(v) == StatusOf(outcome[v]) = "error" /\ Within[v] \cap raised # {}
Waits(v) == InBody(v) /\ ~Abandons(v) /\ \E u \in Within[v] : ~Ended(u)

-----------------------------------------------------------------------------
(* The writes of the task around its visits.                                 *)

InfoOf(status) == [status |-> status]

(* TaskRecord.cache_info and initial_step_key: every key the task will write *)
(* to, each list with a first message.                                        *)
Caching ==
  << Sets(TaskInfo, InfoOf("pending")),
     Sets(RecordInfo, [status |-> "pending", done_child_case_count |-> 0]),
     SetsAll([k \in {Status(s) : s \in Steps} |-> InfoOf("mid_pending")]),
     PushesAll([k \in ({Process(s) : s \in Steps} \cup {Summary}) \cap KeptLists |-> Waiting]),
     PushesAll([k \in {ChildCases} |->
       [status |-> "pending", done_step_count |-> 0, failed_step_count |-> 0,
        skipped_step_count |-> 0]]),
     SetsAll([k \in {CaseStatus} |-> [s \in Steps |-> "mid_pending"]]),
     PushesAll([k \in {CaseProcess} \cap KeptLists |-> Waiting]) >>

Tells(what) == Pushes(Summary, Entry("system", what))

(* before_callback of the task, the case and the child case.                 *)
Opening ==
  << Tells("task starts"), Tells("case starts"), InList(InfoOf("running")) >>

(* after_callback of the child case, the case and the task.                  *)
Closing ==
  << Increment(RecordInfo, [done_child_case_count |-> 1]), InList(InfoOf("end")),
     Tells("case ends"), Tells("task ends"),
     Update(TaskInfo, InfoOf("end")), Update(RecordInfo, InfoOf("end")) >>

(* An exception of a step: the child case's error_callback writes it down,    *)
(* and its case ends as ever.                                                 *)
ClosingTheCase ==
  << InList(InfoOf("error")), Tells("case ends"), Tells("task ends"),
     Update(TaskInfo, InfoOf("end")), Update(RecordInfo, InfoOf("end")) >>

(* A write of the child case has raised, and so does the one of its           *)
(* error_callback; the case's does not, and the task ends.                    *)
ClosingAfterError ==
  << Tells("case fails"), Tells("task ends"),
     Update(TaskInfo, InfoOf("end")), Update(RecordInfo, InfoOf("end")) >>

(* A write of the task itself has raised: its error_callback tells, and raises. *)
Failing == << Tells("task fails") >>

WritesAt(at) ==
  CASE at = "open"  -> Caching \o Opening
    [] at = "close" -> Closing
    [] at = "case_error" -> ClosingTheCase
    [] at = "error" -> ClosingAfterError
    [] at = "fail"  -> Failing
    [] OTHER        -> <<>>

(* Where the task goes when the writes of a stage are done, and when one of   *)
(* them raises: MainExecutor.run goes on to the export in every case.         *)
NextStage(at) == CASE at = "open" -> "steps" [] OTHER -> "export"

StageAfterError(w) ==
  IF w.key \in {TaskInfo, RecordInfo} /\ w.cmd = "update" THEN "fail" ELSE "error"

-----------------------------------------------------------------------------
RecordingInit ==
  /\ db = [k \in {} |-> [val |-> <<>>, ttl |-> Week]]
  /\ loaded = TRUE
  /\ main = [at |-> "open", pc |-> 0]
  /\ visit = [v \in Visits |-> 0]
  /\ raised = {}
  /\ unmade \in SUBSET Unmakeable
  /\ \E own \in {o \in [Visits -> Outcome] : \A v \in Visits : o[v] \in Outcomes[v]} :
       outcome = [v \in Visits |->
                    IF Within[v] \cap unmade = {} THEN own[v] ELSE Failed(own[v])]
  /\ flying = {}
  /\ left = {}
  /\ gathered = [k \in {} |-> [val |-> <<>>, ttl |-> Week]]
  /\ backup = [at |-> "none"]
  /\ sent = [k \in KeptLists |-> 0]
  /\ late = FALSE
  /\ ticks = 0

(* A write of the task reaches redis and its await returns.                   *)
MainWrites ==
  /\ main.pc < Len(WritesAt(main.at))
  /\ LET w == WritesAt(main.at)[main.pc + 1] IN
       /\ ~Raises(w)
       /\ db' = Written(w)
       /\ sent' = Counting(Grows(w), {})
       /\ main' = IF main.pc + 1 = Len(WritesAt(main.at))
                    THEN [at |-> NextStage(main.at), pc |-> 0]
                    ELSE [main EXCEPT !.pc = @ + 1]
  /\ UNCHANGED <<loaded, visit, raised, outcome, unmade, flying, saving, ticks>>

MainRaises ==
  /\ main.pc < Len(WritesAt(main.at))
  /\ LET w == WritesAt(main.at)[main.pc + 1] IN
       /\ Raises(w)
       /\ main' = [at |-> StageAfterError(w), pc |-> 0]
  /\ UNCHANGED <<db, loaded, visit, raised, outcome, unmade, flying, sent, saving, ticks>>

(* The child case's body returns once its steps have ended, or raises with    *)
(* the first that raises while the others run on.                             *)
StepsEnd ==
  /\ main.at = "steps"
  /\ \/ /\ \A v \in Visits : Ended(v)
        /\ main' = [at |-> "close", pc |-> 0]
     \/ /\ \E v \in raised : \A u \in Visits : v \notin Within[u]
        /\ main' = [at |-> "case_error", pc |-> 0]
  /\ UNCHANGED <<db, loaded, visit, raised, outcome, unmade, flying, sent, saving, ticks>>

(* A visit may run until the event loop is closed, also when its parent has   *)
(* been ended by an exception: the children of a concurrent loop are all      *)
(* created as tasks at once.                                                  *)
Begun(v) == visit[v] > 0

MayBegin(v) ==
  /\ \A u \in After[v] : Ended(u)
  /\ \A u \in Visits : v \in Within[u] => visit[u] >= BodyOf[u][outcome[u]]
  /\ (\A u \in Visits : v \notin Within[u]) => main.at = "steps"

Runs(v) ==
  /\ main.at # "closed" /\ v \notin raised /\ ~Ended(v)
  /\ Begun(v) \/ MayBegin(v)

(* History: the export has read one of these lists.                          *)
Passed(lists) == main.at \in {"scan", "write", "close_pool"} /\ ~(lists \subseteq left)

VisitWrites(v) ==
  /\ Runs(v) /\ v \notin unmade /\ ~Waits(v)
  /\ Cardinality(flying) < MaxFlying
  /\ LET s == Program(v)[visit[v] + 1] IN
       /\ ~Raises(s.write)
       /\ db' = Written(s.write)
       /\ flying' = flying \cup s.then
       /\ sent' = Counting(Grows(s.write), s.then)
       /\ visit' = [visit EXCEPT ![v] = @ + 1]
       /\ late' = (late \/ Passed(Grows(s.write)))
  /\ UNCHANGED <<loaded, main, raised, outcome, unmade, left, gathered, backup, ticks>>

(* before_callback writes the start, then fails to make the children: the     *)
(* error_callback it is given to has no node to look the parent up from, and  *)
(* raises before it writes.                                                   *)
ChildrenUnmade(v) ==
  /\ Runs(v) /\ v \in unmade
  /\ LET w == Program(v)[1].write IN ~Raises(w) /\ db' = Written(w)
  /\ raised' = raised \cup {v}
  /\ UNCHANGED <<loaded, main, visit, outcome, unmade, flying, sent, saving, ticks>>

(* The exception of a write, of its own or of a child's: error_callback,      *)
(* whose first write raises as well, lets it through.                         *)
VisitRaises(v) ==
  /\ Runs(v)
  /\ \/ InBody(v) /\ ~Abandons(v) /\ Within[v] \cap raised # {}
     \/ ~Waits(v) /\ Raises(Program(v)[visit[v] + 1].write)
  /\ raised' = raised \cup {v}
  /\ UNCHANGED <<db, loaded, main, visit, outcome, unmade, flying, sent, saving, ticks>>

(* An unawaited message reaches redis; an exception of it is nobody's.        *)
Arrives(m) ==
  /\ main.at # "closed"
  /\ flying' = flying \ {m}
  /\ db' = CASE m.cmd = "push"           -> Push(db, m.key, m.entry)
             [] m.cmd = "print" /\ loaded -> PrintValue(db, m.key, m.entry)
             [] OTHER                     -> db
  /\ late' = (late \/ Passed({m.key}))
  /\ UNCHANGED <<loaded, main, visit, raised, outcome, unmade, sent, left, gathered, backup, ticks>>

-----------------------------------------------------------------------------
(* AsyncRedisClient.export_by_prefix: the keys are found by a scan and read   *)
(* one after another, then the file is opened, which empties it, and written. *)
(* The scan is for keys that begin with the record's id: another record whose *)
(* id begins with it would have its keys in the backup too (not modelled).    *)
ExportBegins ==
  /\ main.at = "export"
  /\ main' = [at |-> "scan", pc |-> 0]
  /\ left' = DOMAIN db
  /\ UNCHANGED <<db, loaded, visit, raised, outcome, unmade, flying, sent, gathered, backup, late, ticks>>

(* Keys that something still on its way writes to.  The others may be dealt   *)
(* with together, as nothing tells the order of reading or writing them.      *)
Moving ==
  {m.key : m \in flying}
  \cup UNION {{Program(v)[i].write.key : i \in 1..Len(Program(v))} :
               v \in {u \in Visits : Runs(u)}}

Handled(keys) ==
  {{k} : k \in keys \cap Moving}
  \cup (IF keys \subseteq Moving THEN {} ELSE {keys \ Moving})

(* A key that is gone by now has no value, and is left out.                   *)
ExportReads ==
  /\ main.at = "scan"
  /\ \E K \in Handled(left) :
       /\ left' = left \ K
       /\ gathered' = [k \in DOMAIN gathered \cup (K \cap DOMAIN db) |->
                        IF k \in K THEN db[k] ELSE gathered[k]]
  /\ UNCHANGED <<writing, backup, late, ticks>>

ExportOpens ==
  /\ main.at = "scan" /\ left = {}
  /\ IF DOMAIN gathered = {}
       THEN /\ main' = [at |-> "close_pool", pc |-> 0]
            /\ UNCHANGED backup
       ELSE /\ main' = [at |-> "write", pc |-> 0]
            /\ backup' = [at |-> "torn"]
  /\ UNCHANGED <<db, loaded, visit, raised, outcome, unmade, flying, sent, left, gathered, late, ticks>>

ExportWrites ==
  /\ main.at = "write"
  /\ main' = [at |-> "close_pool", pc |-> 0]
  /\ backup' = [at |-> "whole", keys |-> gathered, ticks |-> ticks]
  /\ UNCHANGED <<db, loaded, visit, raised, outcome, unmade, flying, sent, left, gathered, late, ticks>>

(* close_async_pool, and the end of the event loop: what still flies is lost. *)
Closes ==
  /\ main.at = "close_pool"
  /\ main' = [at |-> "closed", pc |-> 0]
  /\ flying' = {}
  /\ UNCHANGED <<db, loaded, visit, raised, outcome, unmade, sent, saving, ticks>>

-----------------------------------------------------------------------------
(* The surroundings.                                                         *)

(* The clock: on its scale only steps take time, and the time after the task; *)
(* a message is not under way that long.  While the task runs, time passes or *)
(* redis restarts, not both (a bound).                                        *)
Tick ==
  /\ \/ main.at = "steps" /\ flying = {} /\ loaded /\ ticks < RunTicks
     \/ main.at = "closed" /\ ticks < MaxTicks
  /\ ticks' = ticks + 1
  /\ db' = Elapsed(db)
  /\ UNCHANGED <<loaded, main, visit, raised, outcome, unmade, flying, sent, saving>>

(* Redis restarts: its data are persistent, its script cache is not.  The     *)
(* scripts are loaded when the server starts (LuaScriptManager.initialize).   *)
RedisRestarts ==
  /\ loaded /\ ticks = 0 /\ main.at \in {"open", "steps", "close"}
  /\ \A v \in Steady : ~Begun(v)
  /\ loaded' = FALSE
  /\ UNCHANGED <<db, main, visit, raised, outcome, unmade, flying, sent, saving, ticks>>

Writer ==
  \/ MainWrites \/ MainRaises \/ StepsEnd
  \/ \E v \in Visits : VisitWrites(v) \/ ChildrenUnmade(v) \/ VisitRaises(v)
  \/ \E m \in flying : Arrives(m)
  \/ ExportBegins \/ ExportReads \/ ExportOpens \/ ExportWrites \/ Closes
=============================================================================
