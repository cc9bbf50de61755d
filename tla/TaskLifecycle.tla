--------------------------- MODULE TaskLifecycle ---------------------------
(***************************************************************************)
(* One run of a task from the request to its end: the background thread    *)
(* that starts, watches, joins and kills the child process (monitor.py),   *)
(* the child and its signal handler (task_process/runner.py), the stages   *)
(* MainExecutor.run goes through in it (core/executor/runner.py), and what *)
(* the runs share on disk.  Several runs, of one task or of several, are   *)
(* alive at once.                                                          *)
(*                                                                         *)
(* A stage is atomic towards a kill or a crash: what matters is whether    *)
(* its effect has happened.  A stage that fails may have done part of its  *)
(* work (Partly).                                                          *)
(***************************************************************************)
EXTENDS Naturals, SequencesExt

CONSTANTS
    Runs,      \* requests to /execute, each with a record of its own
    TaskOf,    \* [Runs -> task ids], the digits of each: backups go by them
    Methods,   \* [Runs -> the rpc_methods its request may name]
    Troubled   \* a bound: the runs that may meet a failure, a signal, a crash

ASSUME RunsAssumption == /\ Troubled \subseteq Runs
                         /\ TaskOf \in [Runs -> Seq(0..9)]
                         /\ Methods \in [Runs -> SUBSET {"django", "remote"}]

VARIABLES
    monitor,   \* where the thread of monitor_and_run_task is
    proc,      \* the child process
    signal,    \* SIGUSR1: not sent, sent and not handled yet, handled
    child,     \* the control state of the child, see ChildState
    disk       \* what the runs leave in the file system

vars == <<monitor, proc, signal, child, disk>>

\* The stages of MainExecutor.run and of its pre- and post-action, each with
\* the one that follows it.
Following ==
    [generate      |-> "files",
     files         |-> "start_call",
     start_call    |-> "execute",
     execute       |-> "end_call",
     end_call      |-> "clean",
     clean         |-> "prune",
     prune         |-> "export",
     export        |-> "write",
     write         |-> "close_session",
     close_session |-> "close_pools",
     close_pools   |-> "close_files",
     close_files   |-> "close_redis",
     close_redis   |-> "finished"]

Stage == DOMAIN Following \cup {"finished"}

\* The body of the try of MainExecutor.run.
Protected == {"files", "start_call", "execute"}

Pools == {"pgsql", "mysql"}
PoolsOpened == {{}, {"pgsql"}, Pools}   \* by the steps of one run
Connections == Pools \cup {"session", "redis"}

ChildState ==
    [at       : Stage,
     method   : {"django", "remote"}, \* MainExecutor.exec_type
     open     : SUBSET Connections,   \* opened and not closed yet
     called   : SUBSET {"start", "end"},  \* calls attempted
     listed   : SUBSET Runs,          \* the records the end call answers
     marks    : SUBSET {"session", "recorded", "faulted", "left"}]
    \* session: http_session is set; recorded: the run has keys in redis;
    \* faulted (history): a call failed; left (history): a script left

DiskState ==
    [copies  : SUBSET Runs,   \* the runs whose exec_path files exist
     tempdir : SUBSET Runs,   \* the runs whose AstTempFileController dir exists
     backup  : [Runs -> {"none", "partial", "whole"}],
     archive : {"absent", "present"}]   \* static/record_redis_backup

TypeOK ==
    /\ monitor \in [Runs -> {"queued", "watching", "joining", "done"}]
    /\ proc \in [Runs -> {"none", "booting", "running",
                          "exited", "killed"}]
    /\ signal \in [Runs -> {"none", "pending", "handled"}]
    /\ child \in [Runs -> ChildState]
    /\ disk \in DiskState

Alive(r) == proc[r] \in {"booting", "running"}
SameTask(r) == {s \in Runs : TaskOf[s] = TaskOf[r]}

\* The runs whose backup has a name that starts with that of r's task: those
\* of task 1, and those of task 10.
Named(r) == {s \in Runs : IsPrefix(TaskOf[r], TaskOf[s])}

Recorded(r) == "recorded" \in child[r].marks
Archived == disk.archive = "present"
Remote == {r \in Runs : child[r].method = "remote"}

Init ==
    /\ monitor = [r \in Runs |-> "queued"]
    /\ proc = [r \in Runs |-> "none"]
    /\ signal = [r \in Runs |-> "none"]
    /\ child \in [Runs -> [at : {"generate"}, method : {"django", "remote"},
                           open : {{}}, called : {{}}, listed : {{}},
                           marks : {{}}]]
    /\ \A r \in Runs : child[r].method \in Methods[r]
    /\ disk \in [copies : {{}}, tempdir : {{}},
                 backup : {[r \in Runs |-> "none"]},
                 archive : {"absent", "present"}]
-----------------------------------------------------------------------------
(* The monitor thread *)

Supervise(r, from, to) ==
    /\ monitor[r] = from
    /\ monitor' = [monitor EXCEPT ![r] = to]

\* The process is gone, and with it its connections; files stay.
Ends(r, status, c) ==
    /\ proc' = [proc EXCEPT ![r] = status]
    /\ child' = [child EXCEPT ![r] = [c EXCEPT !.open = {}]]

Killed(r) ==
    IF Alive(r) THEN Ends(r, "killed", child[r]) ELSE UNCHANGED <<proc, child>>

\* process.start().
Starts(r) ==
    /\ Supervise(r, "queued", "watching")
    /\ proc' = [proc EXCEPT ![r] = "booting"]
    /\ UNCHANGED <<signal, child, disk>>

StartFails(r) ==
    /\ Supervise(r, "queued", "done")
    /\ UNCHANGED <<proc, signal, child, disk>>

\* The child's memory is over the limit when the loop looks at it: SIGUSR1,
\* and the loop is left.  How much memory a task takes is up to the task.
SeesLimit(r) ==
    /\ Supervise(r, "watching", "joining")
    /\ Alive(r)
    /\ signal' = [signal EXCEPT ![r] = "pending"]
    /\ UNCHANGED <<proc, child, disk>>

\* is_alive() is false, or psutil finds no such process.
SeesEnd(r) ==
    /\ Supervise(r, "watching", "joining")
    /\ ~Alive(r)
    /\ UNCHANGED <<proc, signal, child, disk>>

Joins(r) ==
    /\ Supervise(r, "joining", "done")
    /\ ~Alive(r)
    /\ UNCHANGED <<proc, signal, child, disk>>

\* Seeded faults of JoinTimesOut: the child is not killed; join has no timeout.
JoinTimesOut_GivesUp(r) ==
    /\ Supervise(r, "joining", "done")
    /\ Alive(r)
    /\ UNCHANGED <<proc, signal, child, disk>>

JoinTimesOut_Never(r) == FALSE /\ Supervise(r, "joining", "done")

\* join(timeout) returned and the child is still alive.
JoinTimesOut(r) ==
    /\ Supervise(r, "joining", "done")
    /\ Alive(r) /\ Killed(r)
    /\ UNCHANGED <<signal, disk>>

\* Any other exception in the thread.
MonitorFails(r) ==
    /\ \/ Supervise(r, "watching", "done")
       \/ Supervise(r, "joining", "done")
    /\ Killed(r)
    /\ UNCHANGED <<signal, disk>>
-----------------------------------------------------------------------------
(* The child: stages that succeed *)

\* task_wrapper has registered its handlers.
Boots(r) ==
    /\ proc[r] = "booting"
    /\ proc' = [proc EXCEPT ![r] = "running"]
    /\ UNCHANGED <<monitor, signal, child, disk>>

\* The child c after its current stage.
Advanced(c) == [c EXCEPT !.at = Following[@]]

In(r, stage) == proc[r] = "running" /\ child[r].at = stage

Pass(r, stage, c) ==
    /\ In(r, stage)
    /\ child' = [child EXCEPT ![r] = Advanced(c)]
    /\ UNCHANGED <<monitor, proc, signal>>

\* The GlobalOption with its temporary directory, and the TaskRecord with a
\* client of the redis pool; there is no await between them.
Generate(r) ==
    /\ Pass(r, "generate", [child[r] EXCEPT !.open = {"redis"}])
    /\ disk' = [disk EXCEPT !.tempdir = @ \cup {r}]

\* The session is opened.  DJANGO copies the files into the directory of the
\* task, REMOTE downloads them into the temporary directory of the run.
CacheFiles(r) ==
    /\ Pass(r, "files", [child[r] EXCEPT !.open = @ \cup {"session"},
                                         !.marks = @ \cup {"session"}])
    /\ disk' = [disk EXCEPT !.copies = IF r \in Remote THEN @ ELSE @ \cup {r}]

\* start_task_rcp and end_task_rcp call the server only for REMOTE.
Called(r, call) ==
    [child[r] EXCEPT !.called = IF r \in Remote THEN @ \cup {call} ELSE @]

StartCall(r) ==
    /\ Pass(r, "start_call", Called(r, "start"))
    /\ UNCHANGED disk

\* The execution has returned; its steps have opened the pools they needed.
\* The session is closed by the end of the async with.
Execute(r) ==
    /\ \E pools \in PoolsOpened :
         Pass(r, "execute",
              [child[r] EXCEPT !.open = (@ \ {"session"}) \cup pools,
                               !.marks = @ \cup {"recorded"}])
    /\ UNCHANGED disk

\* The server answers with the records it still has of the task.
EndCall(r) ==
    /\ \E answer \in (IF r \in Remote THEN SUBSET SameTask(r) ELSE {{}}) :
         Pass(r, "end_call", [Called(r, "end") EXCEPT !.listed = answer])
    /\ UNCHANGED disk

\* Seeded fault of CleanTemp: the directory above that of the task.
CleanTemp_Parent(r) ==
    /\ Pass(r, "clean", child[r])
    /\ disk' \in {disk, [disk EXCEPT !.copies = {}]}

\* rmtree of the directory of the task; a missing directory is its own except.
CleanTemp(r) ==
    /\ Pass(r, "clean", child[r])
    /\ disk' \in {disk, [disk EXCEPT !.copies = @ \ SameTask(r)]}

\* Seeded fault of Prunable: the names are not compared.
Prunable_Unnamed(r) == Runs \ child[r].listed

\* The backups that the server does not list.  It is asked for those of the
\* task; the names are compared up to the task's id, with nothing after it, so
\* the backups of every task whose id goes on from there are not listed.
Prunable(r) == Named(r) \ child[r].listed

\* Without an archive there is nothing to prune; with one, the answer None of
\* a DJANGO end call cannot be parsed (Escapes).
Prune(r) ==
    /\ Archived => r \in Remote
    /\ Pass(r, "prune", [child[r] EXCEPT !.listed = {}])
    /\ disk' = IF Archived
               THEN [disk EXCEPT !.backup = [s \in Runs |->
                        IF s \in Prunable(r) THEN "none" ELSE disk.backup[s]]]
               ELSE disk

\* The keys have been read; the file is created only if there are any.
Export(r) ==
    /\ Pass(r, "export", child[r])
    /\ disk' = IF Recorded(r)
               THEN [disk EXCEPT !.archive = "present", !.backup[r] = "partial"]
               ELSE disk

\* Seeded fault of Write: the content is handed to the file and not flushed.
Write_Unflushed(r) == Pass(r, "write", child[r]) /\ UNCHANGED disk

\* A file that was unlinked since it was opened stays so.
Write(r) ==
    /\ Pass(r, "write", child[r])
    /\ disk' = IF disk.backup[r] = "partial"
               THEN [disk EXCEPT !.backup[r] = "whole"] ELSE disk

\* It is closed already, with the try; None has no close() (Escapes).
CloseSession(r) ==
    /\ "session" \in child[r].marks
    /\ Pass(r, "close_session", [child[r] EXCEPT !.open = @ \ {"session"}])
    /\ UNCHANGED disk

\* aiomysql's Pool.close() is no coroutine: awaiting it raises (Escapes).
ClosePools(r) ==
    /\ "mysql" \notin child[r].open
    /\ Pass(r, "close_pools", [child[r] EXCEPT !.open = @ \ Pools])
    /\ UNCHANGED disk

CloseFiles(r) ==
    /\ Pass(r, "close_files", child[r])
    /\ disk' = [disk EXCEPT !.tempdir = @ \ {r}]

CloseRedis(r) ==
    /\ Pass(r, "close_redis", [child[r] EXCEPT !.open = @ \ {"redis"}])
    /\ UNCHANGED disk

\* The callback of TaskController finds the async pool closed and a sync pool
\* never opened, target_func returns, and the process ends.
Returns(r) ==
    /\ In(r, "finished")
    /\ Ends(r, "exited", child[r])
    /\ UNCHANGED <<monitor, signal, disk>>
-----------------------------------------------------------------------------
(* The child: stages that fail *)

\* What a stage may have done when an exception leaves it.
Partly(r) ==
    LET c == child[r] IN
    CASE c.at = "files" -> {c, [c EXCEPT !.marks = @ \cup {"session"}]}
      [] c.at = "start_call" -> {Called(r, "start")}
      [] c.at = "end_call" -> {Called(r, "end")}
      [] c.at = "execute" ->
            {[c EXCEPT !.open = @ \cup pools, !.marks = @ \cup written] :
                pools \in PoolsOpened, written \in SUBSET {"recorded"}}
      [] OTHER -> {c}

PartlyOnDisk(r) ==
    CASE child[r].at = "generate" ->
            {disk, [disk EXCEPT !.tempdir = @ \cup {r}]}
      [] child[r].at = "files" /\ r \notin Remote ->
            {disk, [disk EXCEPT !.copies = @ \cup {r}]}
      [] OTHER -> {disk}

\* Seeded faults of Caught: the end call is inside the try; the execution is
\* tried again; the run goes to a stage that does not exist.
Caught_SkipsEnd(c) == [c EXCEPT !.at = "clean", !.open = @ \ {"session"}]
Caught_Retries(c) == [c EXCEPT !.at = "files", !.open = @ \ {"session"}]
Caught_Unnamed(c) == [c EXCEPT !.at = "failed", !.open = @ \ {"session"}]

\* Left by an Exception, the async with closes the session; the try of
\* MainExecutor.run swallows it, and the post-action follows.
Caught(c) == [c EXCEPT !.at = "end_call", !.open = @ \ {"session"}]

StageCaught(r, faults) ==
    /\ proc[r] = "running" /\ child[r].at \in Protected
    /\ \E c \in Partly(r) :
         child' = [child EXCEPT
                      ![r] = [Caught(c) EXCEPT !.marks = @ \cup faults]]
    /\ disk' \in PartlyOnDisk(r)
    /\ UNCHANGED <<monitor, proc>>

\* Nothing catches it: task_wrapper ends, and the process with it.
StageEscapes(r, faults) ==
    /\ proc[r] = "running"
    /\ \E c \in Partly(r) :
         Ends(r, "exited", [c EXCEPT !.marks = @ \cup faults])
    /\ disk' \in PartlyOnDisk(r)
    /\ UNCHANGED monitor

\* The network, redis, the disk or the content of the request is at fault, and
\* an Exception says so.
Fails(r) ==
    /\ \/ StageCaught(r, {"faulted"})
       \/ /\ child[r].at \notin Protected \cup {"finished"}
          /\ StageEscapes(r, {"faulted"})
    /\ UNCHANGED signal

\* A script raises what is no Exception, as exit() and sys.exit() do: no
\* handler of the execution stops it, and the event loop hands it on.
ScriptExits(r) ==
    In(r, "execute") /\ StageEscapes(r, {"left"}) /\ UNCHANGED signal

\* The stages that cannot succeed, whatever the outside does.
Doomed(r) ==
    \/ In(r, "prune") /\ r \notin Remote /\ Archived
    \/ In(r, "close_session") /\ "session" \notin child[r].marks
    \/ In(r, "close_pools") /\ "mysql" \in child[r].open

DoomedEscapes(r) == Doomed(r) /\ StageEscapes(r, {}) /\ UNCHANGED signal
-----------------------------------------------------------------------------
(* The child: the signal *)

\* The handler raises an exception in whatever the main thread executes.
Handles(r) ==
    /\ signal[r] = "pending"
    /\ signal' = [signal EXCEPT ![r] = "handled"]

\* Before task_wrapper has registered the handler SIGUSR1 ends a process.
SignalTerminates(r) ==
    /\ proc[r] = "booting"
    /\ Handles(r)
    /\ Killed(r)
    /\ UNCHANGED <<monitor, disk>>

\* In the coroutine of MainExecutor.run, within its try.
SignalCaught(r) == Handles(r) /\ StageCaught(r, {})

\* In that coroutine outside the try, or in the event loop itself, which
\* cancels every coroutine.
SignalEscapes(r) == Handles(r) /\ StageEscapes(r, {})

\* In a step, where _run_task makes an error of it, in a message, in a callback
\* of the loop, or in the try of _clean_temp_file: the run goes on.
SignalSwallowed(r) ==
    /\ proc[r] = "running"
    /\ child[r].at \notin {"generate", "finished"}
    /\ Handles(r)
    /\ UNCHANGED <<monitor, proc, child, disk>>

\* The kernel or an operator ends the process.
Crashes(r) ==
    /\ Alive(r) /\ Killed(r)
    /\ UNCHANGED <<monitor, signal, disk>>
-----------------------------------------------------------------------------
Pre(r) == Generate(r) \/ CacheFiles(r) \/ StartCall(r)

Post(r) ==
    \/ EndCall(r) \/ CleanTemp(r) \/ Prune(r) \/ Export(r) \/ Write(r)
    \/ CloseSession(r) \/ ClosePools(r) \/ CloseFiles(r) \/ CloseRedis(r)

\* The program's own steps in the child.
Child(r) ==
    \/ Boots(r) \/ Pre(r) \/ Execute(r) \/ Post(r) \/ Returns(r)
    \/ DoomedEscapes(r)

Handler(r) ==
    \/ SignalTerminates(r) \/ SignalCaught(r)
    \/ SignalEscapes(r) \/ SignalSwallowed(r)

\* The monitor's own steps.
Monitor(r) == Starts(r) \/ SeesEnd(r) \/ Joins(r) \/ JoinTimesOut(r)

\* What need not happen.
Trouble(r) ==
    \/ StartFails(r) \/ SeesLimit(r) \/ MonitorFails(r)
    \/ Fails(r) \/ ScriptExits(r) \/ Handler(r) \/ Crashes(r)

Over == \A r \in Runs : monitor[r] = "done"
Quiescent == Over /\ UNCHANGED vars

Next ==
    \/ \E r \in Runs :
         \/ Monitor(r) \/ Child(r)
         \/ r \in Troubled /\ Trouble(r)
    \/ Quiescent

\* A thread of the server's pool is scheduled, and join has a timeout.
MonitorFairness == \A r \in Runs : WF_vars(Monitor(r))

\* Every stage returns or raises: its calls have timeouts.
ChildFairness ==
    \A r \in Runs : WF_vars(Child(r) \/ (r \in Troubled /\ Fails(r)))

Spec == Init /\ [][Next]_vars /\ MonitorFairness
-----------------------------------------------------------------------------
(* Properties *)

\* A task the server was told has started is reported ended by every child that
\* ends by itself, whatever Exception its stages and its execution raised: the
\* try of MainExecutor.run is there for that.  Its except is for Exception
\* alone: not for a script that leaves, nor where a signal's exception ends the
\* event loop.
StartedIsEnded ==
    \A r \in Runs :
       proc[r] = "exited" /\ "start" \in child[r].called
         /\ signal[r] = "none" /\ "left" \notin child[r].marks
           => "end" \in child[r].called

\* Nothing outside r failed, no signal came, no script left.
Undisturbed(r) == signal[r] = "none" /\ {"faulted", "left"} \cap child[r].marks = {}

\* Another run has asked for its task's records, and takes r's backup, by its
\* name, for one of them.
PrunedBy(r, s) == s # r /\ r \in Named(s) /\ "end" \in child[s].called

\* An undisturbed REMOTE run saves its record, which only a run of its task or
\* of one whose id its own id begins with can prune, and ends with every
\* connection closed and its temporary directory gone: no stage of the
\* post-action stops the next, but for the closing of a mysql pool.
UntroubledRunReleases ==
    \A r \in Remote :
       Undisturbed(r) =>
         /\ proc[r] = "exited" =>
              /\ child[r].at \in {"close_pools", "finished"}
              /\ disk.backup[r] = "whole" \/ \E s \in Runs : PrunedBy(r, s)
         /\ In(r, "finished") => child[r].open = {} /\ r \notin disk.tempdir

\* A backup cut short is the work of a child that died, or was stopped, while
\* writing it: one that ends normally never leaves one, nor does another run.
TornBackupByDeath ==
    \A r \in Runs :
       disk.backup[r] = "partial" => child[r].at = "write"

\* When the monitor reports the task done, no child of it is left running.
NothingLeftRunning ==
    \A r \in Runs : monitor[r] = "done" => ~Alive(r)

\* The time the monitor gives a child before it kills it runs only for a child
\* that was asked to stop: a long task within its limit is waited for.
KillIsLastResort ==
    \A r \in Runs : monitor[r] = "joining" /\ Alive(r) => signal[r] # "none"

\* The comment of PreActionExecutor.run: the elements of origin_file_mapping
\* have the address of a cached file, from there to the end of the execution.
ExecPathsExist ==
    \A r \in Runs \ Remote :
       proc[r] = "running" /\ child[r].at \in {"start_call", "execute"}
           => r \in disk.copies

\* That is so if every run is of a task of its own.
OwnFilesKept ==
    (\A r, s \in Runs : TaskOf[r] = TaskOf[s] => r = s) => ExecPathsExist

\* A child over the limit does not survive it, even one that never comes back
\* from a step or swallows the signal.
LimitEnforced ==
    \A r \in Runs : (signal[r] = "pending") ~> ~Alive(r)

\* Every accepted task comes to an end if its stages do.
EveryTaskEnds ==
    ChildFairness =>
        \A r \in Runs : (monitor[r] = "queued") ~> (monitor[r] = "done")
=============================================================================
