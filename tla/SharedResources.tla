--------------------------- MODULE SharedResources ---------------------------
(***************************************************************************)
(* What the steps of one task share besides variables: the pools of        *)
(* database connections (database_client.py), the interpreter's recursion  *)
(* limit (customer_script/execute.py) and the temporary files              *)
(* (generate_object.py, ast_file, excel_controller), from the steps that   *)
(* use them to PostActionExecutor, which closes them while orphaned steps  *)
(* may still be running.                                                   *)
(***************************************************************************)
EXTENDS Integers, Sequences, FiniteSets, Functions

CONSTANTS
  Queries,   \* database steps
  Scripts,   \* steps that run a script
  Groups,    \* sets of steps: those that run side by side in a behaviour
  Orphans,   \* the steps the closings do not wait for
  ConfigOf,  \* [Queries -> [env -> [own, default, key]]]: environments of its database
  EnvOf,     \* [Queries -> the environment it is in]
  KindOf,    \* [Queries -> database type]
  Programs,  \* [Scripts -> set of Seq(operation)]
  Files,     \* Seq of the system files: origin_file_mapping in its order
  Named,     \* [names -> the files whose full name contains the name]
  Default,   \* the recursion limit of the interpreter
  NoKey, NoPath

(* The calls a script makes of an AstFile and of an AsyncExcel.              *)
Operations ==
  [do : {"load"}, name : DOMAIN Named, cover : BOOLEAN, bytes : BOOLEAN]
    \cup [do : {"save"}] \cup [do : {"excel save"}, cover : BOOLEAN]

ASSUME OperationsAssumption ==
  /\ \A s \in Scripts : Programs[s] \subseteq Seq(Operations)
  /\ Files \in Seq(Range(Files))

(* A step is not None, and no path is the lack of one.                       *)
ASSUME NamesAssumption ==
  /\ "None" \notin Queries
  /\ NoPath \notin {"system"} \X Range(Files) /\ NoPath \notin {"temp"} \X Scripts \X Nat

DEFAULT_RECURSION_LIMIT == 100
Steps == Queries \cup Scripts

VARIABLES
  group,    \* the steps of this behaviour
  program,  \* what each script has yet to do
  pc,       \* where each step stands
  pools,    \* [configuration keys -> the step that made the pool, or "None"]
  order,    \* pool_client_cache_mapping: its keys in the order of insertion
  open,     \* the steps whose pools are open
  uses,     \* [Queries -> the step that made the pool it executes on]
  limit,    \* sys.getrecursionlimit()
  saved,    \* original_limit of the scripts that are running, in the order of entry
  crossed,  \* history: scripts have left in another order than the reverse
  rivals,   \* history: steps that made a pool while another made it too
  object,   \* the AstFile of each script
  given,    \* the scripts that were given a key for their AstFile
  disk,     \* [paths -> "partial" or "complete"]
  torn,     \* scripts whose read overlaps a write to the file
  closer    \* the closings of PostActionExecutor

database == <<pools, order, open, uses, rivals>>
files == <<object, given, disk, torn>>
recursion == <<limit, saved, crossed>>
vars == <<group, program, pc, database, recursion, files, closer>>

Goes(s, place) == pc' = [pc EXCEPT ![s] = place]
Over == {"done", "failed"}
Base == closer.at \notin {"closed"}   \* _base_temp_path is set

-----------------------------------------------------------------------------
(* Database steps                                                            *)

(* DatabaseRunController: the configuration of the environment, or the       *)
(* default one if it has none of its own.                                    *)
Config(s) ==
  LET all == ConfigOf[s]
      default == {e \in DOMAIN all : all[e].default}
  IN  IF EnvOf[s] \notin DOMAIN all THEN NoKey
      ELSE IF all[EnvOf[s]].own THEN all[EnvOf[s]].key
      ELSE IF default = {} THEN NoKey ELSE all[CHOOSE e \in default : TRUE].key

(* Seeded fault of Pooled: a pool that is there is not used.                 *)
Pooled_Never(key) == FALSE

Pooled(key) == key \in DOMAIN pools /\ pools[key] # "None"

(* run, get_result and get_pool_client up to the first await.                *)
Asks(s) ==
  /\ pc[s] = "start"
  /\ IF Config(s) = NoKey THEN Goes(s, "failed") /\ UNCHANGED <<uses, rivals>>
     ELSE IF Pooled(Config(s))
          THEN Goes(s, "executing") /\ uses' = [uses EXCEPT ![s] = pools[Config(s)]] /\ UNCHANGED rivals
     ELSE LET others == {t \in group \cap Queries : pc[t] = "creating" /\ Config(t) = Config(s)}
          IN  /\ Goes(s, "creating")
              /\ rivals' = IF others = {} THEN rivals ELSE rivals \cup others \cup {s}
              /\ UNCHANGED uses
  /\ UNCHANGED <<group, program, pools, order, open, recursion, files, closer>>

(* create_new_client_pool once generate_pool has returned: for a type that   *)
(* is neither it is None that is stored, and None.execute fails.             *)
Stores(s) ==
  LET key == Config(s)
      pool == IF KindOf[s] \in {"pgsql", "mysql"} THEN s ELSE "None"
  IN  /\ pc[s] = "creating"
      /\ pools' = [k \in DOMAIN pools \cup {key} |-> IF k = key THEN pool ELSE pools[k]]
      /\ order' = IF key \in DOMAIN pools THEN order ELSE Append(order, key)
      /\ open' = IF pool = s THEN open \cup {s} ELSE open
      /\ uses' = [uses EXCEPT ![s] = pool]
      /\ Goes(s, IF pool = s THEN "executing" ELSE "failed")
      /\ UNCHANGED <<group, program, rivals, recursion, files, closer>>

(* The statement, on the pool get_pool_client returned; a pool that has been *)
(* closed refuses it, and any statement may fail.                            *)
Executes(s) ==
  /\ pc[s] = "executing"
  /\ \/ uses[s] \in open /\ Goes(s, IF s \in Scripts THEN "compiled" ELSE "done")
     \/ Goes(s, "failed")
  /\ UNCHANGED <<group, program, database, recursion, files, closer>>

ConnectFails(s) ==
  /\ pc[s] = "creating" /\ KindOf[s] \in {"pgsql", "mysql"}
  /\ Goes(s, "failed")
  /\ UNCHANGED <<group, program, database, recursion, files, closer>>

-----------------------------------------------------------------------------
(* Scripts: the limit is the process's, not the coroutine's.                 *)

(* DynamicCodeExecutor.compile, which refuses some scripts, and execute:     *)
(* RecursionLimitContext.__enter__.                                          *)
Enters(s) ==
  /\ pc[s] = IF s \in Queries THEN "compiled" ELSE "start"
  /\ \/ /\ Goes(s, "running")
        /\ saved' = Append(saved, <<s, limit>>)
        /\ limit' = DEFAULT_RECURSION_LIMIT
     \/ Goes(s, "failed") /\ UNCHANGED <<saved, limit>>
  /\ UNCHANGED <<group, program, database, crossed, files, closer>>

(* Seeded fault of Original: __exit__ forgets what __enter__ found.          *)
Original_Default(s) == Default

EntryOf(s) == CHOOSE i \in DOMAIN saved : saved[i][1] = s
Original(s) == saved[EntryOf(s)][2]

(* __exit__, however the script ends.                                        *)
Leaves(s, outcome) ==
  /\ Goes(s, outcome)
  /\ limit' = Original(s)
  /\ saved' = [i \in 1..(Len(saved) - 1) |-> saved[IF i < EntryOf(s) THEN i ELSE i + 1]]
  /\ crossed' = (crossed \/ EntryOf(s) # Len(saved))

Returns(s) ==
  /\ pc[s] = "running" /\ program[s] = <<>>
  /\ \/ Leaves(s, "done")
     \/ Leaves(s, "failed")
  /\ UNCHANGED <<group, program, database, files, closer>>

Op(s) == Head(program[s])
Does(s, do) == pc[s] = "running" /\ program[s] # <<>> /\ Op(s).do = do
Advances(s) == program' = [program EXCEPT ![s] = Tail(@)]

(* An operation that goes on to the next one, at this place of the script.   *)
Proceeds(s, place) ==
  /\ Goes(s, place) /\ Advances(s)
  /\ UNCHANGED <<group, database, recursion, closer>>

Raises(s) ==
  /\ Leaves(s, "failed")
  /\ UNCHANGED <<group, program, database, closer>>

-----------------------------------------------------------------------------
(* Temporary files                                                           *)

(* AstFile._search_system_file: the first whose full name holds the name.    *)
Found(name) ==
  LET hits == {i \in DOMAIN Files : Files[i] \in Named[name]}
  IN  IF hits = {} THEN NoPath
      ELSE <<"system", Files[CHOOSE i \in hits : \A j \in hits : i <= j]>>

(* AstFile.load_from_system, and AsyncExcel.async_load of a name, up to the  *)
(* reading; async_load of bytes uses what AstFile.load returns, which is     *)
(* None.                                                                     *)
Loads(s) ==
  /\ Does(s, "load")
  /\ LET path == Found(Op(s).name)
     IN  IF Op(s).bytes \/ path \notin DOMAIN disk
         THEN Raises(s) /\ UNCHANGED files
         ELSE /\ object' = [object EXCEPT ![s] = [path |-> path, system |-> TRUE, cover |-> Op(s).cover,
                                                  content |-> "none"]]
              /\ Proceeds(s, "reading") /\ UNCHANGED <<given, disk, torn>>

(* AstFile._get_file: a thread reads, and may see half of what another step  *)
(* writes to the file meanwhile.                                             *)
Read(s) ==
  /\ pc[s] = "reading"
  /\ \E content \in {"complete"} \cup (IF s \in torn THEN {"torn"} ELSE {}) :
       object' = [object EXCEPT ![s].content = content]
  /\ torn' = torn \ {s}
  /\ Goes(s, "running")
  /\ UNCHANGED <<group, program, database, recursion, given, disk, closer>>

(* The path the next temporary file of s gets: a new directory each time.    *)
Fresh(s) == <<"temp", s, Len(program[s])>>
Covers(s) == object[s].system /\ object[s].cover

PartOnDisk(path) ==
  [p \in DOMAIN disk \cup {path} |-> IF p = path THEN "partial" ELSE disk[p]]

(* Seeded fault of Saves: the writing is not awaited.                        *)
Saves_Unawaited(s) ==
  /\ Does(s, "save")
  /\ given' = given \cup {s}
  /\ object' = [object EXCEPT ![s].path = Fresh(s)]
  /\ disk' = PartOnDisk(Fresh(s))
  /\ Proceeds(s, "running") /\ UNCHANGED torn

(* AstFile.save: the key is registered before anything is written.  For a    *)
(* system file that is to be covered the coroutine that would write is never *)
(* awaited; without a base directory add raises.                             *)
Saves(s) ==
  /\ Does(s, "save")
  /\ CASE Covers(s) ->
            given' = given \cup {s} /\ Proceeds(s, "running") /\ UNCHANGED <<object, disk, torn>>
       [] ~Covers(s) /\ ~Base -> Raises(s) /\ UNCHANGED files
       [] ~Covers(s) /\ Base ->
            /\ disk' = PartOnDisk(Fresh(s))
            /\ Goes(s, "writing")
            /\ UNCHANGED <<group, program, database, recursion, object, given, torn, closer>>

(* The end of AstTempFileController.add: the file is written, or an error    *)
(* has its directory removed.                                                *)
Adds(s) ==
  LET path == Fresh(s)
  IN  /\ pc[s] = "writing"
      /\ \/ /\ object' = [object EXCEPT ![s].path = path]
            /\ given' = given \cup {s}
            /\ disk' = [p \in DOMAIN disk |-> IF p = path THEN "complete" ELSE disk[p]]
            /\ Proceeds(s, "running") /\ UNCHANGED torn
         \/ /\ disk' = [p \in DOMAIN disk \ {path} |-> disk[p]]
            /\ Raises(s) /\ UNCHANGED <<object, given, torn>>

(* AsyncExcel.async_save up to the thread that makes the directory: the path *)
(* is the object's from here on, that of a file there is not.                *)
MakesPath(s) ==
  /\ Does(s, "excel save")
  /\ LET cover == Op(s).cover
         covers == object[s].system /\ cover
     IN  IF ~covers /\ ~Base
         THEN Raises(s) /\ object' = [object EXCEPT ![s].cover = cover] /\ UNCHANGED <<given, disk, torn>>
         ELSE /\ object' = [object EXCEPT ![s].cover = cover,
                                          ![s].path = IF covers THEN @ ELSE Fresh(s)]
              /\ Goes(s, "making")
              /\ UNCHANGED <<group, program, database, recursion, given, disk, torn, closer>>

(* workbook.save writes at once as far as coroutines go, but not as far as   *)
(* the threads that read the same system file do.                            *)
SavesBook(s) ==
  LET path == object[s].path
  IN  /\ pc[s] = "making"
      /\ \/ /\ disk' = [p \in DOMAIN disk \cup {path} |-> IF p = path THEN "complete" ELSE disk[p]]
            /\ torn' = torn \cup {t \in group \cap Scripts : pc[t] = "reading" /\ object[t].path = path}
            /\ given' = given \cup {s}
            /\ Proceeds(s, "running") /\ UNCHANGED object
         \/ Raises(s) /\ UNCHANGED files

-----------------------------------------------------------------------------
(* PostActionExecutor closes the pools, then removes the files.              *)

Closing(at, i) == closer' = [closer EXCEPT !.at = at, !.next = i]

CloseBegins ==
  /\ closer.at = "waiting"
  /\ \A s \in group : pc[s] \in Over \/ s \in Orphans
  /\ closer' = [at |-> "pools", next |-> 1, size |-> Len(order)]
  /\ UNCHANGED <<group, program, pc, database, recursion, files>>

(* DatabaseController.close: the iteration fails when an orphan has stored a *)
(* pool meanwhile, and at the first pool of MySQL, whose close is no         *)
(* coroutine.  asyncpg waits until the connections are back.                 *)
ClosesPool ==
  LET key == order[closer.next]
      pool == pools[key]
  IN  /\ closer.at = "pools"
      /\ CASE Len(order) # closer.size -> Closing("failed", 0) /\ UNCHANGED open
           [] Len(order) = closer.size /\ closer.next > Len(order) ->
                Closing("files", 0) /\ UNCHANGED open
           [] Len(order) = closer.size /\ closer.next <= Len(order) /\ pool = "None" ->
                Closing("pools", closer.next + 1) /\ UNCHANGED open
           [] OTHER ->
                IF KindOf[pool] = "mysql" THEN Closing("failed", 0) /\ UNCHANGED open
                ELSE /\ \A t \in group \cap Queries : pc[t] = "executing" => uses[t] # pool
                     /\ open' = open \ {pool} /\ Closing("pools", closer.next + 1)
      /\ UNCHANGED <<group, program, pc, pools, order, uses, rivals, recursion, files>>

(* AstTempFileController.close: a thread removes the tree, and only then is  *)
(* the base directory forgotten.                                             *)
RemovesFiles ==
  /\ closer.at = "files"
  /\ disk' = [p \in {q \in DOMAIN disk : q[1] # "temp"} |-> disk[p]]
  /\ Closing("removed", 0)
  /\ UNCHANGED <<group, program, pc, database, recursion, object, given, torn>>

ForgetsBase ==
  /\ closer.at = "removed" /\ Closing("closed", 0)
  /\ UNCHANGED <<group, program, pc, database, recursion, files>>

-----------------------------------------------------------------------------
Init ==
  /\ group \in Groups
  /\ program \in {p \in [Scripts -> UNION {Programs[s] : s \in Scripts}] :
                    \A s \in Scripts : p[s] \in IF s \in group THEN Programs[s] ELSE {<<>>}}
  /\ pc = [s \in Steps |-> IF s \in group THEN "start" ELSE "done"]
  /\ pools = [k \in {} |-> "None"] /\ order = <<>> /\ open = {} /\ rivals = {}
  /\ uses = [s \in Queries |-> "None"]
  /\ limit = Default /\ saved = <<>> /\ crossed = FALSE
  /\ object = [s \in Scripts |-> [path |-> NoPath, system |-> FALSE, cover |-> FALSE, content |-> "none"]]
  /\ given = {} /\ torn = {}
  /\ disk = [p \in {<<"system", f>> : f \in Range(Files)} |-> "complete"]
  /\ closer = [at |-> "waiting", next |-> 0, size |-> 0]

Database(s) == Asks(s) \/ Stores(s) \/ Executes(s) \/ ConnectFails(s)
Script(s) ==
  \/ Enters(s) \/ Returns(s)
  \/ Loads(s) \/ Read(s) \/ Saves(s) \/ Adds(s) \/ MakesPath(s) \/ SavesBook(s)
PostAction == CloseBegins \/ ClosesPool \/ RemovesFiles \/ ForgetsBase

Next ==
  \/ \E s \in group \cap Queries : Database(s)
  \/ \E s \in group \cap Scripts : Script(s)
  \/ PostAction

Spec == Init /\ [][Next]_vars

-----------------------------------------------------------------------------
(* Properties                                                                *)

(* No pool is lost, open and known to nobody who could close it, except by   *)
(* steps that both found none and made it at the same time: the later one    *)
(* replaces the earlier.  Past the closing of the pools only those and the   *)
(* pools of orphans are still open.                                          *)
PoolsAccounted ==
  /\ open \ rivals \subseteq Range(pools)
  /\ closer.at \in {"files", "removed", "closed"} => open \subseteq rivals \cup Orphans

(* Scripts run under their limit and leave the interpreter with the one it   *)
(* had, as long as they end in the reverse of the order they began: the      *)
(* limit a script saves may be that of another script.                       *)
LimitRestored ==
  ~crossed => limit = IF saved = <<>> THEN Default ELSE DEFAULT_RECURSION_LIMIT

(* Until the files are removed, a key a script was given names a whole file: *)
(* only async_save binds its object to a path before there is a file, until  *)
(* it has written it or has failed.  And what a script reads is a whole file *)
(* unless another one writes a workbook back to it.                          *)
Binding(s) == pc[s] \in {"making", "failed"} /\ program[s] # <<>> /\ Op(s).do = "excel save"
WritesBack(t) ==
  \E p \in Programs[t] : \E i \in DOMAIN p : p[i].do = "excel save" /\ p[i].cover
KeysNameFiles ==
  \A s \in Scripts :
    /\ s \in given /\ ~Binding(s) /\ closer.at \in {"waiting", "pools", "failed"} =>
         object[s].path \in DOMAIN disk /\ disk[object[s].path] = "complete"
    /\ object[s].content = "torn" => \E t \in (group \cap Scripts) \ {s} : WritesBack(t)
=============================================================================
