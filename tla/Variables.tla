------------------------------ MODULE Variables ------------------------------
(***************************************************************************)
(* The variables of a task (variables_controller/variable.py), the loops   *)
(* that make rows of them (multitasker.py, case.py) and the steps that set *)
(* them: scripts, extractions (action_hook.py) and database steps.  A row  *)
(* of temporary variables is an object: the iterations of a case over a    *)
(* dataset hold the rows of the task's cache themselves, and any two of    *)
(* them the same.  A multitasker that a dataset drives gives its           *)
(* iterations no rows but texts, the keys of the dataset's entry.          *)
(***************************************************************************)
EXTENDS Integers, Sequences, FiniteSets, Functions

CONSTANTS
  Father,       \* [nodes but the main case -> node]
  TypeOf,       \* [nodes -> metadata.type]
  ProjectOf,    \* [main_case, case and interface nodes -> project]
  EnvOf,        \* [main_case and case nodes -> environment]
  Iterations,   \* [loops -> Seq(node)]: the iterations a loop can make
  Drives,       \* [loops -> set of drives], see LoopData
  Strategies,   \* the values of env_strategy to choose from
  Datasets,     \* [datasets -> [environments -> [depend, is_default, data]]]
  Actions,      \* [setters -> set of Setting]: what a step may do
  Stored,       \* [projects -> [environments -> initial variables]]
  Shared,       \* the initial global variables
  MaxGenerated, \* MAX_GENERATE_LENGTH
  Tokens,       \* the values steps set, one after another: bounds the settings
  Missing       \* no value

Nodes == DOMAIN TypeOf
Loops == DOMAIN Iterations
Setters == DOMAIN Actions
HasRow == {n \in Nodes : TypeOf[n] \in {"child_case", "child_step_case", "child_multitasker"}}
NoRow == <<>> \* the identity of a text where a row should be
MainCase == CHOOSE n \in Nodes : TypeOf[n] = "main_case"
ChildCase == CHOOSE n \in Nodes : TypeOf[n] = "child_case"
Inner == DOMAIN Father

(* The main case is the root, the child case below it runs; whatever set of  *)
(* nodes one climbs in, the climb leaves it.                                 *)
ASSUME TreeAssumption ==
  /\ {n \in Nodes : TypeOf[n] = "main_case"} = {MainCase}
  /\ {n \in Nodes : TypeOf[n] = "child_case"} = {ChildCase}
  /\ Father \in [Nodes \ {MainCase} -> Nodes]
  /\ \A n \in Inner : Father[n] = MainCase <=> n = ChildCase
  /\ \A S \in SUBSET Nodes :
       S # {} => \E n \in S : n = MainCase \/ Father[n] \notin S

(* Rows are made for the iterations of loops, each by the loop above it.     *)
ASSUME LoopAssumption ==
  /\ Setters \cup Loops \subseteq Inner
  /\ \A loop \in Loops : \A i \in DOMAIN Iterations[loop] :
       Iterations[loop][i] \in HasRow \ {ChildCase} /\ Father[Iterations[loop][i]] = loop
  /\ \A n \in HasRow \ {ChildCase} : Father[n] \in Loops

(* Missing is neither the identity of a row nor a value in one, what a       *)
(* script hands over as a DataSet is a list of lists, and the cache knows    *)
(* the project of every case and interface: _gpe fails for another.          *)
IsList(list) == Len(list) \in Nat /\ DOMAIN list = 1..Len(list)

ASSUME ValueAssumption ==
  /\ Strategies \subseteq {"self_case", "current_case"}
  /\ \A s \in Setters : \A setting \in Actions[s] : setting.kind \in {"temp", "env", "global"}
  /\ MaxGenerated \in Nat /\ "None" # Missing /\ NoRow # Missing
  /\ \A n \in Nodes : <<n>> # Missing
  /\ Range(ProjectOf) \subseteq DOMAIN Stored
  /\ \A d \in DOMAIN Datasets : \A e \in DOMAIN Datasets[d] :
       \A i \in DOMAIN Datasets[d][e].data :
         /\ <<d, e, i>> # Missing
         /\ Missing \notin Range(Datasets[d][e].data[i])
  /\ \A loop \in Loops : \A d \in Drives[loop] :
       d.by \in {"times", "script", "dataset"}
  /\ \A loop \in Loops : \A d \in Drives[loop] :
       d.by = "script" /\ d.value.is = "DataSet" =>
         /\ IsList(d.value.columns) /\ IsList(d.value.rows)
         /\ \A i \in DOMAIN d.value.rows :
              IsList(d.value.rows[i]) /\ Missing \notin Range(d.value.rows[i])

VARIABLES
  strategy, \* env_strategy of the referenced cases
  drive,    \* drive_strategy of the loops and what it names
  made,     \* the loops that have made their iterations
  rowOf,    \* [HasRow -> the identity of its temp_variables, NoRow or Missing]
  rows,     \* [identities -> [names -> value]]
  envs,     \* origin_project_env_variable_mapping
  globals,  \* origin_global_variable_mapping
  writes,   \* how many variables have been set
  wrote     \* history: the settings nothing has set anew since

vars == <<strategy, drive, made, rowOf, rows, envs, globals, writes, wrote>>

-----------------------------------------------------------------------------
(* Where a node stands.                                                      *)

(* Variable._gpe: the project is the nearest a case or interface names, the  *)
(* environment that of the nearest case that has its own.                    *)
Gpe ==
  LET climb[n \in Nodes] ==
        CASE TypeOf[n] = "main_case" -> <<ProjectOf[n], EnvOf[n]>>
          [] TypeOf[n] = "case" -> <<ProjectOf[n], IF strategy[n] = "self_case" THEN EnvOf[n]
                                                   ELSE climb[Father[n]][2]>>
          [] TypeOf[n] = "interface" -> <<ProjectOf[n], climb[Father[n]][2]>>
          [] OTHER -> climb[Father[n]]
  IN  climb

(* search_env: only the nearest case is asked for its environment; with      *)
(* has_found_case_node, the climb goes on to the main case.                  *)
SearchEnv ==
  LET pastCase[n \in Nodes] ==
        IF TypeOf[n] = "main_case" THEN EnvOf[n] ELSE pastCase[Father[n]]
      climb[n \in Nodes] ==
        CASE TypeOf[n] = "main_case" -> EnvOf[n]
          [] TypeOf[n] = "case" ->
               IF strategy[n] = "self_case" THEN EnvOf[n] ELSE pastCase[Father[n]]
          [] OTHER -> climb[Father[n]]
  IN  climb

(* Variable._gtv_node                                                        *)
Gtv ==
  LET climb[n \in Inner] == IF n \in HasRow THEN n ELSE climb[Father[n]]
  IN  climb

(* The nodes from n up to its child case.                                    *)
Path ==
  LET climb[n \in Nodes] ==
        IF n \in {ChildCase, MainCase} THEN {n} ELSE {n} \cup climb[Father[n]]
  IN  climb

Reached(n) == \A m \in Path[n] : m \in HasRow => rowOf[m] # Missing

(* get_variable_mapping and _stv fail at a text that is no row.              *)
Readable(n) == \A m \in Path[n] : m \in HasRow => rowOf[m] \notin {Missing, NoRow}

-----------------------------------------------------------------------------
(* Reading.  The text of a step is rendered from the mapping that            *)
(* get_variable_mapping builds; a script asks through at.temp.get and        *)
(* at.env.get.                                                               *)

(* Functions as Python's dicts: left | right.                                *)
Merge(left, right) ==
  [k \in DOMAIN left \cup DOMAIN right |-> IF k \in DOMAIN right THEN right[k] ELSE left[k]]

GetOr(mapping, k, default) == IF k \in DOMAIN mapping THEN mapping[k] ELSE default

Nothing == [k \in {} |-> Missing]

OfEnvironment(place) == GetOr(envs[place[1]], place[2], Nothing)

(* Seeded fault of EnvMerged: the root case comes first.                     *)
EnvMerged_RootWins(n) ==
  Merge(OfEnvironment(Gpe[n]), OfEnvironment(Gpe[MainCase]))

(* VariableToller.get_env_merged_variable                                    *)
EnvMerged(n) ==
  IF Gpe[n] = Gpe[MainCase] THEN OfEnvironment(Gpe[n])
  ELSE Merge(OfEnvironment(Gpe[MainCase]), OfEnvironment(Gpe[n]))

(* VariableToller.get_variable_mapping                                       *)
VariableMapping(n) ==
  LET temp[m \in Inner] ==
        LET own == IF m \in HasRow THEN rows[rowOf[m]] ELSE Nothing
        IN  IF m = ChildCase THEN own ELSE Merge(temp[Father[m]], own)
  IN  Merge(globals, Merge(EnvMerged(n), temp[n]))

(* Seeded fault of TempGet: only the nearest row is asked.                   *)
TempGet_NearestRow(node, k) ==
  LET own == rows[rowOf[Gtv[node]]]
  IN  IF k \in DOMAIN own THEN own[k] ELSE GetOr(EnvMerged(node), k, Missing)

(* EnvVariable.get, whose scope is never the list it is compared with; and   *)
(* TempVariable.get with its default scope.                                  *)
EnvGet(n, k) == GetOr(EnvMerged(n), k, Missing)

TempGet(node, k) ==
  LET stv[n \in Inner] ==
        IF n = ChildCase THEN GetOr(rows[rowOf[n]], k, Missing)
        ELSE IF n \in HasRow /\ k \in DOMAIN rows[rowOf[n]] THEN rows[rowOf[n]][k]
        ELSE stv[Father[n]]
  IN  IF stv[node] # Missing THEN stv[node] ELSE EnvGet(node, k)

(* ExchangeToller.replace: the pieces the parser finds are replaced in one   *)
(* pass, a name that is nowhere by the empty text; the functions behind a    *)
(* bar are applied from left to right, and one that does not exist yields    *)
(* null.                                                                     *)
Piece(p, mapping) ==
  LET prefix == IF p.is = "variable" THEN GetOr(mapping, p.name, "") ELSE p.name
      Piped[i \in 0..Len(p.pipes)] ==
        IF i = 0 THEN prefix
        ELSE IF p.pipes[i] = "unknown" THEN "null" ELSE <<p.pipes[i], Piped[i - 1]>>
  IN  IF p.is = "literal" THEN p.name ELSE Piped[Len(p.pipes)]

Replace(text, mapping) == [i \in DOMAIN text |-> Piece(text[i], mapping)]

Reference(k) == << [is |-> "variable", name |-> k, pipes |-> <<>>] >>

-----------------------------------------------------------------------------
(* Loops                                                                     *)

Least(a, b) == IF a < b THEN a ELSE b

(* [{} for _ in range(n)]: a new row for every iteration.                    *)
NewRows(loop, n) == [i \in 1..n |-> [id |-> <<Iterations[loop][i]>>, content |-> Nothing]]

(* DataSet.add_row and get_data: a short row is filled with None, a long one *)
(* cut, at the number of columns.                                            *)
DataSetRow(columns, row) ==
  [k \in Range(columns) |->
     LET i == CHOOSE j \in DOMAIN columns : columns[j] = k
     IN  IF i <= Len(row) THEN row[i] ELSE "None"]

(* process_script_value                                                      *)
ScriptRows(loop, value) ==
  CASE value.is = "DataSet" ->
         [i \in 1..Least(Len(value.rows), MaxGenerated) |->
            [id |-> <<Iterations[loop][i]>>, content |-> DataSetRow(value.columns, value.rows[i])]]
    [] value.is = "number" ->
         NewRows(loop, Least(IF value.n < 0 THEN -value.n ELSE value.n, MaxGenerated))
    [] value.is = "sized" -> NewRows(loop, Least(value.n, MaxGenerated))
    [] OTHER -> NewRows(loop, 1)

(* The environment whose rows a case takes: it may depend on the default.    *)
DatasetEnv(loop, d) ==
  LET here == SearchEnv[loop]
      default == {e \in DOMAIN Datasets[d] : Datasets[d][e].is_default}
  IN  IF Datasets[d][here].depend = 0 /\ default # {}
      THEN CHOOSE e \in default : TRUE ELSE here

DatasetRows(loop, d) ==
  LET e == DatasetEnv(loop, d)
      content == Datasets[d][e].data
  IN  [i \in DOMAIN content |-> [id |-> <<d, e, i>>, content |-> content[i]]]

(* A multitasker goes through the entry itself, a mapping: an iteration for  *)
(* each of its keys, which is what the iteration gets.                       *)
EntryKeys(loop, d) ==
  [i \in 1..Cardinality(DOMAIN Datasets[d][SearchEnv[loop]]) |->
     [id |-> NoRow, content |-> Nothing]]

(* Iterations holds as many as a loop can be driven to make.                 *)
ASSUME IterationsAssumption ==
  \A loop \in Loops : \A d \in Drives[loop] :
    /\ d.by = "times" /\ d.parses => 1..d.times \subseteq DOMAIN Iterations[loop]
    /\ d.by = "script" => DOMAIN ScriptRows(loop, d.value) \subseteq DOMAIN Iterations[loop]
    /\ d.by = "dataset" /\ d.name \in DOMAIN Datasets =>
         \A e \in DOMAIN Datasets[d.name] :
           IF TypeOf[loop] = "case"
           THEN DOMAIN Datasets[d.name][e].data \subseteq DOMAIN Iterations[loop]
           ELSE 1..Cardinality(DOMAIN Datasets[d.name][e]) \subseteq DOMAIN Iterations[loop]

(* The iterations of make_child_node, each the row it gets, or Missing when  *)
(* the step fails for it: a number of times that is not one, a dataset that  *)
(* is not there or not in this environment.                                  *)
LoopData(loop) ==
  LET d == drive[loop]
  IN  CASE d.by = "times" ->
             IF ~d.parses THEN Missing ELSE NewRows(loop, IF d.times < 0 THEN 0 ELSE d.times)
        [] d.by = "script" -> ScriptRows(loop, d.value)
        [] d.by = "dataset" ->
             IF d.name \notin DOMAIN Datasets \/ SearchEnv[loop] \notin DOMAIN Datasets[d.name]
             THEN Missing
             ELSE IF TypeOf[loop] = "case" THEN DatasetRows(loop, d.name)
             ELSE EntryKeys(loop, d.name)

(* The rows of the cache hold what iterations made before have put there.    *)
MakesIterations(loop) ==
  LET data == LoopData(loop)
  IN  /\ loop \notin made /\ Reached(Father[loop])
      /\ made' = made \cup {loop}
      /\ IF data = Missing THEN UNCHANGED <<rowOf, rows>>
         ELSE /\ rowOf' = [n \in HasRow |->
                             LET at == {i \in DOMAIN data : Iterations[loop][i] = n}
                             IN  IF at = {} THEN rowOf[n] ELSE data[CHOOSE i \in at : TRUE].id]
              /\ rows' = Merge([id \in {data[i].id : i \in DOMAIN data} \ {NoRow} |->
                                  data[CHOOSE i \in DOMAIN data : data[i].id = id].content], rows)
      /\ UNCHANGED <<strategy, drive, envs, globals, writes, wrote>>

-----------------------------------------------------------------------------
(* Setting.  A Setting is what a step does to one variable: [by, kind,       *)
(* scope, name], and for an extraction what it extracts.                     *)

(* ExtractHook.run: what the action finds in a response, whose every part    *)
(* carries the value v.                                                      *)
Extracted(a, v) ==
  CASE a.source \in {"header", "cookie"} -> IF a.present THEN v ELSE Missing
    [] a.source = "body" /\ a.range = "jsonpath" ->
         IF a.json /\ a.present THEN v ELSE Missing
    [] a.source = "body" /\ a.range = "xpath" -> IF a.present THEN v ELSE Missing
    [] a.source = "body" /\ a.range = "regexp" ->
         IF a.present /\ a.template - 1 \in 0..a.groups THEN v ELSE Missing
    [] OTHER -> v

(* What a step stores: a database step whose jsonpath matches nothing fails, *)
(* a script stores what it computes.                                         *)
ValueOf(setting, v) ==
  IF setting.by = "extraction" THEN Extracted(setting.action, v) ELSE v

(* The object a setting changes: TempVariable.set, EnvVariable.set and       *)
(* GlobalVariable.set.                                                       *)
Target(s, setting) ==
  CASE setting.kind = "temp" ->
         <<"row", rowOf[IF setting.scope = "case" THEN ChildCase ELSE Gtv[s]]>>
    [] setting.kind = "env" -> <<"env", Gpe[s]>>
    [] setting.kind = "global" -> <<"globals", <<>>>>

(* The iterations and steps told apart as their loops are written: those of  *)
(* a case over a dataset share its rows, the others share nothing.           *)
Place(s, setting) ==
  LET home == Gtv[s]
      loop == Father[home]
  IN  IF setting.kind # "temp" THEN Target(s, setting)
      ELSE IF setting.scope = "case" \/ home = ChildCase THEN <<"row", <<ChildCase>>>>
      ELSE IF drive[loop].by = "dataset" THEN <<"row", rowOf[home]>>
      ELSE <<"row", <<home>>>>

CanSet(s) == TypeOf[s] \notin {"if", "assertion", "multitasker", "error"}

(* EnvVariable.set warns of a project or environment it does not know, and   *)
(* of a project without environments.                                        *)
Known(s, setting) ==
  setting.kind = "env" => Gpe[s][1] \in DOMAIN envs /\ Gpe[s][2] \in DOMAIN envs[Gpe[s][1]]

(* What a step needs to get as far as setting: a database step and an        *)
(* interface render their texts first, and a text takes no variables.        *)
Settles(s, setting) ==
  /\ CanSet(s) /\ Known(s, setting)
  /\ TypeOf[s] \in {"database", "interface"} => Readable(s)
  /\ Target(s, setting) # <<"row", NoRow>>

Put(mapping, k, v) == Merge(mapping, [x \in {k} |-> v])

Sets(s, setting) ==
  LET v == ValueOf(setting, Tokens[writes + 1])
      target == Target(s, setting)
      k == setting.name
      place == Place(s, setting)
  IN  /\ writes < Len(Tokens)
      /\ Reached(s)
      /\ s \in Loops => s \notin made /\ drive[s].by = "script"
      /\ writes' = writes + 1
      /\ IF v = Missing \/ ~Settles(s, setting)
         THEN UNCHANGED <<rows, envs, globals, wrote>>
         ELSE /\ rows' = IF target[1] = "row" THEN [rows EXCEPT ![target[2]] = Put(@, k, v)] ELSE rows
              /\ envs' = IF target[1] = "env"
                         THEN [envs EXCEPT ![target[2][1]][target[2][2]] = Put(@, k, v)] ELSE envs
              /\ globals' = IF target[1] = "globals" THEN Put(globals, k, v) ELSE globals
              /\ wrote' = {w \in wrote : w.name # k \/ w.place # place}
                            \cup {[by |-> s, name |-> k, place |-> place, value |-> v,
                                   kind |-> setting.kind, scope |-> setting.scope]}
      /\ UNCHANGED <<strategy, drive, made, rowOf>>

-----------------------------------------------------------------------------
Init ==
  /\ strategy \in [{n \in Nodes : TypeOf[n] = "case"} -> Strategies]
  /\ drive \in {d \in [Loops -> UNION {Drives[l] : l \in Loops}] : \A l \in Loops : d[l] \in Drives[l]}
  /\ made = {}
  /\ rowOf = [n \in HasRow |-> IF n = ChildCase THEN <<n>> ELSE Missing]
  /\ rows = [id \in {<<ChildCase>>} |-> Nothing]
  /\ envs = Stored
  /\ globals = Shared
  /\ writes = 0
  /\ wrote = {}

Next ==
  \/ \E loop \in Loops : MakesIterations(loop)
  \/ \E s \in Setters, setting \in UNION {Actions[t] : t \in Setters} :
       setting \in Actions[s] /\ Sets(s, setting)

Spec == Init /\ [][Next]_vars

-----------------------------------------------------------------------------
(* Properties                                                                *)

Readers == {n \in Setters \cup Loops : Readable(n)}
OnlyGlobal(n, k) ==
  /\ k \in DOMAIN globals /\ k \notin DOMAIN EnvMerged(n)
  /\ \A m \in Path[n] \cap HasRow : k \notin DOMAIN rows[rowOf[m]]

(* A variable that a row above the step or its environment has is found      *)
(* alike by the text {{k}} and by a script's at.temp.get(k): the nearest row *)
(* that has it decides, else the environment.                                *)
LookupsAgree ==
  \A n \in Readers :
    LET mapping == VariableMapping(n)
    IN  \A k \in DOMAIN mapping : ~OnlyGlobal(n, k) => TempGet(n, k) = mapping[k]

(* variable.py:182 says that at.temp.get goes on to the environment and to   *)
(* the global variables, as the text does.  It does not get to the global    *)
(* ones: EnvVariable.get compares its scope with the list ['global'].        *)
GlobalsAreFound ==
  \A n \in Readers : \A k \in DOMAIN globals : TempGet(n, k) = VariableMapping(n)[k]

(* The environment a step takes its datasets and databases from is the one   *)
(* it takes its variables from, unless the case it is in runs in the         *)
(* environment of a case that has its own: search_env then goes on to the    *)
(* main case.                                                                *)
Cases(n) == {m \in Path[n] : TypeOf[m] = "case"}
EnvironmentsAgree ==
  \A n \in Setters \cup Loops :
    \/ SearchEnv[n] = Gpe[n][2]
    \/ \E near, far \in Cases(n) :
         /\ near # far /\ far \in Cases(near)
         /\ strategy[near] = "current_case" /\ strategy[far] = "self_case"

(* What a step has set is what it reads, as a text and from its scripts,     *)
(* until a step that shares the place sets it anew: iterations that are not  *)
(* those of a case over a dataset share nothing of their own.  A variable    *)
(* nearer to the step hides what it sets further up.  Nothing can be read    *)
(* below the iterations of a multitasker that a dataset drives.              *)
Hidden(w) ==
  LET nearer == {m \in Path[w.by] \cap HasRow : w.name \in DOMAIN rows[rowOf[m]]}
  IN  CASE w.kind = "temp" -> w.scope = "case" /\ nearer \ {ChildCase} # {}
        [] w.kind = "env" -> nearer # {}
        [] w.kind = "global" -> nearer # {} \/ w.name \in DOMAIN EnvMerged(w.by)

WrittenIsRead ==
  \A w \in wrote :
    /\ Readable(w.by) /\ ~Hidden(w) =>
         /\ Replace(Reference(w.name), VariableMapping(w.by)) = <<w.value>>
         /\ w.kind # "global" => TempGet(w.by, w.name) = w.value
    /\ w.kind = "env" => EnvGet(w.by, w.name) = w.value
    /\ w.kind = "global" => globals[w.name] = w.value
=============================================================================
