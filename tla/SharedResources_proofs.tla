----------------------- MODULE SharedResources_proofs -----------------------
(***************************************************************************)
(* Proofs about SharedResources, for every set of steps that run side by   *)
(* side, whatever databases they use and whatever their scripts do with    *)
(* files.                                                                  *)
(***************************************************************************)
EXTENDS SharedResources, TLAPS

-----------------------------------------------------------------------------
(* The inductive invariant, one part for each property.                      *)

Places ==
  {"start", "creating", "executing", "compiled", "running", "reading", "writing", "making",
   "done", "failed"}

StepsTypeOK ==
  /\ pc \in [Steps -> Places]
  /\ closer \in [at : {"waiting", "pools", "files", "removed", "closed", "failed"},
                 next : Nat, size : Nat]
  /\ closer.at # "waiting" => \A s \in group \cap Steps : pc[s] \in Over \/ s \in Orphans

(* The keys of the pools are in order, and each pool is under its own.       *)
PoolsTypeOK ==
  /\ pools \in [DOMAIN pools -> Queries \cup {"None"}]
  /\ order \in Seq(DOMAIN pools)
  /\ \A key \in DOMAIN pools : \E i \in 1..Len(order) : order[i] = key
  /\ \A key \in DOMAIN pools : pools[key] # "None" => Config(pools[key]) = key
  /\ open \subseteq Queries

Creating(s) == s \in group \cap Queries /\ pc[s] = "creating"

(* Pools that are open and will be replaced, or have been, are rivals.       *)
RivalsInv ==
  /\ \A s \in open : pc[s] \notin {"start", "creating"}
  /\ \A s \in open \ rivals : Config(s) \in DOMAIN pools /\ pools[Config(s)] = s
  /\ \A s, t \in Queries :
       Creating(s) /\ Creating(t) /\ s # t /\ Config(s) = Config(t) => s \in rivals
  /\ \A s \in open : \A t \in Queries :
       Creating(t) /\ s # t /\ Config(s) = Config(t) => s \in rivals

(* What the closing of the pools has still to close, while nobody has stored *)
(* a new one; afterwards only orphans can.                                   *)
ToClose(s) == \E i \in closer.next..Len(order) : pools[order[i]] = s

ClosingInv ==
  /\ closer.at = "pools" =>
       /\ closer.next \in Nat \ {0} /\ closer.size <= Len(order)
       /\ Len(order) = closer.size => \A s \in open : s \in rivals \cup Orphans \/ ToClose(s)
  /\ closer.at \in {"files", "removed", "closed"} => open \subseteq rivals \cup Orphans

PoolsInv == StepsTypeOK /\ PoolsTypeOK /\ RivalsInv /\ ClosingInv

-----------------------------------------------------------------------------
Within == {"running", "reading", "writing", "making"}

(* Every script that runs has its entry, one.                                *)
EntriesOK ==
  /\ pc \in [Steps -> Places]
  /\ limit \in {Default, DEFAULT_RECURSION_LIMIT}
  /\ saved \in Seq(Steps \X {Default, DEFAULT_RECURSION_LIMIT})
  /\ \A i, j \in DOMAIN saved : saved[i][1] = saved[j][1] => i = j
  /\ \A s \in Steps : pc[s] \in Within <=> \E i \in DOMAIN saved : saved[i][1] = s

(* The first script to enter saved the limit of the interpreter, each other  *)
(* one that of a script, until they leave in another order.                  *)
StackOK ==
  ~crossed =>
    /\ limit = IF saved = <<>> THEN Default ELSE DEFAULT_RECURSION_LIMIT
    /\ \A i \in DOMAIN saved :
         saved[i][2] = IF i = 1 THEN Default ELSE DEFAULT_RECURSION_LIMIT

LimitInv == EntriesOK /\ StackOK

-----------------------------------------------------------------------------
SystemPaths == {"system"} \X Range(Files)
TempPaths == {"temp"} \X Scripts \X Nat
Paths == SystemPaths \cup TempPaths

Objects ==
  [path : Paths \cup {NoPath}, system : BOOLEAN, cover : BOOLEAN,
   content : {"none", "complete", "torn"}]

FilesTypeOK ==
  /\ pc \in [Steps -> Places]
  /\ program \in [Scripts -> Seq(Operations)]
  /\ object \in [Scripts -> Objects]
  /\ disk \in [DOMAIN disk -> {"partial", "complete"}] /\ DOMAIN disk \subseteq Paths
  /\ given \subseteq Scripts /\ torn \subseteq Scripts
  /\ closer.at \in {"waiting", "pools", "files", "removed", "closed", "failed"}
  /\ "at" \in DOMAIN closer

(* What a script has yet to do is from one of its programs.                  *)
ProgramsOK ==
  \A s \in group \cap Scripts :
    \E p \in Programs[s] : \A i \in DOMAIN program[s] : \E j \in DOMAIN p : program[s][i] = p[j]

OnDisk(path) == path \in DOMAIN disk /\ disk[path] = "complete"

(* Where the object of s is: in a system file, or in a temporary file it has *)
(* made before; and in the next one while it makes it.                       *)
Earlier(s, path) ==
  \/ path \in SystemPaths
  \/ path \in {"temp"} \X {s} \X Nat /\ path[3] > Len(program[s])

Held(s) == object[s].system \/ s \in given
Kept == closer.at \in {"waiting", "pools", "failed"}

ObjectOK(s) ==
  /\ Held(s) /\ ~Binding(s) => Earlier(s, object[s].path) /\ (Kept => OnDisk(object[s].path))
  /\ pc[s] = "reading" => object[s].path \in SystemPaths
  /\ pc[s] = "making" =>
       /\ program[s] # <<>> /\ Op(s).do = "excel save"
       /\ \/ object[s].path = Fresh(s)
          \/ Op(s).cover /\ Earlier(s, object[s].path)
  /\ pc[s] = "writing" =>
       program[s] # <<>> /\ Op(s).do = "save" /\ (Kept => Fresh(s) \in DOMAIN disk)

ObjectsOK ==
  /\ \A path \in SystemPaths : OnDisk(path)
  /\ \A s \in Scripts : ObjectOK(s)

TornOK ==
  \A s \in Scripts :
    s \in torn \/ object[s].content = "torn" => \E t \in (group \cap Scripts) \ {s} : WritesBack(t)

FilesInv == FilesTypeOK /\ ProgramsOK /\ ObjectsOK /\ TornOK

-----------------------------------------------------------------------------
(* Where a step may go.                                                      *)

LEMMA PlacesOf ==
  ASSUME pc \in [Steps -> Places], NEW s \in Steps, NEW place \in Places, Goes(s, place)
  PROVE  /\ pc' \in [Steps -> Places] /\ pc'[s] = place
         /\ \A t \in Steps \ {s} : pc'[t] = pc[t]
BY DEF Goes

-----------------------------------------------------------------------------
(* The recursion limit.                                                      *)

LEMMA LimitKept ==
  ASSUME LimitInv, NEW s \in Steps, NEW place \in Places, Goes(s, place),
         pc[s] \in Within <=> place \in Within, UNCHANGED recursion
  PROVE  LimitInv'
<1>1. /\ pc' \in [Steps -> Places] /\ pc'[s] = place
      /\ \A t \in Steps \ {s} : pc'[t] = pc[t]
  BY PlacesOf DEF LimitInv, EntriesOK
<1> QED BY <1>1 DEF LimitInv, EntriesOK, StackOK, recursion

LEMMA LeavesLimit ==
  ASSUME LimitInv, NEW s \in Steps, NEW outcome \in Over, Leaves(s, outcome), pc[s] \in Within
  PROVE  LimitInv'
<1> DEFINE n == Len(saved)
           e == EntryOf(s)
           Entry == Steps \X {Default, DEFAULT_RECURSION_LIMIT}
<1>1. /\ pc' \in [Steps -> Places] /\ pc'[s] \in Over
      /\ \A t \in Steps \ {s} : pc'[t] = pc[t]
  <2>1. outcome \in Places
    BY DEF Over, Places
  <2> QED BY <2>1, PlacesOf DEF LimitInv, EntriesOK, Leaves
<1>2. /\ saved \in Seq(Entry) /\ n \in Nat /\ DOMAIN saved = 1..n
      /\ \A i \in 1..n : saved[i] \in Entry
  BY DEF LimitInv, EntriesOK
<1>3. e \in 1..n /\ saved[e][1] = s
  BY <1>2 DEF LimitInv, EntriesOK, EntryOf
<1> HIDE DEF e
<1>4. saved' = [i \in 1..(n - 1) |-> saved[IF i < e THEN i ELSE i + 1]]
  BY DEF Leaves, e
<1>5. /\ DOMAIN saved' = 1..(n - 1) /\ n - 1 \in Nat
      /\ \A i \in 1..(n - 1) : i < e => saved'[i] = saved[i]
      /\ \A i \in 1..(n - 1) : ~(i < e) => saved'[i] = saved[i + 1]
  BY <1>3, <1>4
<1>6. saved' \in Seq(Entry) /\ Len(saved') = n - 1
  <2>1. \A i \in 1..(n - 1) : saved'[i] \in Entry
    BY <1>2, <1>5, SMTT(30)
  <2>2. saved' \in [1..(n - 1) -> Entry]
    BY <1>4, <1>5, <2>1
  <2> QED BY <1>5, <2>2
<1>7. \A i, j \in 1..(n - 1) : saved'[i][1] = saved'[j][1] => i = j
  <2> SUFFICES ASSUME NEW i \in 1..(n - 1), NEW j \in 1..(n - 1), saved'[i][1] = saved'[j][1]
               PROVE  i = j
    OBVIOUS
  <2>1. \A k \in 1..n, l \in 1..n : saved[k][1] = saved[l][1] => k = l
    BY <1>2 DEF LimitInv, EntriesOK
  <2>2. \A k \in 1..(n - 1) : k \in 1..n /\ k + 1 \in 1..n
    BY <1>2
  <2>3. CASE i < e /\ j < e
    BY <1>5, <2>1, <2>2, <2>3
  <2>4. CASE i < e /\ ~(j < e)
    <3>1. saved[i][1] = saved[j + 1][1]
      BY <1>5, <2>4
    <3>2. i = j + 1
      BY <2>1, <2>2, <3>1
    <3> QED BY <1>3, <2>4, <3>2
  <2>5. CASE ~(i < e) /\ j < e
    <3>1. saved[i + 1][1] = saved[j][1]
      BY <1>5, <2>5
    <3>2. i + 1 = j
      BY <2>1, <2>2, <3>1
    <3> QED BY <1>3, <2>5, <3>2
  <2>6. CASE ~(i < e) /\ ~(j < e)
    <3>1. saved[i + 1][1] = saved[j + 1][1]
      BY <1>5, <2>6
    <3>2. i + 1 = j + 1
      BY <2>1, <2>2, <3>1
    <3> QED BY <3>2
  <2> QED BY <2>3, <2>4, <2>5, <2>6
<1>8. \A t \in Steps : pc'[t] \in Within <=> \E i \in 1..(n - 1) : saved'[i][1] = t
  <2> SUFFICES ASSUME NEW t \in Steps
               PROVE  pc'[t] \in Within <=> \E i \in 1..(n - 1) : saved'[i][1] = t
    OBVIOUS
  <2>1. CASE t = s
    <3>1. pc'[t] \notin Within
      BY <1>1, <2>1 DEF Within, Over
    <3>2. ASSUME NEW i \in 1..(n - 1), saved'[i][1] = s
          PROVE  FALSE
      <4>1. \A k \in 1..n, l \in 1..n : saved[k][1] = saved[l][1] => k = l
        BY <1>2 DEF LimitInv, EntriesOK
      <4>2. i \in 1..n /\ i + 1 \in 1..n
        BY <1>2
      <4>3. CASE i < e
        <5>1. saved[i][1] = saved[e][1]
          BY <1>3, <1>5, <3>2, <4>3
        <5>2. i = e
          BY <1>3, <4>1, <4>2, <5>1
        <5> QED BY <1>3, <4>3, <5>2
      <4>4. CASE ~(i < e)
        <5>1. saved[i + 1][1] = saved[e][1]
          BY <1>3, <1>5, <3>2, <4>4
        <5>2. i + 1 = e
          BY <1>3, <4>1, <4>2, <5>1
        <5> QED BY <1>3, <4>4, <5>2
      <4> QED BY <4>3, <4>4
    <3> QED BY <2>1, <3>1, <3>2
  <2>2. CASE t # s
    <3>1. pc'[t] \in Within <=> \E i \in 1..n : saved[i][1] = t
      BY <1>1, <1>2, <2>2 DEF LimitInv, EntriesOK
    <3>2. ASSUME NEW i \in 1..n, saved[i][1] = t
          PROVE  \E j \in 1..(n - 1) : saved'[j][1] = t
      <4>1. CASE i < e
        <5>1. i \in 1..(n - 1) /\ saved'[i] = saved[i]
          BY <1>2, <1>3, <1>5, <4>1
        <5> QED BY <3>2, <5>1
      <4>2. CASE i > e
        <5>1. i - 1 \in 1..(n - 1) /\ ~(i - 1 < e) /\ (i - 1) + 1 = i
          BY <1>2, <1>3, <4>2
        <5>2. saved'[i - 1] = saved[i]
          BY <1>5, <5>1
        <5> QED BY <3>2, <5>1, <5>2
      <4>3. i # e
        BY <1>3, <2>2, <3>2
      <4> QED BY <1>2, <1>3, <4>1, <4>2, <4>3
    <3>3. ASSUME NEW j \in 1..(n - 1), saved'[j][1] = t
          PROVE  \E i \in 1..n : saved[i][1] = t
      <4>1. CASE j < e
        BY <1>2, <1>3, <1>5, <3>3, <4>1
      <4>2. CASE ~(j < e)
        <5>1. j + 1 \in 1..n /\ saved[j + 1][1] = t
          BY <1>2, <1>5, <3>3, <4>2
        <5> QED BY <5>1
      <4> QED BY <4>1, <4>2
    <3> QED BY <3>1, <3>2, <3>3
  <2> QED BY <2>1, <2>2
<1>9. limit' = saved[e][2] /\ limit' \in {Default, DEFAULT_RECURSION_LIMIT}
  BY <1>2, <1>3 DEF Leaves, Original, e
<1>10. StackOK'
  <2> SUFFICES ASSUME ~crossed'
               PROVE  /\ limit' = IF saved' = <<>> THEN Default ELSE DEFAULT_RECURSION_LIMIT
                      /\ \A i \in DOMAIN saved' :
                           saved'[i][2] = IF i = 1 THEN Default ELSE DEFAULT_RECURSION_LIMIT
    BY DEF StackOK
  <2>1. ~crossed /\ e = n
    BY DEF Leaves, e
  <2>2. \A i \in 1..n : saved[i][2] = IF i = 1 THEN Default ELSE DEFAULT_RECURSION_LIMIT
    BY <1>2, <2>1 DEF LimitInv, StackOK
  <2>3. \A i \in 1..(n - 1) : saved'[i] = saved[i]
    BY <1>2, <1>5, <2>1
  <2>4. saved' = <<>> <=> n = 1
    BY <1>3, <1>6
  <2> QED BY <1>2, <1>3, <1>5, <1>9, <2>1, <2>2, <2>3, <2>4, SMTT(30)
<1> QED BY <1>1, <1>5, <1>6, <1>7, <1>8, <1>9, <1>10 DEF LimitInv, EntriesOK

LEMMA EntersLimit ==
  ASSUME LimitInv, NEW s \in Steps, Enters(s)
  PROVE  LimitInv'
<1>1. pc[s] \notin Within
  BY DEF Enters, Within
<1>2. CASE Goes(s, "failed") /\ UNCHANGED <<saved, limit>>
  <2>1. UNCHANGED recursion
    BY <1>2 DEF Enters, recursion
  <2> QED BY <1>1, <1>2, <2>1, LimitKept DEF Places, Within
<1>3. CASE /\ Goes(s, "running") /\ saved' = Append(saved, <<s, limit>>)
           /\ limit' = DEFAULT_RECURSION_LIMIT
  <2> DEFINE n == Len(saved)
             Entry == Steps \X {Default, DEFAULT_RECURSION_LIMIT}
  <2>1. /\ pc' \in [Steps -> Places] /\ pc'[s] = "running"
        /\ \A t \in Steps \ {s} : pc'[t] = pc[t]
    BY <1>3, PlacesOf DEF LimitInv, EntriesOK, Places
  <2>2. /\ saved \in Seq(Entry) /\ n \in Nat /\ DOMAIN saved = 1..n /\ <<s, limit>> \in Entry
    BY DEF LimitInv, EntriesOK
  <2>3. /\ saved' \in Seq(Entry) /\ Len(saved') = n + 1 /\ DOMAIN saved' = 1..(n + 1)
        /\ saved'[n + 1] = <<s, limit>>
        /\ \A i \in 1..n : saved'[i] = saved[i]
    BY <1>3, <2>2
  <2>4. \A i \in 1..n : saved[i][1] # s
    BY <1>1, <2>2 DEF LimitInv, EntriesOK
  <2>5. \A i, j \in 1..(n + 1) : saved'[i][1] = saved'[j][1] => i = j
    <3>1. \A i \in 1..(n + 1) : i \in 1..n \/ i = n + 1
      BY <2>2
    <3>2. \A i, j \in 1..n : saved[i][1] = saved[j][1] => i = j
      BY <2>2 DEF LimitInv, EntriesOK
    <3>3. saved'[n + 1][1] = s
      BY <2>3
    <3> QED BY <2>3, <2>4, <3>1, <3>2, <3>3
  <2>6. \A t \in Steps : pc'[t] \in Within <=> \E i \in 1..(n + 1) : saved'[i][1] = t
    <3>1. n + 1 \in 1..(n + 1) /\ saved'[n + 1][1] = s /\ "running" \in Within
      BY <2>2, <2>3 DEF Within
    <3>2. \A i \in 1..(n + 1) : i \in 1..n \/ i = n + 1
      BY <2>2
    <3>3. \A i \in 1..n : i \in 1..(n + 1) /\ saved'[i] = saved[i]
      BY <2>2, <2>3
    <3>4. \A t \in Steps : pc[t] \in Within <=> \E i \in 1..n : saved[i][1] = t
      BY <2>2 DEF LimitInv, EntriesOK
    <3> QED BY <2>1, <2>4, <3>1, <3>2, <3>3, <3>4
  <2>7. StackOK'
    <3> SUFFICES ASSUME ~crossed
                 PROVE  /\ limit' = IF saved' = <<>> THEN Default ELSE DEFAULT_RECURSION_LIMIT
                        /\ \A i \in DOMAIN saved' :
                             saved'[i][2] = IF i = 1 THEN Default ELSE DEFAULT_RECURSION_LIMIT
      BY DEF StackOK, Enters
    <3>1. saved' # <<>>
      BY <2>2, <2>3
    <3>2. /\ limit = IF saved = <<>> THEN Default ELSE DEFAULT_RECURSION_LIMIT
          /\ \A i \in 1..n : saved[i][2] = IF i = 1 THEN Default ELSE DEFAULT_RECURSION_LIMIT
      BY <2>2 DEF LimitInv, StackOK
    <3>3. saved'[n + 1][2] = IF n + 1 = 1 THEN Default ELSE DEFAULT_RECURSION_LIMIT
      BY <2>2, <2>3, <3>2
    <3>4. \A i \in 1..(n + 1) : i \in 1..n \/ i = n + 1
      BY <2>2
    <3> QED BY <1>3, <2>3, <3>1, <3>2, <3>3, <3>4
  <2> QED BY <1>3, <2>1, <2>3, <2>5, <2>6, <2>7 DEF LimitInv, EntriesOK
<1> QED BY <1>2, <1>3 DEF Enters

(* Any other action of a step leaves the limit alone and does not take the   *)
(* step into a script or out of it; an operation that raises leaves it.      *)
LEMMA StepLimit ==
  ASSUME LimitInv, NEW s \in Steps, Database(s) \/ Script(s)
  PROVE  LimitInv'
<1>1. CASE Asks(s)
  <2>1. /\ pc[s] \notin Within /\ UNCHANGED recursion
        /\ \E place \in {"failed", "executing", "creating"} : Goes(s, place)
    BY <1>1 DEF Asks, Within
  <2> QED BY <2>1, LimitKept DEF Places, Within
<1>2. CASE Stores(s)
  <2>1. /\ pc[s] \notin Within /\ UNCHANGED recursion
        /\ \E place \in {"failed", "executing"} : Goes(s, place)
    BY <1>2 DEF Stores, Within
  <2> QED BY <2>1, LimitKept DEF Places, Within
<1>3. CASE Executes(s) \/ ConnectFails(s)
  <2>1. /\ pc[s] \notin Within /\ UNCHANGED recursion
        /\ \E place \in {"failed", "compiled", "done"} : Goes(s, place)
    BY <1>3 DEF Executes, ConnectFails, Within
  <2> QED BY <2>1, LimitKept DEF Places, Within
<1>4. CASE Enters(s)
  BY <1>4, EntersLimit
<1>5. CASE Returns(s)
  <2>1. pc[s] \in Within /\ \E outcome \in Over : Leaves(s, outcome)
    BY <1>5 DEF Returns, Within, Over
  <2> QED BY <2>1, LeavesLimit
<1>6. ASSUME pc[s] \in Within, Raises(s)
      PROVE  LimitInv'
  BY <1>6, LeavesLimit DEF Raises, Over
<1>7. ASSUME pc[s] \in Within, NEW place \in Within, Goes(s, place), UNCHANGED recursion
      PROVE  LimitInv'
  BY <1>7, LimitKept DEF Within, Places
<1>8. CASE Loads(s)
  <2>1. pc[s] \in Within /\ (Raises(s) \/ (Goes(s, "reading") /\ UNCHANGED recursion))
    BY <1>8 DEF Loads, Does, Proceeds, Within
  <2> QED BY <2>1, <1>6, <1>7 DEF Within
<1>9. CASE Read(s)
  <2>1. pc[s] \in Within /\ Goes(s, "running") /\ UNCHANGED recursion
    BY <1>9 DEF Read, Within
  <2> QED BY <2>1, <1>7 DEF Within
<1>10. CASE Saves(s)
  <2>1. pc[s] \in Within
    BY <1>10 DEF Saves, Does, Within
  <2>2. \/ Raises(s)
        \/ Goes(s, "running") /\ UNCHANGED recursion
        \/ Goes(s, "writing") /\ UNCHANGED recursion
    <3>1. CASE Covers(s)
      BY <1>10, <3>1 DEF Saves, Proceeds
    <3>2. CASE ~Covers(s) /\ ~Base
      BY <1>10, <3>2 DEF Saves
    <3>3. CASE ~Covers(s) /\ Base
      BY <1>10, <3>3 DEF Saves
    <3> QED BY <3>1, <3>2, <3>3
  <2> QED BY <2>1, <2>2, <1>6, <1>7 DEF Within
<1>11. CASE Adds(s)
  <2>1. pc[s] \in Within /\ (Raises(s) \/ (Goes(s, "running") /\ UNCHANGED recursion))
    BY <1>11 DEF Adds, Proceeds, Within
  <2> QED BY <2>1, <1>6, <1>7 DEF Within
<1>12. CASE MakesPath(s)
  <2>1. pc[s] \in Within /\ (Raises(s) \/ (Goes(s, "making") /\ UNCHANGED recursion))
    BY <1>12 DEF MakesPath, Does, Within
  <2> QED BY <2>1, <1>6, <1>7 DEF Within
<1>13. CASE SavesBook(s)
  <2>1. pc[s] \in Within /\ (Raises(s) \/ (Goes(s, "running") /\ UNCHANGED recursion))
    BY <1>13 DEF SavesBook, Proceeds, Within
  <2> QED BY <2>1, <1>6, <1>7 DEF Within
<1> QED
  BY <1>1, <1>2, <1>3, <1>4, <1>5, <1>8, <1>9, <1>10, <1>11, <1>12, <1>13 DEF Database, Script

LEMMA LimitInit ==
  ASSUME Init
  PROVE  LimitInv
BY DEF Init, LimitInv, EntriesOK, StackOK, Places, Within

(* Scripts run under DEFAULT_RECURSION_LIMIT and leave the interpreter with  *)
(* the limit it had, whatever runs side by side, as long as RecursionLimit-  *)
(* Context.__exit__ is called in the reverse order of __enter__.             *)
THEOREM LimitRestoredAlways == Spec => []LimitRestored
<1>1. Init => LimitInv
  BY LimitInit
<1>2. LimitInv /\ [Next]_vars => LimitInv'
  <2> SUFFICES ASSUME LimitInv, [Next]_vars
               PROVE  LimitInv'
    OBVIOUS
  <2>1. CASE UNCHANGED vars
    BY <2>1 DEF vars, recursion, LimitInv, EntriesOK, StackOK
  <2>2. CASE PostAction
    BY <2>2 DEF PostAction, CloseBegins, ClosesPool, RemovesFiles, ForgetsBase, recursion,
                LimitInv, EntriesOK, StackOK
  <2>3. CASE \E s \in Steps : Database(s) \/ Script(s)
    BY <2>3, StepLimit
  <2> QED BY <2>1, <2>2, <2>3 DEF Next, Steps
<1>3. LimitInv => LimitRestored
  BY DEF LimitInv, StackOK, LimitRestored
<1> QED BY <1>1, <1>2, <1>3, PTL DEF Spec

-----------------------------------------------------------------------------
(* The pools.                                                                *)

(* A step that makes no pool, and does not begin to make one.                *)
LEMMA PoolsKept ==
  ASSUME PoolsInv, NEW s \in group \cap Steps, pc[s] \notin Over,
         NEW place \in Places \ {"start", "creating"}, Goes(s, place),
         UNCHANGED <<group, pools, order, open, rivals, closer>>
  PROVE  PoolsInv'
<1>1. /\ pc' \in [Steps -> Places] /\ pc'[s] = place
      /\ \A t \in Steps \ {s} : pc'[t] = pc[t]
  BY PlacesOf DEF PoolsInv, StepsTypeOK
<1>2. StepsTypeOK'
  BY <1>1 DEF PoolsInv, StepsTypeOK
<1>3. PoolsTypeOK' /\ ClosingInv'
  BY DEF PoolsInv, PoolsTypeOK, ClosingInv, ToClose
<1>4. \A t \in Queries : Creating(t)' => Creating(t)
  BY <1>1 DEF Creating, Steps
<1>5. RivalsInv'
  BY <1>1, <1>4 DEF PoolsInv, PoolsTypeOK, RivalsInv, Steps
<1> QED BY <1>2, <1>3, <1>5 DEF PoolsInv

LEMMA AsksPools ==
  ASSUME PoolsInv, NEW s \in group \cap Queries, Asks(s)
  PROVE  PoolsInv'
<1>1. /\ s \in group \cap Steps /\ pc[s] = "start" /\ pc[s] \notin Over
      /\ UNCHANGED <<group, pools, order, open, closer>>
  BY DEF Asks, Steps, Over
<1>2. CASE Config(s) = NoKey \/ Pooled(Config(s))
  <2>1. UNCHANGED rivals /\ \E place \in {"failed", "executing"} : Goes(s, place)
    BY <1>2 DEF Asks
  <2> QED BY <1>1, <2>1, PoolsKept DEF Places
<1>3. CASE ~(Config(s) = NoKey \/ Pooled(Config(s)))
  <2> DEFINE others == {t \in group \cap Queries : pc[t] = "creating" /\ Config(t) = Config(s)}
  <2>1. /\ Goes(s, "creating")
        /\ rivals' = IF others = {} THEN rivals ELSE rivals \cup others \cup {s}
    BY <1>3 DEF Asks
  <2>2. /\ pc' \in [Steps -> Places] /\ pc'[s] = "creating"
        /\ \A t \in Steps \ {s} : pc'[t] = pc[t]
    BY <1>1, <2>1, PlacesOf DEF PoolsInv, StepsTypeOK, Places
  <2>3. rivals \subseteq rivals'
    BY <2>1
  <2>4. StepsTypeOK' /\ PoolsTypeOK' /\ ClosingInv'
    <3>1. StepsTypeOK'
      BY <1>1, <2>2 DEF PoolsInv, StepsTypeOK
    <3>2. PoolsTypeOK'
      BY <1>1 DEF PoolsInv, PoolsTypeOK
    <3>3. ClosingInv'
      BY <1>1, <2>3 DEF PoolsInv, ClosingInv, ToClose
    <3> QED BY <3>1, <3>2, <3>3
  <2>5. \A t \in Queries \ {s} : Creating(t)' => Creating(t)
    BY <1>1, <2>2 DEF Creating, Steps
  <2>6. \A t \in Queries \ {s} : Creating(t) /\ Config(t) = Config(s) => {s, t} \subseteq rivals'
    BY <2>1 DEF Creating
  <2>7. open \subseteq Queries /\ s \notin open /\ "None" \notin Queries
    BY <1>1, NamesAssumption DEF PoolsInv, PoolsTypeOK, RivalsInv
  <2>8. \A t \in open : Config(t) = Config(s) => t \in rivals
    BY <1>3, <2>7 DEF PoolsInv, RivalsInv, Pooled
  <2>9. RivalsInv'
    <3>1. \A t \in open : pc'[t] \notin {"start", "creating"}
      BY <2>2, <2>7 DEF PoolsInv, RivalsInv, Steps
    <3>2. \A t \in open \ rivals' : Config(t) \in DOMAIN pools /\ pools[Config(t)] = t
      BY <2>3 DEF PoolsInv, RivalsInv
    <3>3. \A t, u \in Queries :
            Creating(t)' /\ Creating(u)' /\ t # u /\ Config(t) = Config(u) => t \in rivals'
      BY <2>3, <2>5, <2>6 DEF PoolsInv, RivalsInv
    <3>4. \A t \in open : \A u \in Queries :
            Creating(u)' /\ t # u /\ Config(t) = Config(u) => t \in rivals'
      BY <2>3, <2>5, <2>7, <2>8 DEF PoolsInv, RivalsInv
    <3> QED BY <1>1, <3>1, <3>2, <3>3, <3>4 DEF RivalsInv
  <2> QED BY <2>4, <2>9 DEF PoolsInv
<1> QED BY <1>2, <1>3

(* The pool that is stored is the step's own; a rival's is replaced.         *)
LEMMA StoresPools ==
  ASSUME PoolsInv, NEW s \in group \cap Queries, Stores(s)
  PROVE  PoolsInv'
<1> DEFINE key == Config(s)
           pool == IF KindOf[s] \in {"pgsql", "mysql"} THEN s ELSE "None"
<1>1. /\ s \in Steps /\ Creating(s) /\ pool \in {s, "None"} /\ "None" \notin Queries
      /\ closer.at # "waiting" => s \in Orphans
  BY NamesAssumption DEF Stores, Creating, Steps, PoolsInv, StepsTypeOK, Over
<1>2. /\ DOMAIN pools' = DOMAIN pools \cup {key} /\ pools'[key] = pool
      /\ \A k \in DOMAIN pools \ {key} : pools'[k] = pools[k]
      /\ order' = IF key \in DOMAIN pools THEN order ELSE Append(order, key)
      /\ open' = IF pool = s THEN open \cup {s} ELSE open
      /\ UNCHANGED <<group, rivals, closer>>
      /\ pools' = [k \in DOMAIN pools \cup {key} |-> IF k = key THEN pool ELSE pools[k]]
  BY DEF Stores
<1>3. /\ pc' \in [Steps -> Places] /\ pc'[s] \in {"executing", "failed"}
      /\ \A t \in Steps \ {s} : pc'[t] = pc[t]
  <2>1. \E place \in {"executing", "failed"} : Goes(s, place)
    BY DEF Stores
  <2> QED BY <1>1, <2>1, PlacesOf DEF PoolsInv, StepsTypeOK, Places
<1>4. /\ open \subseteq Queries /\ s \notin open
      /\ \A t \in open : Config(t) = key => t \in rivals
  <2>1. open \subseteq Queries /\ s \notin open
    BY <1>1 DEF PoolsInv, PoolsTypeOK, RivalsInv, Creating
  <2> QED BY <1>1, <2>1 DEF PoolsInv, RivalsInv
<1> HIDE DEF key, pool
<1>5. StepsTypeOK'
  BY <1>1, <1>2, <1>3 DEF PoolsInv, StepsTypeOK
<1>6. /\ order \in Seq(DOMAIN pools) /\ Len(order) \in Nat
      /\ \A i \in 1..Len(order) : order[i] \in DOMAIN pools
      /\ \A k \in DOMAIN pools : \E i \in 1..Len(order) : order[i] = k
  BY DEF PoolsInv, PoolsTypeOK
<1>7. /\ order' \in Seq(DOMAIN pools')
      /\ \A k \in DOMAIN pools' : \E i \in 1..Len(order') : order'[i] = k
      /\ key \in DOMAIN pools => order' = order
      /\ key \notin DOMAIN pools => Len(order') = Len(order) + 1
  <2>1. CASE key \in DOMAIN pools
    BY <1>2, <1>6, <2>1
  <2>2. CASE key \notin DOMAIN pools
    <3>1. /\ order' = Append(order, key) /\ key \in DOMAIN pools'
          /\ order \in Seq(DOMAIN pools')
      BY <1>2, <1>6, <2>2
    <3>2. /\ order' \in Seq(DOMAIN pools') /\ Len(order') = Len(order) + 1
          /\ order'[Len(order) + 1] = key
          /\ \A i \in 1..Len(order) : order'[i] = order[i]
      BY <1>6, <3>1
    <3>3. \A k \in DOMAIN pools' : \E i \in 1..Len(order') : order'[i] = k
      <4> SUFFICES ASSUME NEW k \in DOMAIN pools'
                   PROVE  \E i \in 1..Len(order') : order'[i] = k
        OBVIOUS
      <4>1. CASE k = key
        <5>1. Len(order) + 1 \in 1..Len(order')
          BY <1>6, <3>2
        <5> QED BY <3>2, <4>1, <5>1
      <4>2. CASE k # key
        <5>1. PICK i \in 1..Len(order) : order[i] = k
          BY <1>2, <1>6, <4>2
        <5>2. i \in 1..Len(order')
          BY <1>6, <3>2
        <5>3. order'[i] = k
          BY <3>2, <5>1
        <5> QED BY <5>2, <5>3
      <4> QED BY <4>1, <4>2
    <3> QED BY <2>2, <3>2, <3>3
  <2> QED BY <2>1, <2>2
<1>8. PoolsTypeOK'
  <2>1. pools' \in [DOMAIN pools' -> Queries \cup {"None"}]
    BY <1>1, <1>2 DEF PoolsInv, PoolsTypeOK
  <2>2. open' \subseteq Queries
    BY <1>2, <1>4
  <2>3. \A k \in DOMAIN pools' : pools'[k] # "None" => Config(pools'[k]) = k
    <3>1. Config(s) = key
      BY DEF key
    <3> QED BY <1>1, <1>2, <3>1 DEF PoolsInv, PoolsTypeOK
  <2> QED BY <1>7, <2>1, <2>2, <2>3 DEF PoolsTypeOK
<1>9. \A t \in Queries : Creating(t)' => Creating(t) /\ t # s
  BY <1>2, <1>3 DEF Creating, Steps
<1>10. RivalsInv'
  <2>1. \A t \in open' : pc'[t] \notin {"start", "creating"}
    BY <1>2, <1>3, <1>4 DEF PoolsInv, RivalsInv, Steps
  <2>2. \A t \in open' \ rivals' : Config(t) \in DOMAIN pools' /\ pools'[Config(t)] = t
    <3>1. Config(s) = key
      BY DEF key
    <3> QED BY <1>2, <1>4, <3>1 DEF PoolsInv, RivalsInv
  <2>3. \A t, u \in Queries :
          Creating(t)' /\ Creating(u)' /\ t # u /\ Config(t) = Config(u) => t \in rivals'
    BY <1>2, <1>9 DEF PoolsInv, RivalsInv
  <2>4. \A t \in open' : \A u \in Queries :
          Creating(u)' /\ t # u /\ Config(t) = Config(u) => t \in rivals'
    BY <1>1, <1>2, <1>9 DEF PoolsInv, RivalsInv
  <2> QED BY <2>1, <2>2, <2>3, <2>4 DEF RivalsInv
<1>11. ClosingInv'
  <2>1. open' \subseteq open \cup {s}
    BY <1>2
  <2>2. CASE closer.at = "pools"
    <3>1. closer.next \in Nat \ {0} /\ closer.size <= Len(order) /\ closer.size \in Nat
      BY <2>2 DEF PoolsInv, ClosingInv, StepsTypeOK
    <3>2. CASE key \notin DOMAIN pools
      BY <1>2, <1>6, <1>7, <2>2, <3>1, <3>2 DEF ClosingInv
    <3>3. CASE key \in DOMAIN pools
      <4> SUFFICES ASSUME Len(order) = closer.size, NEW t \in open'
                   PROVE  t \in rivals \cup Orphans \/ ToClose(t)'
        BY <1>2, <1>7, <2>2, <3>1, <3>3 DEF ClosingInv
      <4>1. CASE t = s
        BY <1>1, <2>2, <4>1
      <4>2. CASE t # s /\ t \notin rivals \cup Orphans
        <5>1. t \in open /\ ToClose(t)
          BY <2>1, <2>2, <4>2 DEF PoolsInv, ClosingInv
        <5>2. PICK i \in closer.next..Len(order) : pools[order[i]] = t
          BY <5>1 DEF ToClose
        <5>3. order[i] \in DOMAIN pools
          BY <1>6, <3>1, <5>2
        <5>4. Config(t) = order[i]
          BY <1>1, <1>4, <5>1, <5>2, <5>3 DEF PoolsInv, PoolsTypeOK
        <5>5. order[i] # key
          BY <1>4, <4>2, <5>1, <5>4
        <5>6. pools'[order[i]] = t
          BY <1>2, <5>2, <5>3, <5>5
        <5> QED BY <1>2, <1>7, <3>3, <5>2, <5>6 DEF ToClose
      <4> QED BY <4>1, <4>2
    <3> QED BY <3>2, <3>3
  <2>3. CASE closer.at \in {"files", "removed", "closed"}
    BY <1>1, <1>2, <2>1, <2>3 DEF PoolsInv, ClosingInv
  <2>4. CASE closer.at \notin {"pools", "files", "removed", "closed"}
    BY <1>2, <2>4 DEF ClosingInv
  <2> QED BY <2>2, <2>3, <2>4
<1> QED BY <1>5, <1>8, <1>10, <1>11 DEF PoolsInv

(* The closings: between two pools the loop has not come to, every open one  *)
(* is one it will come to, a rival's or an orphan's.                         *)
LEMMA ClosingPools ==
  ASSUME PoolsInv, PostAction
  PROVE  PoolsInv'
<1>1. UNCHANGED <<group, pc, pools, order, rivals>>
  BY DEF PostAction, CloseBegins, ClosesPool, RemovesFiles, ForgetsBase, database
<1>2. /\ Len(order) \in Nat
      /\ closer \in [at : {"waiting", "pools", "files", "removed", "closed", "failed"},
                     next : Nat, size : Nat]
      /\ open \subseteq Queries /\ "None" \notin Queries
  BY NamesAssumption DEF PoolsInv, PoolsTypeOK, StepsTypeOK
<1>3. ASSUME open' \subseteq open, ClosingInv', StepsTypeOK'
      PROVE  PoolsInv'
  <2>1. PoolsTypeOK'
    BY <1>1, <1>3 DEF PoolsInv, PoolsTypeOK
  <2>2. RivalsInv'
    BY <1>1, <1>3 DEF PoolsInv, RivalsInv, Creating
  <2> QED BY <1>3, <2>1, <2>2 DEF PoolsInv
<1>4. CASE CloseBegins
  <2>1. closer' = [at |-> "pools", next |-> 1, size |-> Len(order)] /\ open' = open
    BY <1>4 DEF CloseBegins, database
  <2>2. StepsTypeOK'
    BY <1>1, <1>2, <1>4, <2>1 DEF CloseBegins, PoolsInv, StepsTypeOK
  <2>3. \A s \in open \ rivals : ToClose(s)'
    BY <1>1, <1>2, <2>1 DEF PoolsInv, PoolsTypeOK, RivalsInv, ToClose
  <2>4. ClosingInv'
    BY <1>1, <1>2, <2>1, <2>3 DEF ClosingInv
  <2> QED BY <1>3, <2>1, <2>2, <2>4
<1>5. ASSUME closer.at # "waiting", NEW at \in {"pools", "files", "removed", "closed", "failed"},
             NEW i \in Nat, Closing(at, i)
      PROVE  StepsTypeOK' /\ closer'.at = at /\ closer'.next = i /\ closer'.size = closer.size
  BY <1>1, <1>2, <1>5 DEF Closing, PoolsInv, StepsTypeOK
<1>6. CASE ClosesPool
  <2> DEFINE pool == pools[order[closer.next]]
  <2>1. /\ closer.at = "pools" /\ closer.next \in Nat \ {0}
        /\ Len(order) = closer.size => \A s \in open : s \in rivals \cup Orphans \/ ToClose(s)
    BY <1>2, <1>6 DEF ClosesPool, PoolsInv, ClosingInv
  <2>2. \A s \in open :
          ToClose(s) /\ s # pool => \E j \in (closer.next + 1)..Len(order) : pools[order[j]] = s
    BY <1>2, <2>1 DEF ToClose
  <2>3. CASE Closing("failed", 0) /\ UNCHANGED open
    <3>1. StepsTypeOK' /\ closer'.at = "failed"
      BY <1>5, <2>1, <2>3
    <3> QED BY <1>3, <2>3, <3>1 DEF ClosingInv
  <2>4. CASE /\ Len(order) = closer.size /\ closer.next > Len(order)
             /\ Closing("files", 0) /\ UNCHANGED open
    <3>1. StepsTypeOK' /\ closer'.at = "files"
      BY <1>5, <2>1, <2>4
    <3>2. open \subseteq rivals \cup Orphans
      BY <1>2, <2>1, <2>4 DEF ToClose
    <3> QED BY <1>1, <1>3, <2>4, <3>1, <3>2 DEF ClosingInv
  <2>5. CASE /\ Len(order) = closer.size /\ Closing("pools", closer.next + 1)
             /\ open' = open \ {pool}
    <3>1. StepsTypeOK' /\ closer'.at = "pools" /\ closer'.next = closer.next + 1
          /\ closer'.size = closer.size
      BY <1>5, <2>1, <2>5
    <3>2. \A s \in open' : s \in rivals \cup Orphans \/ ToClose(s)'
      BY <1>1, <2>1, <2>2, <2>5, <3>1 DEF ToClose
    <3>3. ClosingInv'
      BY <1>1, <1>2, <2>1, <2>5, <3>1, <3>2 DEF ClosingInv
    <3> QED BY <1>3, <2>5, <3>1, <3>3
  <2>6. \/ Closing("failed", 0) /\ UNCHANGED open
        \/ /\ Len(order) = closer.size /\ closer.next > Len(order)
           /\ Closing("files", 0) /\ UNCHANGED open
        \/ /\ Len(order) = closer.size /\ Closing("pools", closer.next + 1)
           /\ open' = open \ {pool}
    <3> HIDE DEF Closing
    <3>1. CASE Len(order) # closer.size
      BY <1>6, <3>1 DEF ClosesPool
    <3>2. CASE Len(order) = closer.size /\ closer.next > Len(order)
      BY <1>2, <1>6, <3>2 DEF ClosesPool
    <3>3. CASE Len(order) = closer.size /\ closer.next <= Len(order) /\ pool = "None"
      BY <1>2, <1>6, <3>3 DEF ClosesPool
    <3>4. CASE Len(order) = closer.size /\ closer.next <= Len(order) /\ pool # "None"
      BY <1>2, <1>6, <3>4 DEF ClosesPool
    <3> QED BY <1>2, <3>1, <3>2, <3>3, <3>4
  <2> QED BY <2>3, <2>4, <2>5, <2>6
<1>7. CASE RemovesFiles \/ ForgetsBase
  <2>1. /\ closer.at \in {"files", "removed"} /\ open' = open
        /\ \E at \in {"removed", "closed"} : Closing(at, 0)
    BY <1>7 DEF RemovesFiles, ForgetsBase, database
  <2>2. StepsTypeOK' /\ closer'.at \in {"removed", "closed"}
    BY <1>5, <2>1
  <2>3. ClosingInv'
    BY <1>1, <2>1, <2>2 DEF PoolsInv, ClosingInv
  <2> QED BY <1>3, <2>1, <2>2, <2>3
<1> QED BY <1>4, <1>6, <1>7 DEF PostAction

(* No other action of a step makes a pool.                                   *)
LEMMA StepPools ==
  ASSUME PoolsInv, NEW s \in group \cap Steps,
         \/ s \in Queries /\ Database(s)
         \/ Script(s)
  PROVE  PoolsInv'
<1>1. CASE s \in Queries /\ Asks(s)
  BY <1>1, AsksPools
<1>2. CASE s \in Queries /\ Stores(s)
  BY <1>2, StoresPools
<1> DEFINE Others == Executes(s) \/ ConnectFails(s) \/ Script(s)
<1>3. CASE Others
  <2>1. pc[s] \notin Over
    BY <1>3 DEF Executes, ConnectFails, Script, Enters, Returns, Loads, Read, Saves, Adds,
                MakesPath, SavesBook, Does, Over
  <2>2. UNCHANGED <<group, pools, order, open, rivals, closer>>
    BY <1>3 DEF Executes, ConnectFails, Script, Enters, Returns, Loads, Read, Saves, Adds,
                MakesPath, SavesBook, Proceeds, Raises, database
  <2>3. \E place \in Places \ {"start", "creating"} : Goes(s, place)
    BY <1>3 DEF Executes, ConnectFails, Script, Enters, Returns, Loads, Read, Saves, Adds,
                MakesPath, SavesBook, Proceeds, Raises, Leaves, Places
  <2> QED BY <2>1, <2>2, <2>3, PoolsKept
<1> QED BY <1>1, <1>2, <1>3 DEF Database

LEMMA PoolsInit ==
  ASSUME Init
  PROVE  PoolsInv
<1>1. /\ pc = [s \in Steps |-> IF s \in group THEN "start" ELSE "done"]
      /\ pools = [k \in {} |-> "None"] /\ order = <<>> /\ open = {} /\ rivals = {}
      /\ closer = [at |-> "waiting", next |-> 0, size |-> 0]
  BY DEF Init
<1>2. StepsTypeOK
  BY <1>1 DEF StepsTypeOK, Places
<1>3. PoolsTypeOK
  BY <1>1 DEF PoolsTypeOK
<1>4. RivalsInv /\ ClosingInv
  BY <1>1 DEF RivalsInv, ClosingInv, Creating, Steps
<1> QED BY <1>2, <1>3, <1>4 DEF PoolsInv

(* DatabaseController knows every open pool, except those of steps that      *)
(* found none at the same time; and what its close leaves open are those and *)
(* the pools of orphaned steps.                                              *)
THEOREM PoolsAccountedAlways == Spec => []PoolsAccounted
<1>1. Init => PoolsInv
  BY PoolsInit
<1>2. PoolsInv /\ [Next]_vars => PoolsInv'
  <2> SUFFICES ASSUME PoolsInv, [Next]_vars
               PROVE  PoolsInv'
    OBVIOUS
  <2>1. CASE UNCHANGED vars
    <3>1. UNCHANGED <<group, pc, pools, order, open, rivals, closer>>
      BY <2>1 DEF vars, database
    <3> QED BY <3>1 DEF PoolsInv, StepsTypeOK, PoolsTypeOK, RivalsInv, ClosingInv, ToClose, Creating
  <2>2. CASE PostAction
    BY <2>2, ClosingPools
  <2>3. CASE \E s \in group \cap Queries : Database(s)
    <3>1. PICK s \in group \cap Queries : Database(s)
      BY <2>3
    <3>2. s \in group \cap Steps /\ s \in Queries
      BY DEF Steps
    <3> QED BY <3>1, <3>2, StepPools
  <2>4. CASE \E s \in group \cap Scripts : Script(s)
    <3>1. PICK s \in group \cap Scripts : Script(s)
      BY <2>4
    <3>2. s \in group \cap Steps /\ s \in Scripts
      BY DEF Steps
    <3> QED BY <3>1, <3>2, StepPools
  <2> QED BY <2>1, <2>2, <2>3, <2>4 DEF Next
<1>3. PoolsInv => PoolsAccounted
  BY DEF PoolsInv, RivalsInv, ClosingInv, PoolsAccounted, Range
<1> QED BY <1>1, <1>2, <1>3, PTL DEF Spec

-----------------------------------------------------------------------------
(* The files.                                                                *)

(* The next temporary file of a script is none that any object is in.        *)
LEMMA FreshIsNew ==
  ASSUME FilesTypeOK, NEW s \in Scripts
  PROVE  /\ Fresh(s) \in TempPaths /\ Fresh(s) \notin SystemPaths /\ Len(program[s]) \in Nat
         /\ \A t \in Scripts : \A path : Earlier(t, path) => path # Fresh(s)
         /\ \A t \in Scripts \ {s} : Fresh(t) # Fresh(s)
<1>1. Len(program[s]) \in Nat
  BY DEF FilesTypeOK
<1>2. Fresh(s) \in TempPaths /\ Fresh(s) \notin SystemPaths
  BY <1>1 DEF Fresh, TempPaths, SystemPaths
<1>3. ASSUME NEW t \in Scripts, NEW path, Earlier(t, path)
      PROVE  path # Fresh(s)
  <2>1. CASE path \in SystemPaths
    BY <1>2, <2>1
  <2>2. CASE path \in {"temp"} \X {t} \X Nat /\ path[3] > Len(program[t])
    <3>1. path[2] = t
      BY <2>2
    <3>2. Fresh(s)[2] = s /\ Fresh(s)[3] = Len(program[s])
      BY DEF Fresh
    <3> QED BY <1>1, <2>2, <3>1, <3>2
  <2> QED BY <1>3, <2>1, <2>2 DEF Earlier
<1>4. \A t \in Scripts \ {s} : Fresh(t) # Fresh(s)
  BY DEF Fresh
<1> QED BY <1>1, <1>2, <1>3, <1>4

LEMMA OpOf ==
  ASSUME FilesTypeOK, NEW s \in Scripts, program[s] # <<>>
  PROVE  1 \in DOMAIN program[s] /\ Op(s) = program[s][1] /\ Op(s) \in Operations
<1>1. program[s] \in Seq(Operations)
  BY DEF FilesTypeOK
<1> QED BY <1>1 DEF Op

LEMMA ProgramAdvances ==
  ASSUME FilesTypeOK, ProgramsOK, NEW s \in Scripts, program[s] # <<>>, Advances(s),
         UNCHANGED group
  PROVE  /\ program' \in [Scripts -> Seq(Operations)] /\ ProgramsOK'
         /\ Len(program[s]) \in Nat /\ Len(program'[s]) = Len(program[s]) - 1
         /\ \A t \in Scripts \ {s} : program'[t] = program[t]
<1>1. /\ program \in [Scripts -> Seq(Operations)] /\ program[s] \in Seq(Operations)
      /\ Len(program[s]) \in Nat \ {0}
  BY DEF FilesTypeOK
<1>2. program' = [program EXCEPT ![s] = Tail(program[s])]
  BY DEF Advances
<1>3. /\ program'[s] \in Seq(Operations) /\ Len(program'[s]) = Len(program[s]) - 1
      /\ \A i \in 1..(Len(program[s]) - 1) : program'[s][i] = program[s][i + 1]
  BY <1>1, <1>2
<1>4. \A t \in Scripts \ {s} : program'[t] = program[t]
  BY <1>1, <1>2
<1>5. \A i \in DOMAIN program'[s] : \E j \in DOMAIN program[s] : program'[s][i] = program[s][j]
  <2> SUFFICES ASSUME NEW i \in DOMAIN program'[s]
               PROVE  \E j \in DOMAIN program[s] : program'[s][i] = program[s][j]
    OBVIOUS
  <2>1. i \in 1..(Len(program[s]) - 1) /\ DOMAIN program[s] = 1..Len(program[s])
    BY <1>1, <1>3
  <2>2. program'[s][i] = program[s][i + 1]
    BY <1>3, <2>1
  <2>3. i + 1 \in 1..Len(program[s])
    BY <1>1, <2>1
  <2> QED BY <2>1, <2>2, <2>3
<1>6. ProgramsOK'
  <2> SUFFICES ASSUME NEW t \in group \cap Scripts
               PROVE  \E p \in Programs[t] : \A i \in DOMAIN program'[t] :
                        \E j \in DOMAIN p : program'[t][i] = p[j]
    BY DEF ProgramsOK
  <2>1. PICK p \in Programs[t] :
          \A i \in DOMAIN program[t] : \E j \in DOMAIN p : program[t][i] = p[j]
    BY DEF ProgramsOK
  <2>2. \A i \in DOMAIN program'[t] : \E j \in DOMAIN program[t] : program'[t][i] = program[t][j]
    BY <1>4, <1>5
  <2>3. \A i \in DOMAIN program'[t] : \E j \in DOMAIN p : program'[t][i] = p[j]
    BY <2>1, <2>2
  <2> QED BY <2>3
<1> QED BY <1>1, <1>2, <1>3, <1>4, <1>6

(* What a step does not touch of a script's stays right.                     *)
LEMMA Untouched ==
  ASSUME NEW t \in Scripts, ObjectOK(t), pc'[t] = pc[t], program'[t] = program[t],
         object'[t] = object[t], t \in given' <=> t \in given, Kept' => Kept,
         \A path : Kept' /\ Earlier(t, path) /\ OnDisk(path) => OnDisk(path)',
         Kept' /\ Fresh(t) \in DOMAIN disk => Fresh(t) \in DOMAIN disk'
  PROVE  ObjectOK(t)'
<1>1. /\ Binding(t)' <=> Binding(t)
      /\ \A path : Earlier(t, path)' <=> Earlier(t, path)
      /\ Held(t)' <=> Held(t)
      /\ Fresh(t)' = Fresh(t) /\ Op(t)' = Op(t)
  BY DEF Binding, Earlier, Held, Fresh, Op
<1>2. Held(t)' /\ ~Binding(t)' =>
        Earlier(t, object[t].path)' /\ (Kept' => OnDisk(object[t].path)')
  BY <1>1 DEF ObjectOK
<1> QED BY <1>1, <1>2 DEF ObjectOK

(* A step that leaves the files alone, and does not go on from a path it has *)
(* bound the object to.                                                      *)
LEMMA FilesKept ==
  ASSUME FilesInv, NEW s \in Steps, pc[s] \notin Over,
         NEW place \in Places \ {"reading", "writing", "making"}, Goes(s, place),
         pc[s] = "making" => place = "failed",
         UNCHANGED <<group, program, files, closer>>
  PROVE  FilesInv'
<1>1. /\ pc' \in [Steps -> Places] /\ pc'[s] = place
      /\ \A t \in Steps \ {s} : pc'[t] = pc[t]
      /\ UNCHANGED <<object, given, disk, torn>>
  BY PlacesOf DEF FilesInv, FilesTypeOK, files
<1>2. FilesTypeOK' /\ ProgramsOK' /\ TornOK'
  <2>1. FilesTypeOK'
    BY <1>1 DEF FilesInv, FilesTypeOK
  <2>2. ProgramsOK'
    BY DEF FilesInv, ProgramsOK
  <2>3. TornOK'
    BY <1>1 DEF FilesInv, TornOK
  <2> QED BY <2>1, <2>2, <2>3
<1>3. \A path : OnDisk(path)' <=> OnDisk(path)
  BY <1>1 DEF OnDisk
<1>4. ASSUME NEW t \in Scripts
      PROVE  ObjectOK(t)'
  <2>1. ObjectOK(t) /\ t \in Steps
    BY DEF FilesInv, ObjectsOK, Steps
  <2>2. CASE t # s
    <3>1. pc'[t] = pc[t] /\ program'[t] = program[t] /\ object'[t] = object[t]
          /\ (t \in given' <=> t \in given) /\ (Kept' <=> Kept) /\ disk' = disk
      BY <1>1, <2>1, <2>2 DEF Kept
    <3> QED BY <1>3, <2>1, <3>1, Untouched
  <2>3. CASE t = s
    <3>1. Binding(t) => Binding(t)'
      BY <1>1, <2>3 DEF Binding, Over, Op
    <3>2. /\ \A path : Earlier(t, path)' <=> Earlier(t, path)
          /\ Held(t)' <=> Held(t)
          /\ Kept' <=> Kept
      BY <1>1 DEF Earlier, Held, Kept
    <3>3. Held(t)' /\ ~Binding(t)' =>
            Earlier(t, object[t].path)' /\ (Kept' => OnDisk(object[t].path)')
      BY <1>1, <1>3, <2>1, <3>1, <3>2 DEF ObjectOK
    <3>4. pc'[t] \notin {"reading", "writing", "making"}
      BY <1>1, <2>3
    <3> QED BY <3>3, <3>4 DEF ObjectOK
  <2> QED BY <2>2, <2>3
<1>5. ObjectsOK'
  BY <1>3, <1>4 DEF FilesInv, ObjectsOK
<1> QED BY <1>2, <1>5 DEF FilesInv

(* A step of a script changes its own object, and no file on the disk but    *)
(* the temporary one it makes.                                               *)
LEMMA FilesStep ==
  ASSUME FilesInv, NEW s \in group \cap Scripts, FilesTypeOK', ProgramsOK', TornOK',
         UNCHANGED closer, ObjectOK(s)',
         \A t \in Scripts \ {s} :
           /\ pc'[t] = pc[t] /\ program'[t] = program[t] /\ object'[t] = object[t]
           /\ t \in given' <=> t \in given,
         \A path : path # Fresh(s) /\ path \in DOMAIN disk =>
                     path \in DOMAIN disk' /\ (disk[path] = "complete" => disk'[path] = "complete")
  PROVE  FilesInv'
<1>1. /\ \A path \in SystemPaths : path # Fresh(s)
      /\ \A t \in Scripts : \A path : Earlier(t, path) => path # Fresh(s)
      /\ \A t \in Scripts \ {s} : Fresh(t) # Fresh(s)
  BY FreshIsNew DEF FilesInv
<1>2. \A path : path # Fresh(s) /\ OnDisk(path) => OnDisk(path)'
  BY DEF OnDisk
<1>3. ASSUME NEW t \in Scripts \ {s}
      PROVE  ObjectOK(t)'
  <2>1. ObjectOK(t) /\ (Kept' <=> Kept)
    BY DEF FilesInv, ObjectsOK, Kept
  <2>2. \A path : Kept' /\ Earlier(t, path) /\ OnDisk(path) => OnDisk(path)'
    BY <1>1, <1>2
  <2>3. Kept' /\ Fresh(t) \in DOMAIN disk => Fresh(t) \in DOMAIN disk'
    BY <1>1
  <2> QED BY <2>1, <2>2, <2>3, Untouched
<1>4. ObjectsOK'
  BY <1>1, <1>2, <1>3 DEF FilesInv, ObjectsOK
<1> QED BY <1>4 DEF FilesInv

(* The path a name is found at is a system file's.                           *)
LEMMA FoundIsSystem ==
  ASSUME FilesTypeOK, NEW name, Found(name) \in DOMAIN disk
  PROVE  Found(name) \in SystemPaths
<1>1. Found(name) \in Paths /\ NoPath \notin Paths
  BY NamesAssumption DEF FilesTypeOK, Paths, SystemPaths, TempPaths
<1>2. PICK file : Found(name) = <<"system", file>>
  BY <1>1 DEF Found
<1>3. \A path \in TempPaths : path[1] = "temp"
  BY DEF TempPaths
<1>4. <<"system", file>>[1] = "system" /\ "system" # "temp"
  OBVIOUS
<1>5. Found(name) \notin TempPaths
  BY <1>2, <1>3, <1>4
<1> QED BY <1>1, <1>5 DEF Paths

LEMMA LoadsFiles ==
  ASSUME FilesInv, NEW s \in group \cap Scripts, Loads(s)
  PROVE  FilesInv'
<1> DEFINE path == Found(Op(s).name)
           loaded == [path |-> path, system |-> TRUE, cover |-> Op(s).cover, content |-> "none"]
<1>1. s \in Steps /\ pc[s] = "running" /\ program[s] # <<>> /\ Op(s).do = "load"
  BY DEF Loads, Does, Steps
<1>2. CASE Raises(s) /\ UNCHANGED files
  BY <1>1, <1>2, FilesKept DEF Raises, Leaves, Over, Places
<1>3. CASE /\ path \in DOMAIN disk /\ object' = [object EXCEPT ![s] = loaded]
           /\ Proceeds(s, "reading") /\ UNCHANGED <<given, disk, torn>>
  <2>1. /\ pc' \in [Steps -> Places] /\ pc'[s] = "reading"
        /\ \A t \in Steps \ {s} : pc'[t] = pc[t]
    BY <1>1, <1>3, PlacesOf DEF Proceeds, Places, FilesInv, FilesTypeOK
  <2>2. /\ program' \in [Scripts -> Seq(Operations)] /\ ProgramsOK'
        /\ \A t \in Scripts \ {s} : program'[t] = program[t]
    BY <1>1, <1>3, ProgramAdvances DEF Proceeds, FilesInv
  <2>3. path \in SystemPaths
    BY <1>3, FoundIsSystem DEF FilesInv
  <2>4. Op(s) \in Operations
    BY <1>1 DEF Op, FilesInv, FilesTypeOK
  <2>5. Op(s).cover \in BOOLEAN
    BY <1>1, <2>4 DEF Operations
  <2>6. /\ loaded \in Objects
        /\ loaded.path = path /\ loaded.content = "none"
    BY <2>3, <2>5 DEF Paths, Objects
  <2> HIDE DEF loaded, path
  <2>7. /\ object'[s] = loaded /\ \A t \in Scripts \ {s} : object'[t] = object[t]
        /\ object' \in [Scripts -> Objects]
    BY <1>3, <2>6 DEF FilesInv, FilesTypeOK
  <2>8. UNCHANGED <<group, closer, given, disk, torn>>
    BY <1>3 DEF Proceeds
  <2>9. FilesTypeOK'
    BY <2>1, <2>2, <2>7, <2>8 DEF FilesInv, FilesTypeOK
  <2>10. TornOK'
    BY <2>6, <2>7, <2>8 DEF FilesInv, TornOK
  <2>11. OnDisk(path)
    BY <2>3 DEF FilesInv, ObjectsOK
  <2>12. object'[s].path = path /\ path \in DOMAIN disk' /\ disk'[path] = "complete"
    BY <2>6, <2>7, <2>8, <2>11 DEF OnDisk
  <2>13. Earlier(s, object[s].path)' /\ OnDisk(object[s].path)'
    BY <2>3, <2>12 DEF Earlier, OnDisk
  <2>14. ObjectOK(s)'
    BY <2>1, <2>3, <2>12, <2>13 DEF ObjectOK
  <2> QED BY <2>1, <2>2, <2>7, <2>8, <2>9, <2>10, <2>14, FilesStep DEF Steps
<1> QED BY <1>2, <1>3 DEF Loads

LEMMA ReadFiles ==
  ASSUME FilesInv, NEW s \in group \cap Scripts, Read(s)
  PROVE  FilesInv'
<1>1. /\ s \in Steps /\ pc[s] = "reading" /\ Goes(s, "running") /\ torn' = torn \ {s}
      /\ UNCHANGED <<group, program, given, disk, closer>>
  BY DEF Read, Steps
<1>2. PICK content \in {"complete"} \cup (IF s \in torn THEN {"torn"} ELSE {}) :
        object' = [object EXCEPT ![s].content = content]
  BY DEF Read
<1>3. /\ pc' \in [Steps -> Places] /\ pc'[s] = "running"
      /\ \A t \in Steps \ {s} : pc'[t] = pc[t]
  BY <1>1, PlacesOf DEF Places, FilesInv, FilesTypeOK
<1>4. /\ object'[s] = [object[s] EXCEPT !.content = content]
      /\ content \in {"complete", "torn"} /\ (content = "torn" => s \in torn)
      /\ \A t \in Scripts \ {s} : object'[t] = object[t]
      /\ object[s] \in Objects
  BY <1>2 DEF FilesInv, FilesTypeOK
<1>5. /\ object'[s].path = object[s].path /\ object'[s].system = object[s].system
      /\ object'[s].content = content
      /\ object'[s] \in Objects
  BY <1>4 DEF Objects
<1>6. FilesTypeOK'
  <2>1. object' \in [Scripts -> Objects]
    BY <1>2, <1>4, <1>5 DEF FilesInv, FilesTypeOK
  <2> QED BY <1>1, <1>3, <2>1 DEF FilesInv, FilesTypeOK
<1>7. ProgramsOK'
  BY <1>1 DEF FilesInv, ProgramsOK
<1>8. TornOK'
  BY <1>1, <1>4, <1>5 DEF FilesInv, TornOK
<1>9. ObjectOK(s)'
  <2>1. ObjectOK(s) /\ ~Binding(s)
    BY <1>1 DEF FilesInv, ObjectsOK, Binding
  <2>2. /\ Held(s)' <=> Held(s)
        /\ \A path : Earlier(s, path)' <=> Earlier(s, path)
        /\ \A path : OnDisk(path)' <=> OnDisk(path)
        /\ Kept' <=> Kept
    BY <1>1, <1>5 DEF Held, Earlier, OnDisk, Kept
  <2>3. Held(s)' => Earlier(s, object[s].path)' /\ (Kept' => OnDisk(object[s].path)')
    BY <1>5, <2>1, <2>2 DEF ObjectOK
  <2> QED BY <1>3, <2>3 DEF ObjectOK
<1> QED BY <1>1, <1>3, <1>4, <1>6, <1>7, <1>8, <1>9, FilesStep DEF Steps

LEMMA SavesFiles ==
  ASSUME FilesInv, NEW s \in group \cap Scripts, Saves(s)
  PROVE  FilesInv'
<1>1. s \in Steps /\ pc[s] = "running" /\ program[s] # <<>> /\ Op(s).do = "save"
  BY DEF Saves, Does, Steps
<1>2. ObjectOK(s) /\ ~Binding(s)
  BY <1>1 DEF FilesInv, ObjectsOK, Binding
<1>3. CASE /\ Covers(s) /\ given' = given \cup {s} /\ Proceeds(s, "running")
           /\ UNCHANGED <<object, disk, torn>>
  <2>1. /\ pc' \in [Steps -> Places] /\ pc'[s] = "running"
        /\ \A t \in Steps \ {s} : pc'[t] = pc[t]
    BY <1>1, <1>3, PlacesOf DEF Proceeds, Places, FilesInv, FilesTypeOK
  <2>2. /\ program' \in [Scripts -> Seq(Operations)] /\ ProgramsOK'
        /\ Len(program[s]) \in Nat /\ Len(program'[s]) = Len(program[s]) - 1
        /\ \A t \in Scripts \ {s} : program'[t] = program[t]
    BY <1>1, <1>3, ProgramAdvances DEF Proceeds, FilesInv
  <2>3. UNCHANGED <<group, closer>>
    BY <1>3 DEF Proceeds
  <2>4. FilesTypeOK'
    BY <1>3, <2>1, <2>2, <2>3 DEF FilesInv, FilesTypeOK
  <2>5. TornOK'
    BY <1>3, <2>3 DEF FilesInv, TornOK
  <2>6. Earlier(s, object[s].path) /\ (Kept => OnDisk(object[s].path))
    BY <1>2, <1>3 DEF ObjectOK, Held, Covers
  <2>7. Earlier(s, object[s].path)' /\ (Kept' => OnDisk(object[s].path)')
    <3>1. \A n \in Nat : n > Len(program[s]) => n > Len(program'[s])
      BY <2>2
    <3>2. \A path \in {"temp"} \X {s} \X Nat : path[3] \in Nat
      OBVIOUS
    <3>3. Earlier(s, object[s].path)'
      BY <1>3, <2>6, <3>1, <3>2 DEF Earlier
    <3> QED BY <1>3, <2>3, <2>6, <3>3 DEF Kept, OnDisk
  <2>8. ObjectOK(s)'
    BY <2>1, <2>7 DEF ObjectOK
  <2> QED BY <1>3, <2>1, <2>2, <2>3, <2>4, <2>5, <2>8, FilesStep DEF Steps
<1>4. CASE Raises(s) /\ UNCHANGED files
  BY <1>1, <1>4, FilesKept DEF Raises, Leaves, Over, Places
<1>5. CASE /\ disk' = PartOnDisk(Fresh(s)) /\ Goes(s, "writing")
           /\ UNCHANGED <<group, program, object, given, torn, closer>>
  <2>1. /\ pc' \in [Steps -> Places] /\ pc'[s] = "writing"
        /\ \A t \in Steps \ {s} : pc'[t] = pc[t]
    BY <1>1, <1>5, PlacesOf DEF Places, FilesInv, FilesTypeOK
  <2>2. Fresh(s) \in TempPaths /\ \A path : Earlier(s, path) => path # Fresh(s)
    BY FreshIsNew DEF FilesInv
  <2>3. /\ DOMAIN disk' = DOMAIN disk \cup {Fresh(s)}
        /\ \A path \in DOMAIN disk \ {Fresh(s)} : disk'[path] = disk[path]
        /\ disk' \in [DOMAIN disk' -> {"partial", "complete"}]
    BY <1>5 DEF PartOnDisk, FilesInv, FilesTypeOK
  <2>4. FilesTypeOK' /\ ProgramsOK' /\ TornOK'
    <3>1. FilesTypeOK'
      BY <1>5, <2>1, <2>2, <2>3 DEF FilesInv, FilesTypeOK, Paths
    <3>2. ProgramsOK'
      BY <1>5 DEF FilesInv, ProgramsOK
    <3>3. TornOK'
      BY <1>5 DEF FilesInv, TornOK
    <3> QED BY <3>1, <3>2, <3>3
  <2>5. /\ Held(s)' <=> Held(s)
        /\ \A path : Earlier(s, path)' <=> Earlier(s, path)
        /\ \A path : Earlier(s, path) /\ OnDisk(path) => OnDisk(path)'
        /\ Kept' <=> Kept
    BY <1>5, <2>2, <2>3 DEF Held, Earlier, OnDisk, Kept
  <2>6. Held(s)' => Earlier(s, object[s].path)' /\ (Kept' => OnDisk(object[s].path)')
    BY <1>2, <1>5, <2>5 DEF ObjectOK
  <2>7. Fresh(s)' \in DOMAIN disk' /\ program'[s] # <<>> /\ Op(s)'.do = "save"
    BY <1>1, <1>5, <2>3 DEF Fresh, Op
  <2>8. ObjectOK(s)'
    BY <2>1, <2>6, <2>7 DEF ObjectOK
  <2> QED BY <1>5, <2>1, <2>3, <2>4, <2>8, FilesStep DEF Steps
<1> QED
  <2>1. CASE Covers(s)
    BY <1>3, <2>1 DEF Saves
  <2>2. CASE ~Covers(s) /\ ~Base
    BY <1>4, <2>2 DEF Saves
  <2>3. CASE ~Covers(s) /\ Base
    BY <1>5, <2>3 DEF Saves
  <2> QED BY <2>1, <2>2, <2>3

LEMMA AddsFiles ==
  ASSUME FilesInv, NEW s \in group \cap Scripts, Adds(s)
  PROVE  FilesInv'
<1>1. /\ s \in Steps /\ pc[s] = "writing" /\ program[s] # <<>>
      /\ ObjectOK(s) /\ ~Binding(s) /\ (Kept => Fresh(s) \in DOMAIN disk)
  BY DEF Adds, Steps, FilesInv, ObjectsOK, ObjectOK, Binding
<1>2. /\ Fresh(s) \in TempPaths /\ Len(program[s]) \in Nat
      /\ \A path : Earlier(s, path) => path # Fresh(s)
  BY FreshIsNew DEF FilesInv
<1>3. CASE /\ object' = [object EXCEPT ![s].path = Fresh(s)] /\ given' = given \cup {s}
           /\ disk' = [p \in DOMAIN disk |-> IF p = Fresh(s) THEN "complete" ELSE disk[p]]
           /\ Proceeds(s, "running") /\ UNCHANGED torn
  <2>1. /\ pc' \in [Steps -> Places] /\ pc'[s] = "running"
        /\ \A t \in Steps \ {s} : pc'[t] = pc[t]
    BY <1>1, <1>3, PlacesOf DEF Proceeds, Places, FilesInv, FilesTypeOK
  <2>2. /\ program' \in [Scripts -> Seq(Operations)] /\ ProgramsOK'
        /\ Len(program'[s]) = Len(program[s]) - 1
        /\ \A t \in Scripts \ {s} : program'[t] = program[t]
    BY <1>1, <1>3, ProgramAdvances DEF Proceeds, FilesInv
  <2>3. UNCHANGED <<group, closer>>
    BY <1>3 DEF Proceeds
  <2>4. /\ object'[s].path = Fresh(s) /\ object'[s].content = object[s].content
        /\ object'[s] \in Objects
        /\ \A t \in Scripts \ {s} : object'[t] = object[t]
    BY <1>2, <1>3 DEF FilesInv, FilesTypeOK, Objects, Paths
  <2>5. object' \in [Scripts -> Objects]
    BY <1>3, <2>4 DEF FilesInv, FilesTypeOK
  <2>6. /\ DOMAIN disk' = DOMAIN disk
        /\ disk' \in [DOMAIN disk' -> {"partial", "complete"}]
        /\ \A path \in DOMAIN disk \ {Fresh(s)} : disk'[path] = disk[path]
        /\ Fresh(s) \in DOMAIN disk => disk'[Fresh(s)] = "complete"
    BY <1>3 DEF FilesInv, FilesTypeOK
  <2>7. FilesTypeOK'
    BY <1>3, <2>1, <2>2, <2>3, <2>5, <2>6 DEF FilesInv, FilesTypeOK
  <2>8. TornOK'
    BY <1>3, <2>3, <2>4 DEF FilesInv, TornOK
  <2>9. Earlier(s, object[s].path)'
    <3>1. Fresh(s) \in {"temp"} \X {s} \X Nat /\ Fresh(s)[3] = Len(program[s])
      BY <1>2 DEF Fresh
    <3>2. Len(program[s]) > Len(program'[s])
      BY <1>2, <2>2
    <3> QED BY <2>4, <3>1, <3>2 DEF Earlier
  <2>10. Kept' => OnDisk(object[s].path)'
    BY <1>1, <2>3, <2>4, <2>6 DEF OnDisk, Kept
  <2>11. ObjectOK(s)'
    BY <2>1, <2>9, <2>10 DEF ObjectOK
  <2> QED BY <1>3, <2>1, <2>2, <2>3, <2>4, <2>6, <2>7, <2>8, <2>11, FilesStep DEF Steps
<1>4. CASE /\ disk' = [p \in DOMAIN disk \ {Fresh(s)} |-> disk[p]]
           /\ Raises(s) /\ UNCHANGED <<object, given, torn>>
  <2>1. /\ pc' \in [Steps -> Places] /\ pc'[s] = "failed"
        /\ \A t \in Steps \ {s} : pc'[t] = pc[t]
        /\ UNCHANGED <<group, program, closer>>
    BY <1>1, <1>4, PlacesOf DEF Raises, Leaves, Places, FilesInv, FilesTypeOK
  <2>2. /\ DOMAIN disk' = DOMAIN disk \ {Fresh(s)}
        /\ \A path \in DOMAIN disk' : disk'[path] = disk[path]
        /\ disk' \in [DOMAIN disk' -> {"partial", "complete"}]
    BY <1>4 DEF FilesInv, FilesTypeOK
  <2>3. FilesTypeOK' /\ ProgramsOK' /\ TornOK'
    <3>1. FilesTypeOK'
      BY <1>4, <2>1, <2>2 DEF FilesInv, FilesTypeOK
    <3>2. ProgramsOK'
      BY <2>1 DEF FilesInv, ProgramsOK
    <3>3. TornOK'
      BY <1>4, <2>1 DEF FilesInv, TornOK
    <3> QED BY <3>1, <3>2, <3>3
  <2>4. /\ Held(s)' <=> Held(s)
        /\ \A path : Earlier(s, path)' <=> Earlier(s, path)
        /\ \A path : Earlier(s, path) /\ OnDisk(path) => OnDisk(path)'
        /\ Kept' <=> Kept
    BY <1>2, <1>4, <2>1, <2>2 DEF Held, Earlier, OnDisk, Kept
  <2>5. Held(s)' => Earlier(s, object[s].path)' /\ (Kept' => OnDisk(object[s].path)')
    BY <1>1, <1>4, <2>4 DEF ObjectOK
  <2>6. ObjectOK(s)'
    BY <2>1, <2>5 DEF ObjectOK
  <2> QED BY <1>4, <2>1, <2>2, <2>3, <2>6, FilesStep DEF Steps
<1> QED BY <1>3, <1>4 DEF Adds

LEMMA MakesPathFiles ==
  ASSUME FilesInv, NEW s \in group \cap Scripts, MakesPath(s)
  PROVE  FilesInv'
<1> DEFINE cover == Op(s).cover
           covers == object[s].system /\ cover
<1>1. /\ s \in Steps /\ pc[s] = "running" /\ program[s] # <<>> /\ Op(s).do = "excel save"
      /\ ObjectOK(s) /\ ~Binding(s)
  BY DEF MakesPath, Does, Steps, FilesInv, ObjectsOK, Binding
<1>2. cover \in BOOLEAN
  <2>1. Op(s) \in Operations
    BY <1>1, OpOf DEF FilesInv
  <2> QED BY <1>1, <2>1 DEF Operations
<1>3. Fresh(s) \in TempPaths
  BY FreshIsNew DEF FilesInv
<1>4. PICK place \in {"failed", "making"}, path \in {object[s].path, Fresh(s)} :
        /\ object' = [object EXCEPT ![s].cover = cover, ![s].path = path]
        /\ Goes(s, place)
        /\ place = "making" => path = IF covers THEN object[s].path ELSE Fresh(s)
  <2>1. CASE ~covers /\ ~Base
    <3>1. Raises(s) /\ object' = [object EXCEPT ![s].cover = cover]
      BY <2>1 DEF MakesPath
    <3>2. object' = [object EXCEPT ![s].cover = cover, ![s].path = object[s].path]
      BY <3>1 DEF FilesInv, FilesTypeOK, Objects
    <3> QED BY <3>1, <3>2 DEF Raises, Leaves
  <2>2. CASE ~(~covers /\ ~Base)
    BY <2>2 DEF MakesPath
  <2> QED BY <2>1, <2>2
<1>5. UNCHANGED <<group, program, given, disk, torn, closer>>
  <2>1. CASE ~covers /\ ~Base
    BY <2>1 DEF MakesPath, Raises
  <2>2. CASE ~(~covers /\ ~Base)
    BY <2>2 DEF MakesPath
  <2> QED BY <2>1, <2>2
<1>6. /\ pc' \in [Steps -> Places] /\ pc'[s] = place
      /\ \A t \in Steps \ {s} : pc'[t] = pc[t]
  BY <1>1, <1>4, PlacesOf DEF Places, FilesInv, FilesTypeOK
<1>7. /\ object'[s].path = path /\ object'[s].content = object[s].content
      /\ object'[s] \in Objects
      /\ \A t \in Scripts \ {s} : object'[t] = object[t]
  <2>1. object[s] \in Objects /\ path \in Paths \cup {NoPath}
    BY <1>3, <1>4 DEF FilesInv, FilesTypeOK, Objects, Paths
  <2>2. object'[s] = [object[s] EXCEPT !.cover = cover, !.path = path]
    BY <1>4 DEF FilesInv, FilesTypeOK
  <2>3. \A t \in Scripts \ {s} : object'[t] = object[t]
    BY <1>4 DEF FilesInv, FilesTypeOK
  <2> QED BY <1>2, <2>1, <2>2, <2>3 DEF Objects
<1>8. object' \in [Scripts -> Objects]
  BY <1>4, <1>7 DEF FilesInv, FilesTypeOK
<1> HIDE DEF cover, covers
<1>9. FilesTypeOK'
  BY <1>5, <1>6, <1>8 DEF FilesInv, FilesTypeOK
<1>10. ProgramsOK'
  BY <1>5 DEF FilesInv, ProgramsOK
<1>11. TornOK'
  BY <1>5, <1>7 DEF FilesInv, TornOK
<1>12. ObjectOK(s)'
  <2>1. Binding(s)' /\ program'[s] # <<>> /\ Op(s)'.do = "excel save"
    BY <1>1, <1>4, <1>5, <1>6 DEF Binding, Op
  <2>2. ASSUME place = "making", path # Fresh(s)
        PROVE  cover /\ Earlier(s, path)
    <3>1. covers /\ path = object[s].path
      BY <1>4, <2>2
    <3> QED BY <1>1, <3>1 DEF covers, ObjectOK, Held
  <2>3. /\ \A p : Earlier(s, p)' <=> Earlier(s, p)
        /\ Fresh(s)' = Fresh(s) /\ Op(s)' = Op(s)
    BY <1>5 DEF Earlier, Fresh, Op
  <2>4. place = "making" =>
          object'[s].path = Fresh(s)' \/ (Op(s)'.cover /\ Earlier(s, object[s].path)')
    BY <1>7, <2>2, <2>3 DEF cover
  <2> QED BY <1>4, <1>6, <2>1, <2>4 DEF ObjectOK
<1> QED BY <1>5, <1>6, <1>7, <1>9, <1>10, <1>11, <1>12, FilesStep DEF Steps

(* The workbook is written to a new file, or back to the system file the     *)
(* object was loaded from, or to a temporary file the script made before.    *)
LEMMA SavesBookFiles ==
  ASSUME FilesInv, NEW s \in group \cap Scripts, SavesBook(s)
  PROVE  FilesInv'
<1> DEFINE path == object[s].path
           readers == {t \in group \cap Scripts : pc[t] = "reading" /\ object[t].path = path}
<1>1. /\ s \in Steps /\ pc[s] = "making" /\ program[s] # <<>> /\ Op(s).do = "excel save"
      /\ path = Fresh(s) \/ (Op(s).cover /\ Earlier(s, path))
  BY DEF SavesBook, Steps, FilesInv, ObjectsOK, ObjectOK
<1>2. /\ Fresh(s) \in TempPaths /\ Len(program[s]) \in Nat /\ Fresh(s) \notin SystemPaths
  BY FreshIsNew DEF FilesInv
<1>3. CASE Raises(s) /\ UNCHANGED files
  BY <1>1, <1>3, FilesKept DEF Raises, Leaves, Over, Places
<1>4. CASE /\ disk' = [p \in DOMAIN disk \cup {path} |-> IF p = path THEN "complete" ELSE disk[p]]
           /\ torn' = torn \cup readers /\ given' = given \cup {s}
           /\ Proceeds(s, "running") /\ UNCHANGED object
  <2>1. /\ pc' \in [Steps -> Places] /\ pc'[s] = "running"
        /\ \A t \in Steps \ {s} : pc'[t] = pc[t]
    BY <1>1, <1>4, PlacesOf DEF Proceeds, Places, FilesInv, FilesTypeOK
  <2>2. /\ program' \in [Scripts -> Seq(Operations)] /\ ProgramsOK'
        /\ Len(program'[s]) = Len(program[s]) - 1
        /\ \A t \in Scripts \ {s} : program'[t] = program[t]
    BY <1>1, <1>4, ProgramAdvances DEF Proceeds, FilesInv
  <2>3. UNCHANGED <<group, closer>>
    BY <1>4 DEF Proceeds
  <2>4. path \in Paths
    <3>1. Earlier(s, path) => path \in Paths
      <4>1. {"temp"} \X {s} \X Nat \subseteq TempPaths
        BY DEF TempPaths
      <4> QED BY <4>1 DEF Earlier, Paths
    <3> QED BY <1>1, <1>2, <3>1 DEF Paths
  <2>5. /\ DOMAIN disk' = DOMAIN disk \cup {path} /\ disk'[path] = "complete"
        /\ disk' \in [DOMAIN disk' -> {"partial", "complete"}]
        /\ \A p \in DOMAIN disk \ {path} : disk'[p] = disk[p]
    BY <1>4 DEF FilesInv, FilesTypeOK
  <2>6. FilesTypeOK'
    BY <1>4, <2>1, <2>2, <2>3, <2>4, <2>5 DEF FilesInv, FilesTypeOK
  <2>7. \A t \in readers : t # s /\ WritesBack(s)
    <3> SUFFICES ASSUME NEW t \in readers
                 PROVE  t # s /\ WritesBack(s)
      OBVIOUS
    <3>1. path \in SystemPaths
      BY DEF FilesInv, ObjectsOK, ObjectOK
    <3>2. Op(s).cover
      BY <1>1, <1>2, <3>1
    <3>3. PICK p \in Programs[s] :
            \A i \in DOMAIN program[s] : \E j \in DOMAIN p : program[s][i] = p[j]
      BY DEF FilesInv, ProgramsOK
    <3>4. 1 \in DOMAIN program[s] /\ Op(s) = program[s][1]
      BY <1>1, OpOf DEF FilesInv
    <3>5. PICK j \in DOMAIN p : Op(s) = p[j]
      BY <3>3, <3>4
    <3>6. WritesBack(s)
      BY <1>1, <3>2, <3>5 DEF WritesBack
    <3> QED BY <1>1, <3>6
  <2>8. TornOK'
    BY <1>4, <2>3, <2>7 DEF FilesInv, TornOK
  <2>9. Earlier(s, object[s].path)'
    <3>1. Fresh(s) \in {"temp"} \X {s} \X Nat /\ Fresh(s)[3] = Len(program[s])
      BY <1>2 DEF Fresh
    <3>2. \A n \in Nat : n >= Len(program[s]) => n > Len(program'[s])
      BY <1>2, <2>2
    <3>3. \A p \in {"temp"} \X {s} \X Nat : p[3] \in Nat
      OBVIOUS
    <3>4. CASE path = Fresh(s)
      <4>1. path \in {"temp"} \X {s} \X Nat /\ path[3] > Len(program'[s])
        BY <1>2, <3>1, <3>2, <3>4
      <4> QED BY <1>4, <4>1 DEF Earlier
    <3>5. CASE path \in SystemPaths
      BY <1>4, <3>5 DEF Earlier
    <3>6. CASE path \in {"temp"} \X {s} \X Nat /\ path[3] > Len(program[s])
      <4>1. path[3] > Len(program'[s])
        BY <1>2, <3>2, <3>3, <3>6
      <4> QED BY <1>4, <3>6, <4>1 DEF Earlier
    <3> QED BY <1>1, <3>4, <3>5, <3>6 DEF Earlier
  <2>10. OnDisk(object[s].path)'
    BY <1>4, <2>5 DEF OnDisk
  <2>11. ObjectOK(s)'
    BY <2>1, <2>9, <2>10 DEF ObjectOK
  <2>12. \A t \in Scripts \ {s} : t \in given' <=> t \in given
    BY <1>4
  <2>13. \A p : p \in DOMAIN disk =>
           p \in DOMAIN disk' /\ (disk[p] = "complete" => disk'[p] = "complete")
    BY <2>5
  <2> QED BY <1>4, <2>1, <2>2, <2>3, <2>6, <2>8, <2>11, <2>12, <2>13, FilesStep DEF Steps
<1> QED BY <1>3, <1>4 DEF SavesBook

(* No other action of a step touches a file.                                 *)
LEMMA StepFiles ==
  ASSUME FilesInv, NEW s \in Steps,
         \/ Database(s)
         \/ s \in group \cap Scripts /\ Script(s)
  PROVE  FilesInv'
<1>1. CASE Database(s) \/ Enters(s) \/ Returns(s)
  <2>1. /\ pc[s] \notin Over /\ pc[s] # "making"
        /\ UNCHANGED <<group, program, files, closer>>
    BY <1>1 DEF Database, Asks, Stores, Executes, ConnectFails, Enters, Returns, Over
  <2>2. \E place \in Places \ {"reading", "writing", "making"} : Goes(s, place)
    BY <1>1 DEF Database, Asks, Stores, Executes, ConnectFails, Enters, Returns, Leaves, Places
  <2> QED BY <2>1, <2>2, FilesKept
<1>2. CASE s \in group \cap Scripts /\ Loads(s)
  BY <1>2, LoadsFiles
<1>3. CASE s \in group \cap Scripts /\ Read(s)
  BY <1>3, ReadFiles
<1>4. CASE s \in group \cap Scripts /\ Saves(s)
  BY <1>4, SavesFiles
<1>5. CASE s \in group \cap Scripts /\ Adds(s)
  BY <1>5, AddsFiles
<1>6. CASE s \in group \cap Scripts /\ MakesPath(s)
  BY <1>6, MakesPathFiles
<1>7. CASE s \in group \cap Scripts /\ SavesBook(s)
  BY <1>7, SavesBookFiles
<1> QED BY <1>1, <1>2, <1>3, <1>4, <1>5, <1>6, <1>7 DEF Script

LEMMA ClosingFiles ==
  ASSUME FilesInv, PostAction
  PROVE  FilesInv'
<1>1. UNCHANGED <<group, program, pc, object, given, torn>>
  BY DEF PostAction, CloseBegins, ClosesPool, RemovesFiles, ForgetsBase, files
<1>2. /\ Kept' => Kept /\ UNCHANGED disk
      /\ closer'.at \in {"waiting", "pools", "files", "removed", "closed", "failed"}
      /\ "at" \in DOMAIN closer'
  <2>1. ASSUME NEW at \in {"failed", "files", "pools", "removed", "closed"}, NEW i, Closing(at, i)
        PROVE  closer'.at = at /\ "at" \in DOMAIN closer'
    BY <2>1 DEF Closing, FilesInv, FilesTypeOK
  <2>2. CASE CloseBegins
    BY <2>2 DEF CloseBegins, files, Kept
  <2>3. CASE ClosesPool
    <3>1. closer.at = "pools" /\ UNCHANGED disk
      BY <2>3 DEF ClosesPool, files
    <3>2. \E at \in {"failed", "files", "pools"} : \E i : Closing(at, i)
      BY <2>3 DEF ClosesPool
    <3> QED BY <2>1, <3>1, <3>2 DEF Kept
  <2>4. CASE RemovesFiles
    <3>1. Closing("removed", 0)
      BY <2>4 DEF RemovesFiles
    <3> QED BY <2>1, <3>1 DEF Kept
  <2>5. CASE ForgetsBase
    <3>1. Closing("closed", 0)
      BY <2>5 DEF ForgetsBase
    <3> QED BY <2>1, <3>1 DEF Kept
  <2> QED BY <2>2, <2>3, <2>4, <2>5 DEF PostAction
<1>3. /\ DOMAIN disk' \subseteq DOMAIN disk
      /\ \A path \in DOMAIN disk' : disk'[path] = disk[path]
      /\ disk' \in [DOMAIN disk' -> {"partial", "complete"}]
      /\ \A path \in SystemPaths : path \in DOMAIN disk => path \in DOMAIN disk'
  <2>1. CASE RemovesFiles
    <3>1. disk' = [p \in {q \in DOMAIN disk : q[1] # "temp"} |-> disk[p]]
      BY <2>1 DEF RemovesFiles
    <3>2. \A path \in SystemPaths : path[1] # "temp"
      BY DEF SystemPaths
    <3> QED BY <3>1, <3>2 DEF FilesInv, FilesTypeOK
  <2>2. CASE ~RemovesFiles
    <3>1. UNCHANGED disk
      BY <2>2 DEF PostAction, CloseBegins, ClosesPool, ForgetsBase, files
    <3> QED BY <3>1 DEF FilesInv, FilesTypeOK
  <2> QED BY <2>1, <2>2
<1>4. FilesTypeOK' /\ ProgramsOK' /\ TornOK'
  <2>1. FilesTypeOK'
    BY <1>1, <1>2, <1>3 DEF FilesInv, FilesTypeOK
  <2>2. ProgramsOK'
    BY <1>1 DEF FilesInv, ProgramsOK
  <2>3. TornOK'
    BY <1>1 DEF FilesInv, TornOK
  <2> QED BY <2>1, <2>2, <2>3
<1>5. \A path \in SystemPaths : OnDisk(path)'
  BY <1>3 DEF FilesInv, ObjectsOK, OnDisk
<1>6. ASSUME NEW t \in Scripts
      PROVE  ObjectOK(t)'
  <2>1. /\ ObjectOK(t) /\ pc'[t] = pc[t] /\ program'[t] = program[t] /\ object'[t] = object[t]
        /\ t \in given' <=> t \in given
    BY <1>1 DEF FilesInv, ObjectsOK
  <2>2. \A path : Kept' /\ Earlier(t, path) /\ OnDisk(path) => OnDisk(path)'
    BY <1>2 DEF OnDisk
  <2>3. Kept' /\ Fresh(t) \in DOMAIN disk => Fresh(t) \in DOMAIN disk'
    BY <1>2
  <2> QED BY <1>2, <2>1, <2>2, <2>3, Untouched
<1>7. ObjectsOK'
  BY <1>5, <1>6 DEF ObjectsOK
<1> QED BY <1>4, <1>7 DEF FilesInv

LEMMA FilesInit ==
  ASSUME Init
  PROVE  FilesInv
<1>1. /\ pc = [s \in Steps |-> IF s \in group THEN "start" ELSE "done"]
      /\ object = [s \in Scripts |->
                     [path |-> NoPath, system |-> FALSE, cover |-> FALSE, content |-> "none"]]
      /\ given = {} /\ torn = {}
      /\ disk = [p \in {<<"system", f>> : f \in Range(Files)} |-> "complete"]
      /\ closer = [at |-> "waiting", next |-> 0, size |-> 0]
  BY DEF Init
<1>2. /\ DOMAIN program = Scripts
      /\ \A s \in Scripts : program[s] \in Programs[s] \/ (s \notin group /\ program[s] = <<>>)
  BY DEF Init
<1>3. program \in [Scripts -> Seq(Operations)]
  <2>1. ASSUME NEW s \in Scripts
        PROVE  program[s] \in Seq(Operations)
    <3>1. CASE program[s] \in Programs[s]
      BY <3>1, OperationsAssumption
    <3>2. CASE program[s] = <<>>
      BY <3>2
    <3> QED BY <1>2, <3>1, <3>2
  <2>2. program = [s \in Scripts |-> program[s]]
    BY DEF Init
  <2> QED BY <2>1, <2>2
<1>4. DOMAIN disk = SystemPaths /\ \A path \in SystemPaths : disk[path] = "complete"
  BY <1>1 DEF SystemPaths
<1>5. FilesTypeOK
  <2>1. pc \in [Steps -> Places]
    BY <1>1 DEF Places
  <2>2. object \in [Scripts -> Objects]
    BY <1>1 DEF Objects
  <2>3. disk \in [DOMAIN disk -> {"partial", "complete"}] /\ DOMAIN disk \subseteq Paths
    BY <1>1, <1>4 DEF Paths
  <2> QED BY <1>1, <1>3, <2>1, <2>2, <2>3 DEF FilesTypeOK
<1>6. ProgramsOK
  <2> SUFFICES ASSUME NEW s \in group \cap Scripts
               PROVE  \E p \in Programs[s] : \A i \in DOMAIN program[s] :
                        \E j \in DOMAIN p : program[s][i] = p[j]
    BY DEF ProgramsOK
  <2>1. program[s] \in Programs[s]
    BY <1>2
  <2> QED BY <2>1
<1>7. TornOK
  BY <1>1 DEF TornOK
<1>8. ObjectsOK
  <2>1. \A s \in Scripts : ~Held(s) /\ pc[s] \notin {"reading", "writing", "making"}
    BY <1>1 DEF Held, Steps
  <2> QED BY <1>4, <2>1 DEF ObjectsOK, ObjectOK, OnDisk
<1> QED BY <1>5, <1>6, <1>7, <1>8 DEF FilesInv

(* Until AstTempFileController.close removes the files, a key AstFile.save   *)
(* or AsyncExcel.async_save gave names a whole file; and a read is torn only *)
(* where another script saves a workbook over a system file.                 *)
THEOREM KeysNameFilesAlways == Spec => []KeysNameFiles
<1>1. Init => FilesInv
  BY FilesInit
<1>2. FilesInv /\ [Next]_vars => FilesInv'
  <2> SUFFICES ASSUME FilesInv, [Next]_vars
               PROVE  FilesInv'
    OBVIOUS
  <2>1. CASE UNCHANGED vars
    <3>1. UNCHANGED <<group, program, pc, object, given, disk, torn, closer>>
      BY <2>1 DEF vars, files
    <3>2. FilesTypeOK' /\ ProgramsOK'
      BY <3>1 DEF FilesInv, FilesTypeOK, ProgramsOK
    <3>3. TornOK'
      BY <3>1 DEF FilesInv, TornOK
    <3>4. ObjectsOK'
      BY <3>1, ZenonT(60) DEF FilesInv, ObjectsOK, ObjectOK, OnDisk, Earlier, Held, Kept, Binding, Op, Fresh
    <3> QED BY <3>2, <3>3, <3>4 DEF FilesInv
  <2>2. CASE PostAction
    BY <2>2, ClosingFiles
  <2>3. CASE \E s \in group \cap Queries : Database(s)
    BY <2>3, StepFiles DEF Steps
  <2>4. CASE \E s \in group \cap Scripts : Script(s)
    BY <2>4, StepFiles DEF Steps
  <2> QED BY <2>1, <2>2, <2>3, <2>4 DEF Next
<1>3. FilesInv => KeysNameFiles
  BY DEF FilesInv, ObjectsOK, ObjectOK, TornOK, KeysNameFiles, Held, Kept, OnDisk
<1> QED BY <1>1, <1>2, <1>3, PTL DEF Spec
=============================================================================
