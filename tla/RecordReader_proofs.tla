------------------------ MODULE RecordReader_proofs ------------------------
(***************************************************************************)
(* Proofs about RecordReader: what the lists and values of a record hold,  *)
(* what its backup holds, and what the client that follows a list is given *)
(* and told, for every task, every order of its messages and every moment  *)
(* of the expiry and of the requests.                                      *)
(***************************************************************************)
EXTENDS RecordReader, FiniteSetTheorems, FunctionTheorems, SequenceTheorems, TLAPS

-----------------------------------------------------------------------------
(* The entries of lists, and the writes that may reach a list.               *)

Types ==
  {"system", "step_skipped", "step_running", "interface", "action_script",
   "action_script_print", "system_exception"}
Entries == [type : Types, desc : Visits \cup Texts, times : Nat]

(* An entry as it is sent.                                                   *)
Fresh == {Entry(type, desc) : type \in Types, desc \in Visits \cup Texts}

Commands == {"update", "increment", "list", "push", "set", "set_all", "push_all"}

(* A command that can write to a list is one that appends to it.             *)
WriteOK(w) ==
  /\ w.cmd \in Commands
  /\ w.cmd \in {"update", "increment", "list", "set"} => w.key \notin Lists
  /\ w.cmd = "push" => w.arg \in Fresh
  /\ w.cmd = "set_all" => DOMAIN w.arg \cap Lists = {}
  /\ w.cmd = "push_all" => \A k \in DOMAIN w.arg \cap Lists : w.arg[k] \in Fresh

-----------------------------------------------------------------------------
(* What visit v, whose core ends with outcome o, writes and sends at its     *)
(* i-th stretch.  Its beginning has b stretches, with its core c, in all n.  *)

FirstOf(v, o) == Len(Beginning(v, o))

VisitWrite(v, o, i, w) ==
  LET b == FirstOf(v, o)
      c == BodyOf[v][o]
  IN \/ i = 1 /\ w = Update(Status(StepOf[v]), [start |-> v])
     \/ i = 2 /\ i = b /\ w = CaseStatusOf(v, "running")
     \/ i = b + 1 /\ i <= c /\ KindOf[v] = "interface" /\ ~Skipped(o)
        /\ w = Sets(Detail(v), [of |-> v])
     \/ i = b + 2 /\ i = c /\ KindOf[v] = "interface" /\ o = "success"
        /\ w = Pushes(Process(StepOf[v]), Pointer(v))
     \/ i = b + 1 /\ i = c /\ KindOf[v] = "script"
        /\ w = Pushes(Process(StepOf[v]), Entry("action_script", v))
     \/ i = c + 1 /\ w = InList(StepCount(o))
     \/ i = c + 2 /\ Tracked(v) /\ w = CaseStatusOf(v, StatusOf(o))
     \/ i = c + 3 /\ Tracked(v)
        /\ w = Update(Status(StepOf[v]), [end |-> v, status |-> StatusOf(o)])

(* A message that is not a print.                                            *)
Sent(v, m) ==
  /\ m.cmd = "push" /\ m.key \in KeptLists /\ m.n = <<v, 0>>
  /\ m.entry \in {Entry(type, v) : type \in Types}

VisitMessage(v, o, i, m) ==
  \/ /\ Sent(v, m) /\ m.entry.type \in {"step_skipped", "step_running"}
     /\ i = FirstOf(v, o)
  \/ /\ Sent(v, m) /\ m.entry.type = "interface" /\ o = "success"
     /\ m.key # Process(StepOf[v]) /\ i = BodyOf[v][o]
  \/ /\ Sent(v, m) /\ m.entry.type \in {"interface", "system_exception"} /\ StatusOf(o) = "error"
     /\ i = Len(ProgramOf[v][o])
  \/ /\ m.cmd = "print" /\ m.key \in KeptLists /\ m.entry = Entry("action_script_print", "text")
     /\ \E j \in 1..Prints : m.n = <<v, j>>
     /\ KindOf[v] = "script" /\ i = BodyOf[v][o]

StretchIs(v, o, i, x) ==
  /\ VisitWrite(v, o, i, x.write)
  /\ IsFiniteSet(x.then) /\ \A m \in x.then : VisitMessage(v, o, i, m)

(* How long the parts of its program are.                                    *)
PartsAre(v, o) ==
  LET b == FirstOf(v, o)
      c == BodyOf[v][o]
      n == Len(ProgramOf[v][o])
  IN /\ b = IF Skipped(o) \/ ~Tracked(v) THEN 1 ELSE 2
     /\ c \in Nat
     /\ c = b + (CASE KindOf[v] = "interface" /\ o = "success" -> 2
                   [] KindOf[v] = "interface" /\ o = "error"   -> 1
                   [] KindOf[v] = "script" /\ ~Skipped(o)    -> 1
                   [] OTHER                                    -> 0)
     /\ n = IF Tracked(v) THEN c + 3 ELSE c + 1

-----------------------------------------------------------------------------
(* The keys of the lists are no other keys.                                  *)

LEMMA ListKeys ==
  /\ KeptLists \subseteq Lists
  /\ \A v \in Visits : Process(StepOf[v]) \in Lists
<1>1. \A v \in Visits : Process(StepOf[v]) \in Lists
  BY DEF Lists, Steps
<1>2. ASSUME NEW v \in Visits, NEW to \in Shown, NEW k \in Address(v, to)
      PROVE  k \in Lists
  <2>1. CASE to = "step"
    BY <1>1, <1>2, <2>1 DEF Address
  <2>2. CASE to = "parent"
    BY <1>2, <2>2 DEF Address, Lists, Steps
  <2>3. CASE to \in {"child_case", "summary"}
    BY <1>2, <2>3 DEF Address, Lists
  <2> QED BY <1>2, <2>1, <2>2, <2>3, ShownAssumption DEF Recipients
<1> QED BY <1>1, <1>2 DEF KeptLists

LEMMA KeyKinds ==
  /\ TaskInfo \notin Lists /\ RecordInfo \notin Lists /\ ChildCases \notin Lists
  /\ CaseStatus \notin Lists
  /\ \A s : Status(s) \notin Lists
  /\ \A v : Detail(v) \notin Lists
<1> SUFFICES ASSUME NEW k \in Lists
             PROVE  /\ k # TaskInfo /\ k # RecordInfo /\ k # ChildCases /\ k # CaseStatus
                    /\ \A s : k # Status(s)
                    /\ \A v : k # Detail(v)
  OBVIOUS
<1>1. \/ k = <<"child_case", "process">>
      \/ k = <<"summary", "process">>
      \/ \E s \in Steps : k = <<"step", s, "process">>
  BY DEF Lists, CaseProcess, Summary, Process
<1>2. \A s : k # <<"step", s, "status">>
  BY <1>1
<1>3. \A u : k # <<"detail", u>>
  BY <1>1
<1>4. /\ k # <<"task_info">> /\ k # <<"record_info">>
      /\ k # <<"child_case_list">> /\ k # <<"child_case", "status">>
  BY <1>1
<1> QED BY <1>2, <1>3, <1>4 DEF TaskInfo, RecordInfo, ChildCases, CaseStatus, Status, Detail

(* Nor are those of the values each other's.                                 *)
LEMMA ValueKeys ==
  /\ TaskInfo # RecordInfo /\ TaskInfo # ChildCases /\ RecordInfo # ChildCases
  /\ CaseStatus \notin {TaskInfo, RecordInfo, ChildCases}
  /\ \A s : Status(s) \notin {TaskInfo, RecordInfo, ChildCases, CaseStatus}
  /\ \A v : Detail(v) \notin {TaskInfo, RecordInfo, ChildCases, CaseStatus}
  /\ \A s, v : Status(s) # Detail(v)
  /\ \A s, t : Status(s) = Status(t) => s = t
  /\ \A s, t : Process(s) = Process(t) => s = t
  /\ \A s : CaseProcess # Process(s) /\ CaseProcess # Summary
BY DEF TaskInfo, RecordInfo, ChildCases, CaseStatus, Status, Detail, Process, CaseProcess, Summary

LEMMA EntryIs ==
  ASSUME NEW type, NEW desc
  PROVE  /\ Entry(type, desc).type = type /\ Entry(type, desc).desc = desc
         /\ Entry(type, desc).times = 0
BY DEF Entry

LEMMA FreshAre ==
  /\ Fresh \subseteq Entries
  /\ \A e \in Fresh : e.times = 0
  /\ \A type \in Types : \A desc \in Visits \cup Texts : Entry(type, desc) \in Fresh
BY DEF Fresh, Entries, Entry

-----------------------------------------------------------------------------
(* The program of a visit.                                                   *)

LEMMA SendingIs ==
  ASSUME NEW S, NEW q \in Seq(S), q # <<>>, NEW msgs
  PROVE  /\ Sending(q, msgs) \in Seq(S \cup {Sending(q, msgs)[Len(q)]})
         /\ Len(Sending(q, msgs)) = Len(q)
         /\ \A i \in 1..Len(q) - 1 : Sending(q, msgs)[i] = q[i]
         /\ Sending(q, msgs)[Len(q)] = Stretch(q[Len(q)].write, q[Len(q)].then \cup msgs)
<1> DEFINE n == Len(q)
           new == Stretch(q[n].write, q[n].then \cup msgs)
<1>1. n \in 1..Len(q) /\ n \in Nat
  OBVIOUS
<1>2. Sending(q, msgs) = [q EXCEPT ![n] = new]
  BY <1>1 DEF Sending
<1> HIDE DEF new, n
<1>3. q \in Seq(S \cup {new})
  BY SeqMonotonic
<1>4. /\ [q EXCEPT ![n] = new] \in Seq(S \cup {new})
      /\ Len([q EXCEPT ![n] = new]) = Len(q)
      /\ \A j \in 1..Len(q) : [q EXCEPT ![n] = new][j] = IF j = n THEN new ELSE q[j]
  BY <1>1, <1>3, ExceptSeq
<1>5. Sending(q, msgs)[n] = new /\ Len(q) = n
  BY <1>1, <1>2, <1>4 DEF n
<1>6. \A i \in 1..Len(q) - 1 : i \in 1..Len(q) /\ i # n
  BY <1>1 DEF n
<1>7. \A i \in 1..Len(q) - 1 : Sending(q, msgs)[i] = q[i]
  BY <1>2, <1>4, <1>6
<1> QED BY <1>2, <1>4, <1>5, <1>7 DEF new

LEMMA FiniteImage ==
  ASSUME NEW S, IsFiniteSet(S), NEW f, DOMAIN f = S
  PROVE  IsFiniteSet({f[x] : x \in S})
<1> DEFINE T == {f[x] : x \in S}
<1>1. [x \in S |-> f[x]] \in Surjection(S, T)
  BY DEF Surjection
<1> QED BY <1>1, FS_Surjection

(* The messages of a visit.                                                  *)
LEMMA MessagesAre ==
  ASSUME NEW v \in Visits, NEW to \in SUBSET Recipients, NEW type \in Types
  PROVE  /\ IsFiniteSet(Messages(v, to, Entry(type, v)))
         /\ \A m \in Messages(v, to, Entry(type, v)) :
              /\ Sent(v, m) /\ m.entry.type = type
              /\ "step" \notin to /\ KindOf[v] = "interface" => m.key # Process(StepOf[v])
<1> DEFINE e == Entry(type, v)
           Sends(k) == [cmd |-> "push", key |-> k, entry |-> e, n |-> <<v, 0>>]
           K == UNION {Address(v, t) : t \in to \cap Shown}
<1>1. IsFiniteSet(K)
  <2>1. IsFiniteSet(to \cap Shown)
    <3>1. IsFiniteSet({"step"} \cup {"parent"} \cup {"child_case"} \cup {"summary"})
      BY FS_EmptySet, FS_Singleton, FS_Union
    <3>2. to \cap Shown \in SUBSET ({"step"} \cup {"parent"} \cup {"child_case"} \cup {"summary"})
      BY DEF Recipients
    <3> QED BY <3>1, <3>2, FS_Subset
  <2>2. ASSUME NEW t \in to
        PROVE  IsFiniteSet(Address(v, t))
    <3>1. IsFiniteSet({Process(StepOf[v])}) /\ IsFiniteSet({CaseProcess}) /\ IsFiniteSet({Summary})
      BY FS_Singleton
    <3>2. IsFiniteSet({Process(s) : s \in {ParentOf[v]} \ {NoStep}})
      <4>1. \/ {Process(s) : s \in {ParentOf[v]} \ {NoStep}} = {}
            \/ {Process(s) : s \in {ParentOf[v]} \ {NoStep}} = {Process(ParentOf[v])}
        OBVIOUS
      <4> QED BY <4>1, FS_EmptySet, FS_Singleton
    <3> QED BY <3>1, <3>2 DEF Address, Recipients
  <2>3. IsFiniteSet({Address(v, t) : t \in to \cap Shown})
    <3> DEFINE f == [t \in to \cap Shown |-> Address(v, t)]
    <3>1. IsFiniteSet({f[t] : t \in to \cap Shown})
      BY <2>1, FiniteImage
    <3>2. {f[t] : t \in to \cap Shown} = {Address(v, t) : t \in to \cap Shown}
      OBVIOUS
    <3> QED BY <3>1, <3>2
  <2> QED BY <2>2, <2>3, FS_UNION
<1>2. Messages(v, to, e) = {Sends(k) : k \in K}
  BY DEF Messages
<1>3. IsFiniteSet({Sends(k) : k \in K})
  <2> DEFINE f == [k \in K |-> Sends(k)]
  <2> HIDE DEF K
  <2>1. IsFiniteSet({f[k] : k \in K})
    BY <1>1, FiniteImage
  <2>2. {f[k] : k \in K} = {Sends(k) : k \in K}
    OBVIOUS
  <2> QED BY <2>1, <2>2
<1>4. ASSUME NEW k \in K
      PROVE  k \in KeptLists
  BY <1>4 DEF KeptLists
<1>5. ASSUME NEW k \in K, "step" \notin to, KindOf[v] = "interface"
      PROVE  k # Process(StepOf[v])
  <2>1. PICK t \in to : k \in Address(v, t)
    OBVIOUS
  <2>2. CASE t = "parent"
    BY <1>5, <2>1, <2>2, VisitAssumption, ValueKeys DEF Address
  <2>3. CASE t \in {"child_case", "summary"}
    <3>1. k \in {CaseProcess, Summary}
      BY <2>1, <2>3 DEF Address
    <3> QED BY <3>1 DEF CaseProcess, Summary, Process
  <2> QED BY <1>5, <2>1, <2>2, <2>3 DEF Recipients
<1>6. ASSUME NEW m \in Messages(v, to, e)
      PROVE  /\ Sent(v, m) /\ m.entry.type = type
             /\ "step" \notin to /\ KindOf[v] = "interface" => m.key # Process(StepOf[v])
  <2>1. PICK k \in K : m = Sends(k)
    BY <1>2, <1>6
  <2>2. m.key = k /\ m.cmd = "push" /\ m.entry = Entry(type, v) /\ m.n = <<v, 0>>
    BY <2>1
  <2> QED BY <1>4, <1>5, <2>2, EntryIs DEF Sent
<1> QED BY <1>2, <1>3, <1>6

LEMMA PrintsAre ==
  ASSUME NEW v \in Visits
  PROVE  /\ IsFiniteSet(PrintMessages(v))
         /\ \A m \in PrintMessages(v) :
              /\ m.cmd = "print" /\ m.key \in KeptLists
              /\ m.entry = Entry("action_script_print", "text")
              /\ \E j \in 1..Prints : m.n = <<v, j>>
<1> DEFINE K == UNION {Address(v, t) : t \in {"step"} \cap Shown}
           P(k, i) == [cmd |-> "print", key |-> k, entry |-> Entry("action_script_print", "text"),
                       n |-> <<v, i>>]
           Q(p) == P(p[1], p[2])
<1>1. K \in SUBSET {Process(StepOf[v])} /\ K \subseteq KeptLists
  <2>1. Address(v, "step") = {Process(StepOf[v])}
    BY DEF Address
  <2>2. "step" \in Shown => Address(v, "step") \subseteq KeptLists
    BY DEF KeptLists
  <2>3. \A k \in K : k \in Address(v, "step") /\ "step" \in Shown
    OBVIOUS
  <2> QED BY <2>1, <2>2, <2>3
<1>2. PrintMessages(v) = {P(k, i) : k \in K, i \in 1..Prints}
  BY DEF PrintMessages
<1>3. IsFiniteSet(PrintMessages(v))
  <2>1. IsFiniteSet(K)
    <3> HIDE DEF K
    <3>1. IsFiniteSet({Process(StepOf[v])})
      BY FS_Singleton
    <3> QED BY <1>1, <3>1, FS_Subset
  <2>2. IsFiniteSet(1..Prints)
    BY VisitAssumption, FS_Interval
  <2>3. IsFiniteSet(K \X (1..Prints))
    BY <2>1, <2>2, FS_Product
  <2>4. IsFiniteSet({Q(p) : p \in K \X (1..Prints)})
    <3> DEFINE f == [p \in K \X (1..Prints) |-> Q(p)]
    <3> HIDE DEF K
    <3>0. DOMAIN f = K \X (1..Prints)
      OBVIOUS
    <3>2. {f[p] : p \in K \X (1..Prints)} = {Q(p) : p \in K \X (1..Prints)}
      OBVIOUS
    <3> HIDE DEF f
    <3>1. IsFiniteSet({f[p] : p \in K \X (1..Prints)})
      BY <2>3, <3>0, FiniteImage
    <3> QED BY <3>1, <3>2
  <2>5. PrintMessages(v) = {Q(p) : p \in K \X (1..Prints)}
    <3> HIDE DEF K
    <3>1. ASSUME NEW m \in {P(k, i) : k \in K, i \in 1..Prints}
          PROVE  m \in {Q(p) : p \in K \X (1..Prints)}
      <4>1. PICK k \in K, i \in 1..Prints : m = P(k, i)
        OBVIOUS
      <4> HIDE DEF P
      <4>2. <<k, i>> \in K \X (1..Prints) /\ <<k, i>>[1] = k /\ <<k, i>>[2] = i
        OBVIOUS
      <4>3. m = Q(<<k, i>>)
        BY <4>1, <4>2
      <4> HIDE DEF Q
      <4> QED BY <4>2, <4>3
    <3>2. ASSUME NEW p \in K \X (1..Prints)
          PROVE  Q(p) \in {P(k, i) : k \in K, i \in 1..Prints}
      <4>1. p[1] \in K /\ p[2] \in 1..Prints
        OBVIOUS
      <4>2. \E k \in K : \E i \in 1..Prints : Q(p) = P(k, i)
        BY <4>1
      <4> HIDE DEF P
      <4> QED BY <4>2
    <3> HIDE DEF P, Q
    <3>3. \A m \in PrintMessages(v) : m \in {Q(p) : p \in K \X (1..Prints)}
      BY <1>2, <3>1
    <3>4. \A m \in {Q(p) : p \in K \X (1..Prints)} : m \in PrintMessages(v)
      BY <1>2, <3>2
    <3> QED BY <3>3, <3>4
  <2> QED BY <2>4, <2>5
<1>4. ASSUME NEW m \in PrintMessages(v)
      PROVE  /\ m.cmd = "print" /\ m.key \in KeptLists
             /\ m.entry = Entry("action_script_print", "text")
             /\ \E j \in 1..Prints : m.n = <<v, j>>
  <2>1. PICK k \in K, j \in 1..Prints : m = P(k, j)
    BY <1>2, <1>4
  <2>2. /\ m.cmd = "print" /\ m.key = k /\ m.entry = Entry("action_script_print", "text")
        /\ m.n = <<v, j>>
    BY <2>1
  <2> QED BY <1>1, <2>2
<1> QED BY <1>3, <1>4

IsSeq(q) == \E S : q \in Seq(S)

LEMMA ShortSeqs ==
  /\ IsSeq(<<>>) /\ Len(<<>>) = 0
  /\ \A x : IsSeq(<<x>>) /\ Len(<<x>>) = 1 /\ <<x>>[1] = x
  /\ \A x, y : IsSeq(<<x, y>>) /\ Len(<<x, y>>) = 2 /\ <<x, y>>[1] = x /\ <<x, y>>[2] = y
<1>1. IsSeq(<<>>)
  <2>1. <<>> \in Seq({})
    OBVIOUS
  <2> QED BY <2>1 DEF IsSeq
<1>2. ASSUME NEW x PROVE IsSeq(<<x>>)
  <2>1. <<x>> \in Seq({x})
    OBVIOUS
  <2> QED BY <2>1 DEF IsSeq
<1>3. ASSUME NEW x, NEW y PROVE IsSeq(<<x, y>>)
  <2>1. <<x, y>> \in Seq({x, y})
    OBVIOUS
  <2> QED BY <2>1 DEF IsSeq
<1> QED BY <1>1, <1>2, <1>3

LEMMA ConcatIs ==
  ASSUME NEW p, NEW q, IsSeq(p), IsSeq(q)
  PROVE  /\ IsSeq(p \o q) /\ Len(p) \in Nat /\ Len(q) \in Nat
         /\ Len(p \o q) = Len(p) + Len(q)
         /\ \A i \in 1..Len(p) : (p \o q)[i] = p[i]
         /\ \A i \in Len(p) + 1..Len(p) + Len(q) : (p \o q)[i] = q[i - Len(p)]
<1>1. PICK S : p \in Seq(S)
  BY DEF IsSeq
<1>2. PICK T : q \in Seq(T)
  BY DEF IsSeq
<1>3. p \in Seq(S \cup T) /\ q \in Seq(S \cup T)
  BY <1>1, <1>2, SeqMonotonic
<1>4. /\ p \o q \in Seq(S \cup T) /\ Len(p \o q) = Len(p) + Len(q)
      /\ \A i \in 1..Len(p) + Len(q) :
           (p \o q)[i] = IF i <= Len(p) THEN p[i] ELSE q[i - Len(p)]
  BY <1>3, ConcatProperties
<1>5. Len(p) \in Nat /\ Len(q) \in Nat
  BY <1>1, <1>2
<1>6. IsSeq(p \o q)
  BY <1>4 DEF IsSeq
<1>7. ASSUME NEW i \in 1..Len(p) PROVE (p \o q)[i] = p[i]
  BY <1>4, <1>5
<1>8. ASSUME NEW i \in Len(p) + 1..Len(p) + Len(q) PROVE (p \o q)[i] = q[i - Len(p)]
  BY <1>4, <1>5
<1> QED BY <1>4, <1>5, <1>6, <1>7, <1>8

LEMMA SentIs ==
  ASSUME NEW q, IsSeq(q), q # <<>>, NEW msgs
  PROVE  /\ IsSeq(Sending(q, msgs)) /\ Len(q) \in Nat \ {0} /\ Len(Sending(q, msgs)) = Len(q)
         /\ \A i \in 1..Len(q) - 1 : Sending(q, msgs)[i] = q[i]
         /\ Sending(q, msgs)[Len(q)].write = q[Len(q)].write
         /\ Sending(q, msgs)[Len(q)].then = q[Len(q)].then \cup msgs
<1>1. PICK S : q \in Seq(S)
  BY DEF IsSeq
<1>2. Len(q) \in Nat \ {0}
  BY <1>1
<1>3. /\ Sending(q, msgs) \in Seq(S \cup {Sending(q, msgs)[Len(q)]})
      /\ Len(Sending(q, msgs)) = Len(q)
      /\ \A i \in 1..Len(q) - 1 : Sending(q, msgs)[i] = q[i]
      /\ Sending(q, msgs)[Len(q)] = Stretch(q[Len(q)].write, q[Len(q)].then \cup msgs)
  BY <1>1, SendingIs
<1>4. IsSeq(Sending(q, msgs))
  BY <1>3 DEF IsSeq
<1>5. /\ Sending(q, msgs)[Len(q)].write = q[Len(q)].write
      /\ Sending(q, msgs)[Len(q)].then = q[Len(q)].then \cup msgs
  BY <1>3 DEF Stretch
<1> QED BY <1>2, <1>3, <1>4, <1>5

LEMMA StretchOf ==
  ASSUME NEW w, NEW msgs
  PROVE  Stretch(w, msgs).write = w /\ Stretch(w, msgs).then = msgs
BY DEF Stretch

(* How long the beginning is, and its stretches.                             *)
LEMMA BeginningIs ==
  ASSUME NEW v \in Visits, NEW o \in Outcome
  PROVE  /\ IsSeq(Beginning(v, o))
         /\ FirstOf(v, o) = IF Skipped(o) \/ ~Tracked(v) THEN 1 ELSE 2
         /\ \A i \in 1..FirstOf(v, o) : StretchIs(v, o, i, Beginning(v, o)[i])
<1> DEFINE first == Stretch(Update(Status(StepOf[v]), [start |-> v]), {})
           second == Stretch(CaseStatusOf(v, "running"), {})
           running == IF Skipped(o) \/ ~Tracked(v) THEN <<>> ELSE <<second>>
           type == IF Skipped(o) THEN "step_skipped" ELSE "step_running"
           msgs == Messages(v, ToldOfStart(v, o), Entry(type, v))
           b == IF Skipped(o) \/ ~Tracked(v) THEN 1 ELSE 2
           q == <<first>> \o running
<1>1. /\ IsFiniteSet(msgs)
      /\ \A m \in msgs : Sent(v, m) /\ m.entry.type \in {"step_skipped", "step_running"}
  <2>1. ToldOfStart(v, o) \in SUBSET Recipients
    BY DEF ToldOfStart, Recipients
  <2>2. type \in {"step_skipped", "step_running"} /\ type \in Types
    BY DEF Types
  <2>3. /\ IsFiniteSet(msgs)
        /\ \A m \in msgs : Sent(v, m) /\ m.entry.type = type
    <3> HIDE DEF type
    <3> QED BY <2>1, <2>2, MessagesAre
  <2> HIDE DEF msgs, type
  <2> QED BY <2>2, <2>3
<1>2. Beginning(v, o) = Sending(q, msgs)
  BY DEF Beginning
<1>3. /\ first.write = Update(Status(StepOf[v]), [start |-> v]) /\ first.then = {}
      /\ second.write = CaseStatusOf(v, "running") /\ second.then = {}
  BY StretchOf
<1> HIDE DEF first, second, msgs
<1>4. IsSeq(running) /\ Len(running) = b - 1 /\ (b = 2 => running[1] = second)
  BY ShortSeqs
<1> HIDE DEF running
<1>5. /\ IsSeq(q) /\ Len(q) = b /\ q[1] = first /\ (b = 2 => q[2] = second)
  <2>1. IsSeq(<<first>>) /\ Len(<<first>>) = 1 /\ <<first>>[1] = first
    BY ShortSeqs
  <2> QED BY <1>4, <2>1, ConcatIs
<1> HIDE DEF q
<1>6. q # <<>>
  BY <1>5
<1>7. /\ IsSeq(Sending(q, msgs)) /\ Len(Sending(q, msgs)) = b
      /\ \A i \in 1..b - 1 : Sending(q, msgs)[i] = q[i]
      /\ Sending(q, msgs)[b].write = q[b].write
      /\ Sending(q, msgs)[b].then = q[b].then \cup msgs
  BY <1>5, <1>6, SentIs
<1>8. FirstOf(v, o) = b
  BY <1>2, <1>7 DEF FirstOf
<1>9. ASSUME NEW m \in msgs
      PROVE  VisitMessage(v, o, b, m)
  BY <1>1, <1>8 DEF VisitMessage
<1>10. ASSUME NEW i \in 1..b
       PROVE  StretchIs(v, o, i, Sending(q, msgs)[i])
  <2> DEFINE x == Sending(q, msgs)[i]
  <2>1. /\ i = 1 => q[i] = first
        /\ i = 2 => q[i] = second /\ b = 2
        /\ i \in {1, 2}
    BY <1>5
  <2>2. x.write = q[i].write /\ (i # b => x.then = {}) /\ (i = b => x.then = msgs)
    <3>1. q[i].then = {}
      BY <1>3, <2>1
    <3>2. CASE i = b
      BY <1>7, <3>1, <3>2
    <3>3. CASE i # b
      <4>1. i \in 1..b - 1
        BY <3>3
      <4> QED BY <1>7, <3>1, <3>3, <4>1
    <3> QED BY <3>2, <3>3
  <2> HIDE DEF x
  <2>3. VisitWrite(v, o, i, x.write)
    BY <1>3, <1>8, <2>1, <2>2 DEF VisitWrite
  <2>4. IsFiniteSet(x.then) /\ \A m \in x.then : VisitMessage(v, o, i, m)
    BY <1>1, <1>9, <2>2, FS_EmptySet
  <2>5. StretchIs(v, o, i, x)
    BY <2>3, <2>4 DEF StretchIs
  <2> QED BY <2>5 DEF x
<1> QED BY <1>2, <1>7, <1>8, <1>10

(* Its core.                                                                 *)
LEMMA CoreIs ==
  ASSUME NEW v \in Visits, NEW o \in Outcome
  PROVE  LET b == FirstOf(v, o)
         IN /\ IsSeq(Core(v, o))
            /\ b \in Nat /\ BodyOf[v][o] = b + Len(Core(v, o))
            /\ Len(Core(v, o)) = CASE KindOf[v] = "interface" /\ o = "success" -> 2
                                   [] KindOf[v] = "interface" /\ o = "error"   -> 1
                                   [] KindOf[v] = "script" /\ ~Skipped(o)    -> 1
                                   [] OTHER                                    -> 0
            /\ \A i \in 1..Len(Core(v, o)) : StretchIs(v, o, b + i, Core(v, o)[i])
<1> DEFINE details == Stretch(Sets(Detail(v), [of |-> v]), {})
           told == Messages(v, Recipients \ {"step"}, Entry("interface", v))
           pointer == Stretch(Pushes(Process(StepOf[v]), Pointer(v)), told)
           announced == Stretch(Pushes(Process(StepOf[v]), Entry("action_script", v)), PrintMessages(v))
           b == FirstOf(v, o)
           c == BodyOf[v][o]
           q == Core(v, o)
<1>1. IsSeq(Beginning(v, o)) /\ b \in Nat /\ b = Len(Beginning(v, o))
  BY BeginningIs DEF FirstOf
<1>2. /\ details.write = Sets(Detail(v), [of |-> v]) /\ details.then = {}
      /\ pointer.write = Pushes(Process(StepOf[v]), Pointer(v)) /\ pointer.then = told
      /\ announced.write = Pushes(Process(StepOf[v]), Entry("action_script", v))
      /\ announced.then = PrintMessages(v)
  BY StretchOf
<1>3. /\ IsFiniteSet(told)
      /\ \A m \in told : Sent(v, m) /\ m.entry.type = "interface"
      /\ KindOf[v] = "interface" => \A m \in told : m.key # Process(StepOf[v])
  <2>1. /\ Recipients \ {"step"} \in SUBSET Recipients /\ "step" \notin Recipients \ {"step"}
        /\ "interface" \in Types
    BY DEF Types
  <2> QED BY <2>1, MessagesAre
<1>4. q = CASE KindOf[v] = "interface" /\ o = "success" -> <<details, pointer>>
            [] KindOf[v] = "interface" /\ o = "error"   -> <<details>>
            [] KindOf[v] = "script" /\ ~Skipped(o)    -> <<announced>>
            [] OTHER                                    -> <<>>
  BY DEF Core, Pointer
<1>5. BodyOf[v][o] = Len(Beginning(v, o) \o q)
  BY DEF BodyOf
<1> HIDE DEF details, pointer, announced, told, q
<1>6. /\ IsSeq(q) /\ Len(q) \in Nat
      /\ Len(q) = CASE KindOf[v] = "interface" /\ o = "success" -> 2
                    [] KindOf[v] = "interface" /\ o = "error"   -> 1
                    [] KindOf[v] = "script" /\ ~Skipped(o)    -> 1
                    [] OTHER                                    -> 0
  BY <1>4, ShortSeqs
<1>7. c = b + Len(q)
  <2>1. Len(Beginning(v, o) \o q) = Len(Beginning(v, o)) + Len(q)
    BY <1>1, <1>6, ConcatIs
  <2> QED BY <1>1, <1>5, <2>1
<1>8. CASE KindOf[v] = "interface" /\ o = "success"
  <2>1. q[1] = details /\ q[2] = pointer /\ c = b + 2 /\ 1..Len(q) = {1, 2}
    BY <1>4, <1>6, <1>7, <1>8, ShortSeqs
  <2>2. StretchIs(v, o, b + 1, details)
    BY <1>1, <1>2, <1>8, <2>1, FS_EmptySet DEF StretchIs, VisitWrite, Skipped
  <2>3. StretchIs(v, o, b + 2, pointer)
    <3>1. VisitWrite(v, o, b + 2, pointer.write)
      BY <1>1, <1>2, <1>8, <2>1 DEF VisitWrite
    <3>2. \A m \in told : VisitMessage(v, o, b + 2, m)
      BY <1>3, <1>8, <2>1 DEF VisitMessage
    <3> QED BY <1>2, <1>3, <3>1, <3>2 DEF StretchIs
  <2> QED BY <1>1, <1>6, <1>7, <2>1, <2>2, <2>3 DEF q
<1>9. CASE KindOf[v] = "interface" /\ o = "error"
  <2>1. q[1] = details /\ c = b + 1 /\ 1..Len(q) = {1}
    BY <1>4, <1>6, <1>7, <1>9, ShortSeqs
  <2>2. StretchIs(v, o, b + 1, details)
    BY <1>1, <1>2, <1>9, <2>1, FS_EmptySet DEF StretchIs, VisitWrite, Skipped
  <2> QED BY <1>1, <1>6, <1>7, <2>1, <2>2 DEF q
<1>10. CASE KindOf[v] = "script" /\ ~Skipped(o)
  <2>1. q[1] = announced /\ c = b + 1 /\ 1..Len(q) = {1}
    BY <1>4, <1>6, <1>7, <1>10, ShortSeqs
  <2>2. VisitWrite(v, o, b + 1, announced.write)
    BY <1>1, <1>2, <1>10, <2>1 DEF VisitWrite
  <2>3. IsFiniteSet(PrintMessages(v)) /\ \A m \in PrintMessages(v) : VisitMessage(v, o, b + 1, m)
    BY <1>10, <2>1, PrintsAre DEF VisitMessage
  <2>4. StretchIs(v, o, b + 1, announced)
    BY <1>2, <2>2, <2>3 DEF StretchIs
  <2> QED BY <1>1, <1>6, <1>7, <2>1, <2>4 DEF q
<1>11. CASE ~(KindOf[v] = "interface" /\ o \in {"success", "error"})
            /\ ~(KindOf[v] = "script" /\ ~Skipped(o))
  <2>1. Len(q) = 0 /\ 1..Len(q) = {}
    BY <1>6, <1>11
  <2> QED BY <1>1, <1>6, <1>7, <2>1 DEF q
<1> QED BY <1>8, <1>9, <1>10, <1>11 DEF Outcome

(* Its ending, after a beginning and a core of c stretches.                  *)
LEMMA EndingIs ==
  ASSUME NEW v \in Visits, NEW o \in Outcome
  PROVE  LET c == BodyOf[v][o]
         IN /\ IsSeq(Ending(v, o)) /\ c \in Nat
            /\ Len(Ending(v, o)) = IF Tracked(v) THEN 3 ELSE 1
            /\ Len(ProgramOf[v][o]) = c + Len(Ending(v, o))
            /\ \A i \in 1..Len(Ending(v, o)) : StretchIs(v, o, c + i, Ending(v, o)[i])
<1> DEFINE count == Stretch(InList(StepCount(o)), {})
           case == Stretch(CaseStatusOf(v, StatusOf(o)), {})
           step == Stretch(Update(Status(StepOf[v]), [end |-> v, status |-> StatusOf(o)]), {})
           shown == IF ~Tracked(v) THEN <<>> ELSE <<case, step>>
           type == IF KindOf[v] = "interface" THEN "interface" ELSE "system_exception"
           msgs == IF StatusOf(o) = "error" THEN Messages(v, ToldOfError(v), Entry(type, v)) ELSE {}
           c == BodyOf[v][o]
           e == IF Tracked(v) THEN 3 ELSE 1
           q == <<count>> \o shown
           before == Beginning(v, o) \o Core(v, o)
<1>1. /\ IsFiniteSet(msgs)
      /\ \A m \in msgs : /\ Sent(v, m) /\ m.entry.type \in {"interface", "system_exception"}
                         /\ StatusOf(o) = "error"
  <2>1. ToldOfError(v) \in SUBSET Recipients
    BY DEF ToldOfError, Recipients
  <2>2. type \in {"interface", "system_exception"} /\ type \in Types
    BY DEF Types
  <2> DEFINE sent1 == Messages(v, ToldOfError(v), Entry(type, v))
  <2>3. IsFiniteSet(sent1) /\ \A m \in sent1 : Sent(v, m) /\ m.entry.type = type
    <3>1. PICK t : t = type
      OBVIOUS
    <3>2. PICK to : to = ToldOfError(v)
      OBVIOUS
    <3>3. t \in Types /\ to \in SUBSET Recipients /\ sent1 = Messages(v, to, Entry(t, v))
      BY <2>1, <2>2, <3>1, <3>2
    <3> HIDE DEF type, sent1, count, case, step, shown, msgs, c, e, q, before
    <3>4. /\ IsFiniteSet(Messages(v, to, Entry(t, v)))
          /\ \A m \in Messages(v, to, Entry(t, v)) : Sent(v, m) /\ m.entry.type = t
      BY <3>3, MessagesAre
    <3> QED BY <3>1, <3>3, <3>4
  <2>4. msgs = IF StatusOf(o) = "error" THEN sent1 ELSE {}
    OBVIOUS
  <2> HIDE DEF sent1, type, msgs
  <2> QED BY <2>2, <2>3, <2>4, FS_EmptySet
<1>2. Ending(v, o) = Sending(q, msgs)
  <2>1. ErrorEntry(v) = Entry(type, v)
    BY DEF ErrorEntry, Pointer
  <2> QED BY <2>1 DEF Ending
<1>3. /\ count.write = InList(StepCount(o)) /\ count.then = {}
      /\ case.write = CaseStatusOf(v, StatusOf(o)) /\ case.then = {}
      /\ step.write = Update(Status(StepOf[v]), [end |-> v, status |-> StatusOf(o)]) /\ step.then = {}
  BY StretchOf
<1>4. IsSeq(before) /\ c \in Nat /\ Len(before) = c
  <2>1. IsSeq(Beginning(v, o)) /\ IsSeq(Core(v, o))
    BY BeginningIs, CoreIs
  <2>2. c = Len(before)
    BY DEF BodyOf
  <2> HIDE DEF c
  <2> QED BY <2>1, <2>2, ConcatIs
<1> HIDE DEF count, case, step, msgs
<1>5. /\ IsSeq(shown) /\ Len(shown) = e - 1
      /\ Tracked(v) => shown[1] = case /\ shown[2] = step
  BY ShortSeqs
<1> HIDE DEF shown
<1>6. /\ IsSeq(q) /\ Len(q) = e /\ q[1] = count
      /\ Tracked(v) => q[2] = case /\ q[3] = step
  <2>1. IsSeq(<<count>>) /\ Len(<<count>>) = 1 /\ <<count>>[1] = count
    BY ShortSeqs
  <2> QED BY <1>5, <2>1, ConcatIs
<1> HIDE DEF q, before
<1>7. q # <<>>
  BY <1>6
<1>8. /\ IsSeq(Sending(q, msgs)) /\ Len(Sending(q, msgs)) = e
      /\ \A i \in 1..e - 1 : Sending(q, msgs)[i] = q[i]
      /\ Sending(q, msgs)[e].write = q[e].write
      /\ Sending(q, msgs)[e].then = q[e].then \cup msgs
  BY <1>6, <1>7, SentIs
<1>9. Len(ProgramOf[v][o]) = c + e
  <2>1. ProgramOf[v][o] = before \o Ending(v, o)
    BY DEF ProgramOf, before
  <2>2. IsSeq(Ending(v, o)) /\ Len(Ending(v, o)) = e
    BY <1>2, <1>8
  <2>3. Len(before \o Ending(v, o)) = Len(before) + Len(Ending(v, o))
    BY <1>4, <2>2, ConcatIs
  <2> QED BY <1>4, <2>1, <2>2, <2>3
<1>10. ASSUME NEW m \in msgs
       PROVE  VisitMessage(v, o, c + e, m)
  BY <1>1, <1>9 DEF VisitMessage
<1>11. ASSUME NEW i \in 1..e
       PROVE  StretchIs(v, o, c + i, Sending(q, msgs)[i])
  <2> DEFINE x == Sending(q, msgs)[i]
  <2>1. /\ i = 1 => q[i] = count
        /\ i = 2 => q[i] = case /\ Tracked(v)
        /\ i = 3 => q[i] = step /\ Tracked(v)
        /\ i \in {1, 2, 3}
    BY <1>6
  <2>2. x.write = q[i].write /\ (i # e => x.then = {}) /\ (i = e => x.then = msgs)
    <3>1. q[i].then = {}
      BY <1>3, <2>1
    <3>2. CASE i = e
      BY <1>8, <3>1, <3>2
    <3>3. CASE i # e
      <4>1. i \in 1..e - 1
        BY <3>3
      <4> QED BY <1>8, <3>1, <3>3, <4>1
    <3> QED BY <3>2, <3>3
  <2> HIDE DEF x
  <2>3. VisitWrite(v, o, c + i, x.write)
    <3>1. CASE i = 1
      BY <1>3, <2>1, <2>2, <3>1 DEF VisitWrite
    <3>2. CASE i = 2
      BY <1>3, <2>1, <2>2, <3>2 DEF VisitWrite
    <3>3. CASE i = 3
      BY <1>3, <2>1, <2>2, <3>3 DEF VisitWrite
    <3> QED BY <2>1, <3>1, <3>2, <3>3
  <2>4. IsFiniteSet(x.then) /\ \A m \in x.then : VisitMessage(v, o, c + i, m)
    BY <1>1, <1>10, <2>2, FS_EmptySet
  <2>5. StretchIs(v, o, c + i, x)
    BY <2>3, <2>4 DEF StretchIs
  <2> QED BY <2>5 DEF x
<1> QED BY <1>2, <1>4, <1>8, <1>9, <1>11

(* The whole program.                                                        *)
LEMMA ProgramIs ==
  ASSUME NEW v \in Visits, NEW o \in Outcome
  PROVE  /\ PartsAre(v, o) /\ Len(ProgramOf[v][o]) \in Nat
         /\ \A i \in 1..Len(ProgramOf[v][o]) : StretchIs(v, o, i, ProgramOf[v][o][i])
<1> DEFINE b == FirstOf(v, o)
           c == BodyOf[v][o]
           n == Len(ProgramOf[v][o])
           before == Beginning(v, o) \o Core(v, o)
<1>1. /\ IsSeq(Beginning(v, o)) /\ IsSeq(Core(v, o)) /\ IsSeq(Ending(v, o))
      /\ b = Len(Beginning(v, o)) /\ b \in Nat /\ c = b + Len(Core(v, o)) /\ c \in Nat
      /\ n = c + Len(Ending(v, o))
      /\ Len(Core(v, o)) \in Nat /\ Len(Ending(v, o)) \in Nat
      /\ ProgramOf[v][o] = before \o Ending(v, o)
  <2>1. IsSeq(Beginning(v, o)) /\ IsSeq(Core(v, o)) /\ IsSeq(Ending(v, o))
    BY BeginningIs, CoreIs, EndingIs
  <2>2. Len(Core(v, o)) \in Nat /\ Len(Ending(v, o)) \in Nat
    BY <2>1, ConcatIs
  <2>3. b = Len(Beginning(v, o)) /\ ProgramOf[v][o] = before \o Ending(v, o)
    BY DEF FirstOf, ProgramOf
  <2> QED BY <2>1, <2>2, <2>3, CoreIs, EndingIs
<1>2. PartsAre(v, o) /\ n \in Nat
  <2>1. b = IF Skipped(o) \/ ~Tracked(v) THEN 1 ELSE 2
    BY BeginningIs
  <2>2. c = b + (CASE KindOf[v] = "interface" /\ o = "success" -> 2
                   [] KindOf[v] = "interface" /\ o = "error"   -> 1
                   [] KindOf[v] = "script" /\ ~Skipped(o)    -> 1
                   [] OTHER                                    -> 0)
    BY CoreIs
  <2>3. n = IF Tracked(v) THEN c + 3 ELSE c + 1
    BY EndingIs
  <2>4. c \in Nat /\ n \in Nat
    BY <1>1
  <2> QED BY <2>1, <2>2, <2>3, <2>4 DEF PartsAre
<1>3. /\ IsSeq(before) /\ Len(before) = c
      /\ \A i \in 1..b : before[i] = Beginning(v, o)[i]
      /\ \A i \in b + 1..c : before[i] = Core(v, o)[i - b]
  <2> HIDE DEF b, c
  <2> QED BY <1>1, ConcatIs
<1>4. /\ \A i \in 1..c : ProgramOf[v][o][i] = before[i]
      /\ \A i \in c + 1..n : ProgramOf[v][o][i] = Ending(v, o)[i - c]
  <2>1. PICK end : end = Ending(v, o)
    OBVIOUS
  <2> HIDE DEF b, before, c, n
  <2>2. IsSeq(end) /\ ProgramOf[v][o] = before \o end /\ n = c + Len(end)
    BY <1>1, <2>1
  <2>3. /\ \A i \in 1..c : (before \o end)[i] = before[i]
        /\ \A i \in c + 1..c + Len(end) : (before \o end)[i] = end[i - c]
    BY <1>3, <2>2, ConcatIs
  <2> QED BY <2>1, <2>2, <2>3
<1>5. ASSUME NEW i \in 1..n
      PROVE  StretchIs(v, o, i, ProgramOf[v][o][i])
  <2> HIDE DEF before, n
  <2>1. CASE i <= b
    <3>1. i \in 1..b /\ i \in 1..c
      BY <1>1, <2>1
    <3>2. StretchIs(v, o, i, Beginning(v, o)[i])
      BY <3>1, BeginningIs
    <3> QED BY <1>3, <1>4, <3>1, <3>2
  <2>2. CASE b < i /\ i <= c
    <3>1. i \in b + 1..c /\ i \in 1..c /\ i - b \in 1..Len(Core(v, o)) /\ b + (i - b) = i
      BY <1>1, <2>2
    <3>2. StretchIs(v, o, b + (i - b), Core(v, o)[i - b])
      BY <3>1, CoreIs
    <3> QED BY <1>3, <1>4, <3>1, <3>2
  <2>3. CASE c < i
    <3>1. i \in c + 1..n /\ i - c \in 1..Len(Ending(v, o)) /\ c + (i - c) = i
      BY <1>1, <2>3
    <3>2. StretchIs(v, o, c + (i - c), Ending(v, o)[i - c])
      BY <3>1, EndingIs
    <3> QED BY <1>4, <3>1, <3>2
  <2>4. i <= b \/ (b < i /\ i <= c) \/ c < i
    <3> HIDE DEF b, c
    <3> QED BY <1>1
  <2> QED BY <2>1, <2>2, <2>3, <2>4
<1> QED BY <1>2, <1>5

-----------------------------------------------------------------------------
(* What the writes and messages of a visit can do to lists.                  *)

LEMMA WritesAreOK ==
  /\ \A k, fields : k \notin Lists => WriteOK(Update(k, fields)) /\ WriteOK(Increment(k, fields))
  /\ \A fields : WriteOK(InList(fields))
  /\ \A k : \A e \in Fresh : WriteOK(Pushes(k, e))
  /\ \A k, val : k \notin Lists => WriteOK(Sets(k, val))
  /\ \A new : DOMAIN new \cap Lists = {} => WriteOK(SetsAll(new))
  /\ \A new : (\A k \in DOMAIN new \cap Lists : new[k] \in Fresh) => WriteOK(PushesAll(new))
BY KeyKinds DEF WriteOK, Commands, Update, Increment, InList, Pushes, Sets, SetsAll, PushesAll

LEMMA VisitWriteOK ==
  ASSUME NEW v \in Visits, NEW o, NEW i, NEW w, VisitWrite(v, o, i, w)
  PROVE  WriteOK(w)
<1>1. Pointer(v) \in Fresh /\ Entry("action_script", v) \in Fresh
  BY FreshAre DEF Pointer, Types
<1>2. /\ WriteOK(Update(Status(StepOf[v]), [start |-> v]))
      /\ WriteOK(CaseStatusOf(v, "running")) /\ WriteOK(CaseStatusOf(v, StatusOf(o)))
      /\ WriteOK(Sets(Detail(v), [of |-> v]))
      /\ WriteOK(Pushes(Process(StepOf[v]), Pointer(v)))
      /\ WriteOK(Pushes(Process(StepOf[v]), Entry("action_script", v)))
      /\ WriteOK(InList(StepCount(o)))
      /\ WriteOK(Update(Status(StepOf[v]), [end |-> v, status |-> StatusOf(o)]))
  BY <1>1, WritesAreOK, KeyKinds DEF CaseStatusOf
<1> QED BY <1>2 DEF VisitWrite

(* A message is pushed, or printed, to a list that is kept.                  *)
MessageOK(m) ==
  /\ m.cmd \in {"push", "print"} /\ m.key \in KeptLists
  /\ m.entry \in Fresh

LEMMA VisitMessageOK ==
  ASSUME NEW v \in Visits, NEW o, NEW i, NEW m, VisitMessage(v, o, i, m)
  PROVE  MessageOK(m)
<1>1. Entry("action_script_print", "text") \in Fresh
  BY FreshAre DEF Types, Texts
<1>2. \A type \in Types : Entry(type, v) \in Fresh
  BY FreshAre
<1> QED BY <1>1, <1>2 DEF VisitMessage, Sent, MessageOK

(* A message is sent once: it tells the visit and the stretch it is of.      *)
LEMMA MessagesDiffer ==
  ASSUME NEW u \in Visits, NEW v \in Visits, NEW o, NEW x, NEW i, NEW j, NEW m,
         VisitMessage(u, o, i, m), VisitMessage(v, x, j, m), u = v => o = x
  PROVE  u = v /\ i = j
<1>1. u = v
  BY DEF VisitMessage, Sent
<1>2. \A type, desc : Entry(type, desc).type = type
  BY EntryIs
<1>3. /\ Sent(u, m) => m.cmd = "push"
      /\ m.entry = Entry("action_script_print", "text") => m.entry.type = "action_script_print"
  BY <1>2 DEF Sent
<1>4. ~(o = "success" /\ StatusOf(o) = "error")
  BY DEF StatusOf
<1> QED BY <1>1, <1>3, <1>4 DEF VisitMessage

-----------------------------------------------------------------------------
(* The writes of the task.                                                   *)

FirstInfo == Sets(TaskInfo, InfoOf("pending"))
FirstRecord == Sets(RecordInfo, [status |-> "pending", done_child_case_count |-> 0])
FirstStatuses == SetsAll([k \in {Status(s) : s \in Steps} |-> InfoOf("mid_pending")])
FirstLists ==
  PushesAll([k \in ({Process(s) : s \in Steps} \cup {Summary}) \cap KeptLists |-> Waiting])
FirstCounters ==
  PushesAll([k \in {ChildCases} |->
    [status |-> "pending", done_step_count |-> 0, failed_step_count |-> 0,
     skipped_step_count |-> 0]])
FirstCases == SetsAll([k \in {CaseStatus} |-> [s \in Steps |-> "mid_pending"]])
FirstOfCase == PushesAll([k \in {CaseProcess} \cap KeptLists |-> Waiting])

(* The i-th write of stage at.                                               *)
TaskWrite(at, i, w) ==
  \/ /\ at = "open"
     /\ \/ i = 1 /\ w = FirstInfo
        \/ i = 2 /\ w = FirstRecord
        \/ i = 3 /\ w = FirstStatuses
        \/ i = 4 /\ w = FirstLists
        \/ i = 5 /\ w = FirstCounters
        \/ i = 6 /\ w = FirstCases
        \/ i = 7 /\ w = FirstOfCase
        \/ i = 8 /\ w = Tells("task starts")
        \/ i = 9 /\ w = Tells("case starts")
        \/ i = 10 /\ w = InList(InfoOf("running"))
  \/ /\ at = "close"
     /\ \/ i = 1 /\ w = Increment(RecordInfo, [done_child_case_count |-> 1])
        \/ i = 2 /\ w = InList(InfoOf("end"))
        \/ i = 3 /\ w = Tells("case ends")
        \/ i = 4 /\ w = Tells("task ends")
        \/ i = 5 /\ w = Update(TaskInfo, InfoOf("end"))
        \/ i = 6 /\ w = Update(RecordInfo, InfoOf("end"))
  \/ /\ at = "case_error"
     /\ \/ i = 1 /\ w = InList(InfoOf("error"))
        \/ i = 2 /\ w = Tells("case ends")
        \/ i = 3 /\ w = Tells("task ends")
        \/ i = 4 /\ w = Update(TaskInfo, InfoOf("end"))
        \/ i = 5 /\ w = Update(RecordInfo, InfoOf("end"))
  \/ /\ at = "error"
     /\ \/ i = 1 /\ w = Tells("case fails")
        \/ i = 2 /\ w = Tells("task ends")
        \/ i = 3 /\ w = Update(TaskInfo, InfoOf("end"))
        \/ i = 4 /\ w = Update(RecordInfo, InfoOf("end"))
  \/ at = "fail" /\ i = 1 /\ w = Tells("task fails")

HowMany(at) ==
  CASE at = "open" -> 10 [] at = "close" -> 6 [] at = "case_error" -> 5 [] at = "error" -> 4
    [] at = "fail" -> 1 [] OTHER -> 0

LEMMA WritesAtAre ==
  ASSUME NEW at
  PROVE  /\ Len(WritesAt(at)) = HowMany(at)
         /\ \A i \in 1..HowMany(at) : TaskWrite(at, i, WritesAt(at)[i])
<1>1. CASE at = "open"
  <2>1. /\ IsSeq(Caching) /\ Len(Caching) = 7
        /\ Caching[1] = FirstInfo /\ Caching[2] = FirstRecord /\ Caching[3] = FirstStatuses
        /\ Caching[4] = FirstLists /\ Caching[5] = FirstCounters /\ Caching[6] = FirstCases
        /\ Caching[7] = FirstOfCase
    <3>1. Caching = <<FirstInfo, FirstRecord, FirstStatuses, FirstLists, FirstCounters, FirstCases,
                      FirstOfCase>>
      BY DEF Caching, FirstInfo, FirstRecord, FirstStatuses, FirstLists, FirstCounters,
         FirstCases, FirstOfCase
    <3>2. Caching \in Seq({FirstInfo, FirstRecord, FirstStatuses, FirstLists, FirstCounters,
                           FirstCases, FirstOfCase})
      BY <3>1
    <3> QED BY <3>1, <3>2 DEF IsSeq
  <2>2. /\ IsSeq(Opening) /\ Len(Opening) = 3
        /\ Opening[1] = Tells("task starts") /\ Opening[2] = Tells("case starts")
        /\ Opening[3] = InList(InfoOf("running"))
    <3> DEFINE a == Tells("task starts")
               b == Tells("case starts")
               c == InList(InfoOf("running"))
    <3>1. Opening = <<a, b, c>>
      BY DEF Opening
    <3> HIDE DEF a, b, c
    <3>2. Opening \in Seq({a, b, c})
      BY <3>1
    <3>3. IsSeq(Opening) /\ Len(Opening) = 3 /\ Opening[1] = a /\ Opening[2] = b /\ Opening[3] = c
      BY <3>1, <3>2 DEF IsSeq
    <3> QED BY <3>3 DEF a, b, c
  <2>3. WritesAt(at) = Caching \o Opening /\ HowMany(at) = 10
    BY <1>1 DEF WritesAt, HowMany
  <2>4. /\ Len(WritesAt(at)) = 10
        /\ \A i \in 1..7 : WritesAt(at)[i] = Caching[i]
        /\ WritesAt(at)[8] = Opening[1] /\ WritesAt(at)[9] = Opening[2]
        /\ WritesAt(at)[10] = Opening[3]
    <3>1. PICK first : first = Caching
      OBVIOUS
    <3>2. PICK end : end = Opening
      OBVIOUS
    <3>3. PICK whole : whole = first \o end
      OBVIOUS
    <3>4. IsSeq(first) /\ IsSeq(end) /\ Len(first) = 7 /\ Len(end) = 3
      BY <2>1, <2>2, <3>1, <3>2
    <3>5. /\ Len(whole) = Len(first) + Len(end)
          /\ \A i \in 1..Len(first) : whole[i] = first[i]
          /\ \A i \in Len(first) + 1..Len(first) + Len(end) : whole[i] = end[i - Len(first)]
      BY <3>3, <3>4, ConcatIs
    <3>6. /\ whole[8] = end[8 - 7] /\ whole[9] = end[9 - 7] /\ whole[10] = end[10 - 7]
          /\ 8 - 7 = 1 /\ 9 - 7 = 2 /\ 10 - 7 = 3
      BY <3>4, <3>5
    <3>7. Len(whole) = 10 /\ \A i \in 1..7 : whole[i] = first[i]
      BY <3>4, <3>5
    <3>8. PICK writes : writes = WritesAt(at)
      OBVIOUS
    <3>9. writes = whole
      BY <2>3, <3>1, <3>2, <3>3, <3>8
    <3>10. /\ Len(writes) = 10 /\ \A i \in 1..7 : writes[i] = first[i]
           /\ writes[8] = end[1] /\ writes[9] = end[2] /\ writes[10] = end[3]
      BY <3>6, <3>7, <3>9
    <3> QED BY <3>1, <3>2, <3>8, <3>10, Zenon
  <2>5. ASSUME NEW i \in 1..7 PROVE TaskWrite(at, i, WritesAt(at)[i])
    <3>1. i \in {1, 2, 3, 4, 5, 6, 7} /\ WritesAt(at)[i] = Caching[i]
      BY <2>4
    <3> QED BY <1>1, <2>1, <3>1 DEF TaskWrite
  <2>6. ASSUME NEW i \in 8..10 PROVE TaskWrite(at, i, WritesAt(at)[i])
    <3>1. /\ TaskWrite(at, 8, WritesAt(at)[8]) /\ TaskWrite(at, 9, WritesAt(at)[9])
          /\ TaskWrite(at, 10, WritesAt(at)[10])
      BY <1>1, <2>2, <2>4 DEF TaskWrite
    <3>2. i = 8 \/ i = 9 \/ i = 10
      OBVIOUS
    <3> QED BY <3>1, <3>2
  <2>7. \A i \in 1..10 : i \in 1..7 \/ i \in 8..10
    OBVIOUS
  <2> QED BY <2>3, <2>4, <2>5, <2>6, <2>7
<1>2. CASE at = "close"
  <2> DEFINE a == Increment(RecordInfo, [done_child_case_count |-> 1])
             b == InList(InfoOf("end"))
             c == Tells("case ends")
             d == Tells("task ends")
             e == Update(TaskInfo, InfoOf("end"))
             f == Update(RecordInfo, InfoOf("end"))
  <2>1. WritesAt(at) = <<a, b, c, d, e, f>> /\ HowMany(at) = 6
    BY <1>2 DEF WritesAt, Closing, HowMany
  <2>2. ASSUME NEW i \in 1..6 PROVE TaskWrite(at, i, WritesAt(at)[i])
    <3>1. TaskWrite(at, 1, a) /\ TaskWrite(at, 2, b) /\ TaskWrite(at, 3, c)
      BY <1>2 DEF TaskWrite
    <3>2. TaskWrite(at, 4, d) /\ TaskWrite(at, 5, e) /\ TaskWrite(at, 6, f)
      BY <1>2 DEF TaskWrite
    <3>3. i = 1 \/ i = 2 \/ i = 3 \/ i = 4 \/ i = 5 \/ i = 6
      OBVIOUS
    <3> HIDE DEF a, b, c, d, e, f
    <3> QED BY <2>1, <3>1, <3>2, <3>3
  <2> HIDE DEF a, b, c, d, e, f
  <2> QED BY <2>1, <2>2
<1>3. CASE at = "error"
  <2> DEFINE a == Tells("case fails")
             b == Tells("task ends")
             c == Update(TaskInfo, InfoOf("end"))
             d == Update(RecordInfo, InfoOf("end"))
  <2>1. WritesAt(at) = <<a, b, c, d>> /\ HowMany(at) = 4
    BY <1>3 DEF WritesAt, ClosingAfterError, HowMany
  <2>2. ASSUME NEW i \in 1..4 PROVE TaskWrite(at, i, WritesAt(at)[i])
    <3>1. TaskWrite(at, 1, a) /\ TaskWrite(at, 2, b) /\ TaskWrite(at, 3, c) /\ TaskWrite(at, 4, d)
      BY <1>3 DEF TaskWrite
    <3>3. i = 1 \/ i = 2 \/ i = 3 \/ i = 4
      OBVIOUS
    <3> HIDE DEF a, b, c, d
    <3> QED BY <2>1, <3>1, <3>3
  <2> HIDE DEF a, b, c, d
  <2> QED BY <2>1, <2>2
<1>4. CASE at = "fail"
  <2> DEFINE a == Tells("task fails")
  <2>1. WritesAt(at) = <<a>> /\ HowMany(at) = 1
    BY <1>4 DEF WritesAt, Failing, HowMany
  <2>2. TaskWrite(at, 1, a) /\ 1..1 = {1}
    BY <1>4 DEF TaskWrite
  <2> HIDE DEF a
  <2> QED BY <2>1, <2>2
<1>5. CASE at = "case_error"
  <2> DEFINE a == InList(InfoOf("error"))
             b == Tells("case ends")
             c == Tells("task ends")
             d == Update(TaskInfo, InfoOf("end"))
             e == Update(RecordInfo, InfoOf("end"))
  <2>1. WritesAt(at) = <<a, b, c, d, e>> /\ HowMany(at) = 5
    BY <1>5 DEF WritesAt, ClosingTheCase, HowMany
  <2>2. ASSUME NEW i \in 1..5 PROVE TaskWrite(at, i, WritesAt(at)[i])
    <3>1. /\ TaskWrite(at, 1, a) /\ TaskWrite(at, 2, b) /\ TaskWrite(at, 3, c)
          /\ TaskWrite(at, 4, d) /\ TaskWrite(at, 5, e)
      BY <1>5 DEF TaskWrite
    <3>2. i = 1 \/ i = 2 \/ i = 3 \/ i = 4 \/ i = 5
      OBVIOUS
    <3> HIDE DEF a, b, c, d, e
    <3> QED BY <2>1, <3>1, <3>2
  <2> HIDE DEF a, b, c, d, e
  <2> QED BY <2>1, <2>2
<1>6. CASE at \notin {"open", "close", "case_error", "error", "fail"}
  BY <1>6 DEF WritesAt, HowMany
<1> QED BY <1>1, <1>2, <1>3, <1>4, <1>5, <1>6

LEMMA TaskWriteOK ==
  ASSUME NEW at, NEW i, NEW w, TaskWrite(at, i, w)
  PROVE  WriteOK(w)
<1>1. Waiting \in Fresh
  BY FreshAre DEF Waiting, Types, Texts
<1>2. /\ WriteOK(FirstInfo) /\ WriteOK(FirstRecord)
      /\ WriteOK(InList(InfoOf("running"))) /\ WriteOK(InList(InfoOf("end")))
      /\ WriteOK(InList(InfoOf("error")))
      /\ WriteOK(Increment(RecordInfo, [done_child_case_count |-> 1]))
      /\ WriteOK(Update(TaskInfo, InfoOf("end"))) /\ WriteOK(Update(RecordInfo, InfoOf("end")))
  BY KeyKinds, WritesAreOK DEF FirstInfo, FirstRecord
<1>3. WriteOK(FirstStatuses)
  <2> DEFINE new == [k \in {Status(s) : s \in Steps} |-> InfoOf("mid_pending")]
  <2>1. DOMAIN new \cap Lists = {}
    BY KeyKinds
  <2> HIDE DEF new
  <2>2. WriteOK(SetsAll(new))
    BY <2>1, WritesAreOK
  <2> QED BY <2>2 DEF FirstStatuses, new
<1>4. WriteOK(FirstCases)
  <2> DEFINE new == [k \in {CaseStatus} |-> [s \in Steps |-> "mid_pending"]]
  <2>1. DOMAIN new \cap Lists = {}
    BY KeyKinds
  <2> HIDE DEF new
  <2>2. WriteOK(SetsAll(new))
    BY <2>1, WritesAreOK
  <2> QED BY <2>2 DEF FirstCases, new
<1>5. WriteOK(FirstCounters)
  <2> DEFINE new == [k \in {ChildCases} |->
                      [status |-> "pending", done_step_count |-> 0, failed_step_count |-> 0,
                       skipped_step_count |-> 0]]
  <2>1. DOMAIN new \cap Lists = {}
    BY KeyKinds
  <2> HIDE DEF new
  <2>2. WriteOK(PushesAll(new))
    BY <2>1, WritesAreOK
  <2> QED BY <2>2 DEF FirstCounters, new
<1>6. WriteOK(FirstLists)
  <2> DEFINE new == [k \in ({Process(s) : s \in Steps} \cup {Summary}) \cap KeptLists |-> Waiting]
  <2>1. \A k \in DOMAIN new \cap Lists : new[k] \in Fresh
    BY <1>1
  <2> HIDE DEF new
  <2>2. WriteOK(PushesAll(new))
    BY <2>1, WritesAreOK
  <2> QED BY <2>2 DEF FirstLists, new
<1>7. WriteOK(FirstOfCase)
  <2> DEFINE new == [k \in {CaseProcess} \cap KeptLists |-> Waiting]
  <2>1. \A k \in DOMAIN new \cap Lists : new[k] \in Fresh
    BY <1>1
  <2> HIDE DEF new
  <2>2. WriteOK(PushesAll(new))
    BY <2>1, WritesAreOK
  <2> QED BY <2>2 DEF FirstOfCase, new
<1>8. ASSUME NEW what \in Texts PROVE WriteOK(Tells(what))
  <2>1. Entry("system", what) \in Fresh
    BY FreshAre DEF Types
  <2> QED BY <2>1, WritesAreOK DEF Tells
<1>9. {"task starts", "case starts", "case ends", "task ends", "case fails", "task fails"}
        \subseteq Texts
  BY DEF Texts
<1> QED BY <1>2, <1>3, <1>4, <1>5, <1>6, <1>7, <1>8, <1>9 DEF TaskWrite

-----------------------------------------------------------------------------
(* What a command does to a list: nothing, or it appends an entry, or it     *)
(* counts a print again.                                                     *)

ListKept(k) ==
  /\ k \in DOMAIN db' <=> k \in DOMAIN db
  /\ k \in DOMAIN db => db'[k] = db[k]

ListGrows(k, e) ==
  /\ k \in DOMAIN db' /\ e \in Fresh
  /\ db'[k] = [val |-> Append(Elements(db, k), e), ttl |-> Week]

Again(list) == [list EXCEPT ![Len(list)].times = @ + 1]

ListCounts(k) ==
  /\ k \in DOMAIN db /\ k \in DOMAIN db'
  /\ db[k].val # <<>> /\ db[k].val[Len(db[k].val)].type = "action_script_print"
  /\ db'[k] = [val |-> Again(db[k].val), ttl |-> db[k].ttl]

(* The entry that an awaited write appends to one of the lists it grows.     *)
Told(w, k) == IF w.cmd = "push" THEN w.arg ELSE w.arg[k]

LEMMA Elsewhere ==
  ASSUME NEW k, NEW val, NEW ttl, db' = Put(db, k, val, ttl)
  PROVE  DOMAIN db \subseteq DOMAIN db' /\ \A x : x # k => ListKept(x)
BY DEF Put, ListKept

LEMMA Appending ==
  ASSUME NEW k, NEW e \in Fresh, db' = Push(db, k, e)
  PROVE  DOMAIN db \subseteq DOMAIN db' /\ ListGrows(k, e) /\ \A x : x # k => ListKept(x)
<1>1. db' = Put(db, k, Append(Elements(db, k), e), Week)
  BY DEF Push
<1>2. k \in DOMAIN db' /\ db'[k] = [val |-> Append(Elements(db, k), e), ttl |-> Week]
  BY <1>1 DEF Put
<1>3. DOMAIN db \subseteq DOMAIN db' /\ \A x : x # k => ListKept(x)
  BY <1>1, Elsewhere
<1> QED BY <1>2, <1>3 DEF ListGrows

LEMMA WriteEffect ==
  ASSUME NEW w, WriteOK(w), db' = Written(w)
  PROVE  /\ DOMAIN db \subseteq DOMAIN db'
         /\ \A k \in KeptLists :
              IF k \in Grows(w) THEN ListGrows(k, Told(w, k)) ELSE ListKept(k)
<1>1. CASE w.cmd \in {"update", "increment", "list", "set"}
  <2>1. w.key \notin Lists /\ Grows(w) = {}
    BY <1>1 DEF WriteOK, Grows
  <2>2. db' = db \/ \E val, ttl : db' = Put(db, w.key, val, ttl)
    <3>1. CASE w.cmd = "update"
      BY <3>1 DEF Written, UpdateFields
    <3>2. CASE w.cmd = "increment"
      BY <3>2 DEF Written, IncrementFields
    <3>3. CASE w.cmd = "list"
      <4>1. db' = UpdateInList(db, w.key, 0, w.arg)
        BY <3>3 DEF Written
      <4>2. \A store, k, fields : \E val, ttl : UpdateInList(store, k, 0, fields) = Put(store, k, val, ttl)
        BY DEF UpdateInList
      <4> QED BY <4>1, <4>2
    <3>4. CASE w.cmd = "set"
      BY <3>4 DEF Written, SetValue
    <3> QED BY <1>1, <3>1, <3>2, <3>3, <3>4
  <2>3. CASE db' = db
    BY <2>1, <2>3 DEF ListKept
  <2>4. CASE \E val, ttl : db' = Put(db, w.key, val, ttl)
    <3>1. DOMAIN db \subseteq DOMAIN db' /\ \A x : x # w.key => ListKept(x)
      BY <2>4, Elsewhere
    <3>2. \A k \in KeptLists : k # w.key
      BY <2>1, ListKeys
    <3> QED BY <2>1, <3>1, <3>2
  <2> QED BY <2>2, <2>3, <2>4
<1>2. CASE w.cmd = "push"
  <2>1. db' = IF w.key \in KeptLists THEN Push(db, w.key, w.arg) ELSE db
    BY <1>2 DEF Written
  <2>2. w.arg \in Fresh /\ Grows(w) = {w.key} \cap KeptLists /\ \A k : Told(w, k) = w.arg
    BY <1>2 DEF WriteOK, Grows, Told
  <2>3. CASE w.key \in KeptLists
    <3>1. /\ DOMAIN db \subseteq DOMAIN db' /\ ListGrows(w.key, w.arg)
          /\ \A x : x # w.key => ListKept(x)
      BY <2>1, <2>2, <2>3, Appending
    <3> QED BY <2>2, <2>3, <3>1
  <2>4. CASE w.key \notin KeptLists
    BY <2>1, <2>2, <2>4 DEF ListKept
  <2> QED BY <2>3, <2>4
<1>3. CASE w.cmd = "set_all"
  <2>1. db' = BatchSet(db, w.arg) /\ DOMAIN w.arg \cap Lists = {} /\ Grows(w) = {}
    BY <1>3 DEF Written, WriteOK, Grows
  <2>2. \A k \in KeptLists : k \notin DOMAIN w.arg
    BY <2>1, ListKeys
  <2> QED BY <2>1, <2>2 DEF BatchSet, ListKept
<1>4. CASE w.cmd = "push_all"
  <2>1. db' = BatchPush(db, w.arg) /\ Grows(w) = DOMAIN w.arg \cap KeptLists
    BY <1>4 DEF Written, Grows
  <2>2. ASSUME NEW k \in KeptLists, k \in DOMAIN w.arg
        PROVE  ListGrows(k, Told(w, k))
    <3>1. w.arg[k] \in Fresh /\ Told(w, k) = w.arg[k]
      BY <1>4, <2>2, ListKeys DEF WriteOK, Told
    <3> QED BY <2>1, <2>2, <3>1 DEF BatchPush, ListGrows
  <2>3. ASSUME NEW k \in KeptLists, k \notin DOMAIN w.arg
        PROVE  ListKept(k)
    BY <2>1, <2>3 DEF BatchPush, ListKept
  <2>4. DOMAIN db \subseteq DOMAIN db'
    BY <2>1 DEF BatchPush
  <2> QED BY <2>1, <2>2, <2>3, <2>4
<1> QED BY <1>1, <1>2, <1>3, <1>4 DEF WriteOK, Commands

LEMMA MessageEffect ==
  ASSUME NEW m, MessageOK(m),
         db' = CASE m.cmd = "push"            -> Push(db, m.key, m.entry)
                 [] m.cmd = "print" /\ loaded -> PrintValue(db, m.key, m.entry)
                 [] OTHER                      -> db
  PROVE  /\ DOMAIN db \subseteq DOMAIN db'
         /\ \A k : k # m.key => ListKept(k)
         /\ \/ ListGrows(m.key, m.entry)
            \/ ListCounts(m.key)
            \/ ListKept(m.key) /\ ~loaded
<1>1. m.entry \in Fresh
  BY DEF MessageOK
<1>2. CASE db' = db /\ ~loaded
  BY <1>2 DEF ListKept
<1>3. CASE db' = Push(db, m.key, m.entry)
  BY <1>1, <1>3, Appending
<1>4. CASE db' = Put(db, m.key, [db[m.key].val EXCEPT ![Len(db[m.key].val)].times = @ + 1], db[m.key].ttl)
           /\ Repeats(db, m.key, m.entry)
  <2>1. DOMAIN db \subseteq DOMAIN db' /\ \A k : k # m.key => ListKept(k)
    BY <1>4, Elsewhere
  <2>2. /\ m.key \in DOMAIN db /\ db[m.key].val # <<>>
        /\ db[m.key].val[Len(db[m.key].val)].type = "action_script_print"
    BY <1>4 DEF Repeats, Elements, Exists
  <2>3. ListCounts(m.key)
    BY <1>4, <2>2 DEF Put, ListCounts, Again
  <2> QED BY <2>1, <2>3
<1> QED BY <1>2, <1>3, <1>4 DEF PrintValue, MessageOK

(* A list that is counted or appended to.                                     *)
LEMMA AgainOK ==
  ASSUME NEW list \in Seq(Entries), list # <<>>
  PROVE  /\ Again(list) \in Seq(Entries) /\ Len(Again(list)) = Len(list)
         /\ \A i \in 1..Len(list) :
              /\ Again(list)[i].type = list[i].type /\ Again(list)[i].desc = list[i].desc
              /\ list[i].times \in Nat
              /\ Again(list)[i].times = IF i = Len(list) THEN list[i].times + 1 ELSE list[i].times
         /\ \A i \in 1..Len(list) : i # Len(list) => Again(list)[i] = list[i]
<1> DEFINE n == Len(list)
           new == [list[n] EXCEPT !.times = list[n].times + 1]
<1>1. n \in 1..Len(list) /\ list[n] \in Entries /\ \A i \in 1..Len(list) : list[i] \in Entries
  OBVIOUS
<1>2. /\ new \in Entries /\ new.type = list[n].type /\ new.desc = list[n].desc
      /\ new.times = list[n].times + 1
  BY <1>1 DEF Entries
<1>3. Again(list) = [list EXCEPT ![n] = new]
  BY <1>1 DEF Again
<1>4. \A e \in Entries : e.times \in Nat
  BY DEF Entries
<1> HIDE DEF new, n
<1>5. /\ [list EXCEPT ![n] = new] \in Seq(Entries)
      /\ Len([list EXCEPT ![n] = new]) = Len(list)
      /\ \A j \in 1..Len(list) : [list EXCEPT ![n] = new][j] = IF j = n THEN new ELSE list[j]
  BY <1>1, <1>2, ExceptSeq
<1>6. n = Len(list)
  BY DEF n
<1> QED BY <1>1, <1>2, <1>3, <1>4, <1>5, <1>6

LEMMA AppendOK ==
  ASSUME NEW list \in Seq(Entries), NEW e \in Fresh
  PROVE  /\ Append(list, e) \in Seq(Entries) \ {<<>>}
         /\ Len(list) \in Nat /\ Len(Append(list, e)) = Len(list) + 1
         /\ \A i \in 1..Len(list) : Append(list, e)[i] = list[i]
         /\ Append(list, e)[Len(list) + 1] = e
<1>1. e \in Entries
  BY FreshAre
<1> QED BY <1>1, AppendProperties

-----------------------------------------------------------------------------
(* How many messages are in a list.                                          *)

Repetitions(i, e) == {<<i, n>> : n \in 0..e.times}
Counts(list) == UNION {Repetitions(i, list[i]) : i \in DOMAIN list}

LEMMA RepetitionsAre ==
  ASSUME NEW i, NEW e \in Entries
  PROVE  /\ IsFiniteSet(Repetitions(i, e))
         /\ \A x : x \in Repetitions(i, e) <=> \E n \in 0..e.times : x = <<i, n>>
<1>1. IsFiniteSet(0..e.times)
  <2>1. e.times \in Nat
    BY DEF Entries
  <2> QED BY <2>1, FS_Interval
<1> DEFINE f == [n \in 0..e.times |-> <<i, n>>]
<1>2. IsFiniteSet({f[n] : n \in 0..e.times})
  <2>1. DOMAIN f = 0..e.times
    OBVIOUS
  <2> HIDE DEF f
  <2> QED BY <1>1, <2>1, FiniteImage
<1>3. {f[n] : n \in 0..e.times} = {<<i, n>> : n \in 0..e.times}
  OBVIOUS
<1> QED BY <1>2, <1>3 DEF Repetitions

LEMMA CountsAre ==
  ASSUME NEW list \in Seq(Entries)
  PROVE  /\ IsFiniteSet(Counts(list))
         /\ \A x : x \in Counts(list) <=>
              \E i \in 1..Len(list) : \E n \in 0..list[i].times : x = <<i, n>>
<1>1. DOMAIN list = 1..Len(list) /\ Len(list) \in Nat /\ \A i \in 1..Len(list) : list[i] \in Entries
  OBVIOUS
<1> DEFINE f == [i \in 1..Len(list) |-> Repetitions(i, list[i])]
<1>2. IsFiniteSet({f[i] : i \in 1..Len(list)})
  <2>1. DOMAIN f = 1..Len(list)
    OBVIOUS
  <2>2. IsFiniteSet(1..Len(list))
    BY <1>1, FS_Interval
  <2> HIDE DEF f
  <2> QED BY <2>1, <2>2, FiniteImage
<1>3. {f[i] : i \in 1..Len(list)} = {Repetitions(i, list[i]) : i \in DOMAIN list}
  BY <1>1
<1>4. \A i \in 1..Len(list) : IsFiniteSet(Repetitions(i, list[i]))
  BY <1>1, RepetitionsAre
<1>5. IsFiniteSet(Counts(list))
  <2> DEFINE T == {Repetitions(i, list[i]) : i \in DOMAIN list}
  <2>1. IsFiniteSet(T) /\ \A s \in T : IsFiniteSet(s)
    BY <1>1, <1>2, <1>3, <1>4
  <2> HIDE DEF T
  <2>2. IsFiniteSet(UNION T)
    BY <2>1, FS_UNION
  <2> QED BY <2>2 DEF Counts, T
<1>6. ASSUME NEW x
      PROVE  x \in Counts(list) <=> \E i \in 1..Len(list) : x \in Repetitions(i, list[i])
  BY <1>1 DEF Counts
<1>7. ASSUME NEW x, NEW i \in 1..Len(list)
      PROVE  x \in Repetitions(i, list[i]) <=> \E n \in 0..list[i].times : x = <<i, n>>
  BY <1>1, RepetitionsAre
<1> QED BY <1>5, <1>6, <1>7

LEMMA MessagesCounted ==
  ASSUME NEW list \in Seq(Entries)
  PROVE  MessagesIn(list) = Cardinality(Counts(list)) /\ MessagesIn(list) \in Nat
<1>1. MessagesIn(list) = Cardinality(Counts(list))
  BY DEF MessagesIn, Counts, Repetitions
<1> QED BY <1>1, CountsAre, FS_CardinalityType

LEMMA NoMessages == MessagesIn(<<>>) = 0
<1>1. <<>> \in Seq(Entries) /\ Len(<<>>) = 0
  OBVIOUS
<1>2. Counts(<<>>) = {}
  <2>1. \A x : x \notin Counts(<<>>)
    BY DEF Counts
  <2> QED BY <2>1
<1> QED BY <1>1, <1>2, MessagesCounted, FS_EmptySet

LEMMA MessagesAppended ==
  ASSUME NEW list \in Seq(Entries), NEW e \in Fresh
  PROVE  MessagesIn(Append(list, e)) = MessagesIn(list) + 1
<1> DEFINE more == Append(list, e)
           n == Len(list)
<1>1. /\ more \in Seq(Entries) /\ n \in Nat /\ Len(more) = n + 1
      /\ \A i \in 1..n : more[i] = list[i]
      /\ more[n + 1] = e
  BY AppendOK
<1>2. e.times = 0 /\ 0..0 = {0}
  BY FreshAre
<1> HIDE DEF more, n
<1>3. ASSUME NEW x
      PROVE  x \in Counts(more) <=> x \in Counts(list) \cup {<<n + 1, 0>>}
  <2>1. x \in Counts(more) <=> \E i \in 1..n + 1 : \E t \in 0..more[i].times : x = <<i, t>>
    BY <1>1, CountsAre
  <2>2. x \in Counts(list) <=> \E i \in 1..n : \E t \in 0..list[i].times : x = <<i, t>>
    BY CountsAre DEF n
  <2>3. \A i \in 1..n + 1 : i \in 1..n \/ i = n + 1
    BY <1>1
  <2>4. \A i \in 1..n : i \in 1..n + 1
    BY <1>1
  <2>5. n + 1 \in 1..n + 1
    BY <1>1
  <2>6. (\E t \in 0..more[n + 1].times : x = <<n + 1, t>>) <=> x = <<n + 1, 0>>
    BY <1>1, <1>2
  <2> QED BY <1>1, <2>1, <2>2, <2>3, <2>4, <2>5, <2>6
<1>4. Counts(more) = Counts(list) \cup {<<n + 1, 0>>}
  BY <1>3
<1>5. <<n + 1, 0>> \notin Counts(list)
  <2>1. \A i \in 1..n : i # n + 1
    BY <1>1
  <2> QED BY <2>1, CountsAre DEF n
<1>6. Cardinality(Counts(list) \cup {<<n + 1, 0>>}) = Cardinality(Counts(list)) + 1
  BY <1>5, CountsAre, FS_AddElement
<1> QED BY <1>1, <1>4, <1>6, MessagesCounted DEF more

LEMMA MessagesAgain ==
  ASSUME NEW list \in Seq(Entries), list # <<>>
  PROVE  MessagesIn(Again(list)) = MessagesIn(list) + 1
<1> DEFINE more == Again(list)
           n == Len(list)
           t == list[n].times + 1
<1>1. /\ more \in Seq(Entries) /\ Len(more) = n
      /\ \A i \in 1..n : /\ list[i].times \in Nat
                         /\ more[i].times = IF i = n THEN list[i].times + 1 ELSE list[i].times
  BY AgainOK
<1>2. n \in 1..n /\ n \in Nat
  OBVIOUS
<1>3. t \in Nat /\ t # 0 /\ list[n].times = t - 1 /\ more[n].times = t
  BY <1>1, <1>2
<1> HIDE DEF more, n, t
<1>4. ASSUME NEW x
      PROVE  x \in Counts(more) <=> x \in Counts(list) \cup {<<n, t>>}
  <2>1. x \in Counts(more) <=> \E i \in 1..n : \E s \in 0..more[i].times : x = <<i, s>>
    BY <1>1, CountsAre
  <2>2. x \in Counts(list) <=> \E i \in 1..n : \E s \in 0..list[i].times : x = <<i, s>>
    BY CountsAre DEF n
  <2>3. \A i \in 1..n : i # n => more[i].times = list[i].times
    BY <1>1
  <2>4. (\E s \in 0..more[n].times : x = <<n, s>>)
          <=> (\E s \in 0..list[n].times : x = <<n, s>>) \/ x = <<n, t>>
    <3>1. \A s : s \in 0..t <=> s \in 0..t - 1 \/ s = t
      BY <1>3
    <3> QED BY <1>3, <3>1
  <2> QED BY <1>2, <2>1, <2>2, <2>3, <2>4
<1>5. Counts(more) = Counts(list) \cup {<<n, t>>}
  BY <1>4
<1>6. <<n, t>> \notin Counts(list)
  <2>1. t \notin 0..list[n].times
    BY <1>3
  <2> QED BY <2>1, CountsAre DEF n
<1>7. Cardinality(Counts(list) \cup {<<n, t>>}) = Cardinality(Counts(list)) + 1
  BY <1>6, CountsAre, FS_AddElement
<1> QED BY <1>1, <1>5, <1>7, MessagesCounted DEF more

LEMMA MessagesConcat ==
  ASSUME NEW p \in Seq(Entries), NEW q \in Seq(Entries)
  PROVE  MessagesIn(p \o q) = MessagesIn(p) + MessagesIn(q)
<1> DEFINE m == Len(p)
           n == Len(q)
           r == p \o q
           Later == {<<x[1] + m, x[2]>> : x \in Counts(q)}
           f == [x \in Counts(q) |-> <<x[1] + m, x[2]>>]
<1>1. /\ m \in Nat /\ n \in Nat /\ r \in Seq(Entries) /\ Len(r) = m + n
      /\ \A i \in 1..m + n : r[i] = IF i <= m THEN p[i] ELSE q[i - m]
  BY ConcatProperties
<1> HIDE DEF m, n, r
<1>2. ASSUME NEW x \in Counts(q)
      PROVE  \E i \in 1..n : \E t \in 0..q[i].times : x = <<i, t>> /\ <<x[1] + m, x[2]>> = <<i + m, t>>
  <2>1. PICK i \in 1..n : \E t \in 0..q[i].times : x = <<i, t>>
    BY CountsAre DEF n
  <2> QED BY <2>1
<1>3. ASSUME NEW x
      PROVE  x \in Later <=> \E i \in 1..n : \E t \in 0..q[i].times : x = <<i + m, t>>
  <2>1. ASSUME x \in Later
        PROVE  \E i \in 1..n : \E t \in 0..q[i].times : x = <<i + m, t>>
    BY <1>2, <2>1
  <2>2. ASSUME NEW i \in 1..n, NEW t \in 0..q[i].times, x = <<i + m, t>>
        PROVE  x \in Later
    <3>1. <<i, t>> \in Counts(q)
      BY CountsAre DEF n
    <3>2. <<i, t>>[1] = i /\ <<i, t>>[2] = t
      OBVIOUS
    <3>3. x = <<<<i, t>>[1] + m, <<i, t>>[2]>>
      BY <2>2, <3>2
    <3> QED BY <3>1, <3>3
  <2> QED BY <2>1, <2>2
<1>4. IsFiniteSet(Later) /\ Cardinality(Later) = Cardinality(Counts(q))
  <2>1. f \in Bijection(Counts(q), Later)
    <3>1. f \in [Counts(q) -> Later]
      OBVIOUS
    <3>2. \A y \in Later : \E x \in Counts(q) : f[x] = y
      OBVIOUS
    <3>3. ASSUME NEW x \in Counts(q), NEW y \in Counts(q), f[x] = f[y]
          PROVE  x = y
      <4>1. PICK i \in 1..n : \E t : x = <<i, t>> /\ <<x[1] + m, x[2]>> = <<i + m, t>>
        BY <1>2
      <4>2. PICK j \in 1..n : \E s : y = <<j, s>> /\ <<y[1] + m, y[2]>> = <<j + m, s>>
        BY <1>2
      <4>3. PICK t : x = <<i, t>> /\ <<x[1] + m, x[2]>> = <<i + m, t>>
        BY <4>1
      <4>6. PICK s : y = <<j, s>> /\ <<y[1] + m, y[2]>> = <<j + m, s>>
        BY <4>2
      <4>7. <<i + m, t>> = <<j + m, s>>
        BY <3>3, <4>3, <4>6
      <4>4. i + m = j + m /\ t = s
        BY <4>7
      <4>5. i = j
        BY <1>1, <4>4
      <4> QED BY <4>3, <4>6, <4>4, <4>5
    <3> HIDE DEF f, Later
    <3> QED BY <3>1, <3>2, <3>3, Fun_IsBij
  <2>2. IsFiniteSet(Counts(q))
    BY CountsAre
  <2> HIDE DEF f, Later
  <2>3. ExistsBijection(Counts(q), Later)
    BY <2>1 DEF ExistsBijection
  <2> QED BY <2>2, <2>3, FS_Bijection
<1> HIDE DEF Later, f
<1>5. ASSUME NEW x
      PROVE  x \in Counts(r) <=> x \in Counts(p) \/ x \in Later
  <2>1. x \in Counts(r) <=> \E i \in 1..m + n : \E t \in 0..r[i].times : x = <<i, t>>
    BY <1>1, CountsAre
  <2>2. x \in Counts(p) <=> \E i \in 1..m : \E t \in 0..p[i].times : x = <<i, t>>
    BY CountsAre DEF m
  <2>3. ASSUME NEW i \in 1..m PROVE i \in 1..m + n /\ r[i] = p[i]
    BY <1>1
  <2>4. ASSUME NEW i \in 1..n PROVE i + m \in 1..m + n /\ r[i + m] = q[i]
    <3>1. i + m \in 1..m + n /\ ~(i + m <= m) /\ (i + m) - m = i
      BY <1>1
    <3> QED BY <1>1, <3>1
  <2>5. ASSUME NEW i \in 1..m + n PROVE i \in 1..m \/ \E j \in 1..n : i = j + m
    <3>1. CASE i <= m
      BY <1>1, <3>1
    <3>2. CASE ~(i <= m)
      <4>1. i - m \in 1..n /\ i = (i - m) + m
        BY <1>1, <3>2
      <4> QED BY <4>1
    <3> QED BY <3>1, <3>2
  <2> QED BY <1>3, <2>1, <2>2, <2>3, <2>4, <2>5
<1>6. Counts(r) = Counts(p) \cup Later
  BY <1>5
<1>7. Counts(p) \cap Later = {}
  <2>1. \A i \in 1..n : i + m \notin 1..m
    BY <1>1
  <2>2. ASSUME NEW x \in Counts(p), x \in Later PROVE FALSE
    <3>1. PICK i \in 1..m : \E t : x = <<i, t>>
      BY CountsAre DEF m
    <3>2. PICK j \in 1..n : \E s : x = <<j + m, s>>
      BY <1>3, <2>2
    <3>3. i = j + m
      BY <3>1, <3>2
    <3> QED BY <2>1, <3>3
  <2> QED BY <2>2
<1>8. /\ IsFiniteSet(Counts(p)) /\ Cardinality(Counts(p)) \in Nat
      /\ Cardinality(Later) \in Nat /\ Cardinality(Counts(p) \cap Later) = 0
  BY <1>4, <1>7, CountsAre, FS_CardinalityType, FS_EmptySet
<1>9. Cardinality(Counts(r)) = Cardinality(Counts(p)) + Cardinality(Later)
  <2>1. Cardinality(Counts(p) \cup Later)
          = Cardinality(Counts(p)) + Cardinality(Later) - Cardinality(Counts(p) \cap Later)
    BY <1>4, <1>8, FS_Union
  <2> QED BY <1>6, <1>8, <2>1
<1> QED BY <1>1, <1>4, <1>9, MessagesCounted DEF r

-----------------------------------------------------------------------------
(* The inductive invariants.                                                 *)

Stages ==
  {"open", "steps", "close", "case_error", "error", "fail", "export", "scan", "write",
   "close_pool", "closed"}

(* A message under way has been sent by a stretch of a visit that is done.   *)
SentBy(m) == \E v \in Visits : \E i \in 1..visit[v] : VisitMessage(v, outcome[v], i, m)

TaskOK ==
  /\ main.at \in Stages /\ main.pc \in Nat /\ {"at", "pc"} \subseteq DOMAIN main
  /\ outcome \in [Visits -> Outcome]
  /\ visit \in [Visits -> Nat] /\ \A v \in Visits : visit[v] <= Len(Program(v))
  /\ IsFiniteSet(flying) /\ \A m \in flying : SentBy(m)

(* A list, where it is, has entries.                                         *)
Holds(store, k) ==
  k \in DOMAIN store =>
    /\ {"val", "ttl"} \subseteq DOMAIN store[k]
    /\ store[k].val \in Seq(Entries) \ {<<>>}

StoreOK == \A k \in KeptLists : Holds(db, k) /\ Holds(gathered, k)

(* What the export has read it no longer has to; what it has written is what *)
(* it has read.                                                              *)
SavedOK ==
  /\ main.at \notin {"scan", "write", "close_pool", "closed"} => DOMAIN gathered = {}
  /\ main.at \in {"write", "close_pool", "closed"} => left = {}
  /\ DOMAIN gathered \cap left = {}
  /\ backup.at = "whole" => main.at \in {"close_pool", "closed"} /\ backup.keys = gathered

(* While the backup is being imported, what it holds is in the store or will *)
(* be.                                                                       *)
ImportOK ==
  /\ {"at", "keys", "extra", "rest", "now"} \subseteq DOMAIN reader
  /\ reader.at \in {"idle", "chunk", "values", "restore"}
  /\ reader.at = "chunk" => reader.keys = {Followed}
  /\ reader.at = "idle" => reader.now = {}
  /\ reader.at # "idle" =>
       /\ backup.at = "whole"
       /\ reader.rest \cup reader.now \subseteq DOMAIN backup.keys
       /\ DOMAIN backup.keys \subseteq DOMAIN db \cup reader.rest \cup reader.now

RecordInv == TaskOK /\ StoreOK /\ SavedOK /\ ImportOK

(* A list has as much time left as the task had when it was last written.    *)
HasTime(k) ==
  k \in DOMAIN db => db[k].ttl \in Int /\ db[k].ttl >= Week - ticks

TimeOK ==
  main.at \in {"open", "steps"} => ticks \in Nat /\ \A k \in KeptLists : HasTime(k)

(* The list in redis and the one the export has read are the same, and a     *)
(* list is restored where there is none.                                     *)
SameIn(k) ==
  /\ k \in DOMAIN gathered \cap DOMAIN db => db[k].val = gathered[k].val
  /\ (/\ main.at \in {"scan", "write", "close_pool", "closed"}
      /\ k \notin left \cup DOMAIN gathered)
       => k \notin DOMAIN db
  /\ k \in reader.now => k \notin DOMAIN db

SameOK == ~late => \A k \in KeptLists : SameIn(k)

(* The beginning of a list, but for the counts of repeated prints.           *)
BeginningOf(pieces, list) ==
  /\ Len(pieces) <= Len(list)
  /\ \A i \in 1..Len(pieces) :
       /\ pieces[i].type = list[i].type /\ pieces[i].desc = list[i].desc
       /\ pieces[i].times <= list[i].times

(* The client has a beginning of the list, which is not lost while it can    *)
(* grow.                                                                     *)
AgreeOK ==
  ~late =>
    /\ got \in Seq(Entries)
    /\ Followed \in DOMAIN db => BeginningOf(got, db[Followed].val)
    /\ Followed \in DOMAIN gathered => BeginningOf(got, gathered[Followed].val)
    /\ Followed \notin DOMAIN db /\ main.at # "closed" /\ backup.at # "whole" => got = <<>>

(* How many messages a list has, how many are on their way to it, and how    *)
(* many the export has read.                                                 *)
There(k) == MessagesIn(Elements(db, k))
Underway(k) == Cardinality({m \in flying : m.key = k})
Read(k) == MessagesIn(Elements(gathered, k))

CountIs(k) ==
  /\ There(k) + Underway(k) <= sent[k]
  /\ Read(k) + Underway(k) + (IF k \in reader.now THEN There(k) ELSE 0) <= sent[k]
  /\ (loaded /\ ~late /\ main.at # "closed") =>
       /\ k \notin reader.now => There(k) + Underway(k) = sent[k]
       /\ k \in DOMAIN gathered => Read(k) + Underway(k) = sent[k]

CountOK == sent \in [KeptLists -> Nat] /\ \A k \in KeptLists : CountIs(k)

-----------------------------------------------------------------------------
(* A step of the task that may write to lists, and leaves alone what the     *)
(* export and the reader have.                                               *)

AfterScan == {"scan", "write", "close_pool"}

(* It is seen, or the export has yet to read the list.                       *)
Noticed(k) == late' \/ main.at \notin AfterScan \/ k \in left

ListChanges(k) == ListCounts(k) \/ \E e \in Fresh : ListGrows(k, e)

ListStep ==
  /\ UNCHANGED <<left, gathered, backup, got, reader, ticks>>
  /\ DOMAIN db \subseteq DOMAIN db'
  /\ \A k \in KeptLists : ListKept(k) \/ (ListChanges(k) /\ Noticed(k))
  /\ late => late'
  /\ main.at # "closed" /\ main'.at # "closed"
  /\ main'.at # main.at =>
       /\ main.at \notin AfterScan /\ main'.at \notin AfterScan
       /\ main'.at \in {"open", "steps"} => main.at \in {"open", "steps"}

LEMMA ListIs ==
  ASSUME NEW store, NEW k, Holds(store, k)
  PROVE  /\ Elements(store, k) \in Seq(Entries)
         /\ k \in DOMAIN store => Elements(store, k) = store[k].val /\ Elements(store, k) # <<>>
         /\ k \notin DOMAIN store => Elements(store, k) = <<>>
BY DEF Elements, Exists, Holds

LEMMA ListHolds ==
  ASSUME NEW k, Holds(db, k), ListKept(k) \/ ListChanges(k)
  PROVE  Holds(db', k)
<1>1. CASE ListKept(k)
  BY <1>1 DEF ListKept, Holds
<1>2. ASSUME NEW e \in Fresh, ListGrows(k, e)
      PROVE  Holds(db', k)
  <2>1. /\ db'[k] = [val |-> Append(Elements(db, k), e), ttl |-> Week]
        /\ Append(Elements(db, k), e) \in Seq(Entries) \ {<<>>}
    BY <1>2, ListIs, AppendOK DEF ListGrows
  <2> QED BY <2>1 DEF Holds
<1>3. CASE ListCounts(k)
  <2>1. Again(db[k].val) \in Seq(Entries) \ {<<>>}
    BY <1>3, AgainOK DEF ListCounts, Holds
  <2> QED BY <1>3, <2>1 DEF ListCounts, Holds
<1> QED BY <1>1, <1>2, <1>3 DEF ListChanges

LEMMA ListStepKeepsRecord ==
  ASSUME RecordInv, ListStep
  PROVE  StoreOK' /\ SavedOK' /\ ImportOK'
<1>1. StoreOK'
  <2>1. \A k \in KeptLists : Holds(db', k)
    BY ListHolds DEF ListStep, RecordInv, StoreOK
  <2>2. \A k \in KeptLists : Holds(gathered', k)
    BY DEF ListStep, RecordInv, StoreOK
  <2> QED BY <2>1, <2>2 DEF StoreOK
<1>2. SavedOK'
  BY DEF ListStep, RecordInv, SavedOK, AfterScan
<1>3. ImportOK'
  BY DEF ListStep, RecordInv, ImportOK
<1> QED BY <1>1, <1>2, <1>3

LEMMA ListStepKeepsTime ==
  ASSUME ListStep, TimeOK
  PROVE  TimeOK'
<1> SUFFICES ASSUME main'.at \in {"open", "steps"}, NEW k \in KeptLists
             PROVE  ticks' \in Nat /\ HasTime(k)'
  BY DEF TimeOK, ListStep
<1>1. main.at \in {"open", "steps"} /\ ticks' = ticks
  BY DEF ListStep
<1>2. ticks \in Nat /\ Week \in Nat /\ HasTime(k)
  BY <1>1, ExpiryAssumption DEF TimeOK
<1>3. CASE ListKept(k)
  BY <1>1, <1>2, <1>3 DEF ListKept, HasTime
<1>4. ASSUME NEW e \in Fresh, ListGrows(k, e)
      PROVE  HasTime(k)'
  <2>1. db'[k].ttl = Week
    BY <1>4 DEF ListGrows
  <2> QED BY <1>1, <1>2, <2>1 DEF HasTime
<1>5. CASE ListCounts(k)
  <2>1. db'[k].ttl = db[k].ttl /\ k \in DOMAIN db
    BY <1>5 DEF ListCounts
  <2> QED BY <1>1, <1>2, <2>1 DEF HasTime
<1> QED BY <1>1, <1>2, <1>3, <1>4, <1>5 DEF ListStep, ListChanges

(* A list that changes unnoticed has not been read yet.                       *)
LEMMA NotReadYet ==
  ASSUME RecordInv, ListStep, NEW k \in KeptLists, ~ListKept(k), ~late'
  PROVE  /\ k \notin DOMAIN gathered /\ reader.now = {} /\ backup.at # "whole"
         /\ main'.at \in {"scan", "write", "close_pool", "closed"} => k \in left
         /\ k \in DOMAIN db' /\ ListChanges(k)
<1>1. (main.at \notin AfterScan \/ k \in left) /\ ListChanges(k)
  BY DEF ListStep, Noticed
<1>2. k \notin DOMAIN gathered /\ backup.at # "whole"
  BY <1>1 DEF RecordInv, SavedOK, ListStep, AfterScan
<1>3. reader.now = {}
  BY <1>2 DEF RecordInv, ImportOK
<1>4. k \in DOMAIN db'
  BY <1>1 DEF ListChanges, ListGrows, ListCounts
<1> QED BY <1>1, <1>2, <1>3, <1>4 DEF ListStep, AfterScan

LEMMA ListStepSame ==
  ASSUME RecordInv, ListStep, SameOK
  PROVE  SameOK'
<1> SUFFICES ASSUME ~late', NEW k \in KeptLists
             PROVE  SameIn(k)'
  BY DEF SameOK
<1>1. SameIn(k)
  BY DEF SameOK, ListStep
<1>2. gathered' = gathered /\ reader' = reader /\ left' = left
  BY DEF ListStep
<1>3. CASE ListKept(k)
  <2>1. main'.at \in {"scan", "write", "close_pool", "closed"} => main'.at = main.at
    BY DEF ListStep, AfterScan
  <2> QED BY <1>1, <1>2, <1>3, <2>1 DEF SameIn, ListKept
<1>4. CASE ~ListKept(k)
  BY <1>2, <1>4, NotReadYet DEF SameIn
<1> QED BY <1>3, <1>4

LEMMA BeginningGrows ==
  ASSUME NEW pieces \in Seq(Entries), NEW list \in Seq(Entries), BeginningOf(pieces, list),
         NEW e \in Fresh
  PROVE  BeginningOf(pieces, Append(list, e))
<1>1. /\ Len(Append(list, e)) = Len(list) + 1 /\ Len(list) \in Nat /\ Len(pieces) \in Nat
      /\ \A i \in 1..Len(list) : Append(list, e)[i] = list[i]
  BY AppendOK
<1> QED BY <1>1 DEF BeginningOf

LEMMA BeginningCounts ==
  ASSUME NEW pieces \in Seq(Entries), NEW list \in Seq(Entries), list # <<>>,
         BeginningOf(pieces, list)
  PROVE  BeginningOf(pieces, Again(list))
<1>1. \A i \in 1..Len(pieces) : pieces[i].times \in Nat /\ i \in 1..Len(list)
  <2>1. /\ \A i \in 1..Len(pieces) : pieces[i] \in Entries
        /\ Len(pieces) \in Nat /\ Len(list) \in Nat
    OBVIOUS
  <2>2. \A x \in Entries : x.times \in Nat
    BY DEF Entries
  <2>3. Len(pieces) <= Len(list)
    BY DEF BeginningOf
  <2> QED BY <2>1, <2>2, <2>3
<1>2. /\ Len(Again(list)) = Len(list)
      /\ \A i \in 1..Len(list) :
           /\ Again(list)[i].type = list[i].type /\ Again(list)[i].desc = list[i].desc
           /\ list[i].times \in Nat /\ Again(list)[i].times \in {list[i].times, list[i].times + 1}
  BY AgainOK
<1>3. Len(pieces) <= Len(Again(list))
  BY <1>2 DEF BeginningOf
<1>4. ASSUME NEW i \in 1..Len(pieces)
      PROVE  /\ pieces[i].type = Again(list)[i].type /\ pieces[i].desc = Again(list)[i].desc
             /\ pieces[i].times <= Again(list)[i].times
  <2>1. /\ pieces[i].type = list[i].type /\ pieces[i].desc = list[i].desc
        /\ pieces[i].times <= list[i].times /\ pieces[i].times \in Nat /\ i \in 1..Len(list)
    BY <1>1, <1>4 DEF BeginningOf
  <2>2. list[i].times \in Nat /\ Again(list)[i].times \in {list[i].times, list[i].times + 1}
    BY <1>2, <2>1
  <2>3. pieces[i].times <= Again(list)[i].times
    BY <2>1, <2>2
  <2> QED BY <1>2, <2>1, <2>3
<1> QED BY <1>3, <1>4 DEF BeginningOf

LEMMA ListStepAgrees ==
  ASSUME RecordInv, ListStep, AgreeOK
  PROVE  AgreeOK'
<1> SUFFICES ASSUME ~late'
             PROVE  /\ got' \in Seq(Entries)
                    /\ Followed \in DOMAIN db' => BeginningOf(got', db'[Followed].val)
                    /\ Followed \in DOMAIN gathered' =>
                         BeginningOf(got', gathered'[Followed].val)
                    /\ Followed \notin DOMAIN db' /\ main'.at # "closed" /\ backup'.at # "whole"
                         => got' = <<>>
  BY DEF AgreeOK
<1>1. ~late /\ Followed \in KeptLists
  BY FollowedAssumption DEF ListStep
<1>2. got' = got /\ gathered' = gathered /\ backup' = backup /\ main.at # "closed"
  BY DEF ListStep
<1>3. CASE ListKept(Followed)
  BY <1>1, <1>2, <1>3 DEF AgreeOK, ListKept
<1>4. CASE ~ListKept(Followed)
  <2>1. /\ Followed \notin DOMAIN gathered /\ backup.at # "whole"
        /\ Followed \in DOMAIN db' /\ ListChanges(Followed)
    BY <1>1, <1>4, NotReadYet
  <2>2. got \in Seq(Entries)
    BY <1>1 DEF AgreeOK
  <2>3. Holds(db, Followed)
    BY <1>1 DEF RecordInv, StoreOK
  <2>4. ASSUME NEW e \in Fresh, ListGrows(Followed, e)
        PROVE  BeginningOf(got, db'[Followed].val)
    <3>1. /\ db'[Followed].val = Append(Elements(db, Followed), e)
          /\ Elements(db, Followed) \in Seq(Entries)
      BY <2>3, <2>4, ListIs DEF ListGrows
    <3>2. BeginningOf(got, Elements(db, Followed))
      <4>1. CASE Followed \in DOMAIN db
        BY <1>1, <2>3, <4>1, ListIs DEF AgreeOK
      <4>2. CASE Followed \notin DOMAIN db
        <5>1. got = <<>>
          BY <1>1, <1>2, <2>1, <4>2 DEF AgreeOK
        <5> QED BY <3>1, <5>1 DEF BeginningOf
      <4> QED BY <4>1, <4>2
    <3> QED BY <2>2, <3>1, <3>2, BeginningGrows
  <2>5. ASSUME ListCounts(Followed)
        PROVE  BeginningOf(got, db'[Followed].val)
    <3>1. Followed \in DOMAIN db /\ db'[Followed].val = Again(db[Followed].val)
      BY <2>5 DEF ListCounts
    <3>2. db[Followed].val \in Seq(Entries) /\ db[Followed].val # <<>>
      BY <2>3, <3>1 DEF Holds
    <3>3. BeginningOf(got, db[Followed].val)
      BY <1>1, <3>1 DEF AgreeOK
    <3> QED BY <2>2, <3>1, <3>2, <3>3, BeginningCounts
  <2> QED BY <1>2, <2>1, <2>2, <2>4, <2>5 DEF ListChanges
<1> QED BY <1>3, <1>4

-----------------------------------------------------------------------------
(* What a step does to the count of the messages of a list.                  *)

LEMMA CountTypes ==
  ASSUME RecordInv, NEW k \in KeptLists
  PROVE  There(k) \in Nat /\ Underway(k) \in Nat /\ Read(k) \in Nat
<1>1. Elements(db, k) \in Seq(Entries) /\ Elements(gathered, k) \in Seq(Entries)
  BY ListIs DEF RecordInv, StoreOK
<1>2. IsFiniteSet({m \in flying : m.key = k})
  <2>1. {m \in flying : m.key = k} \in SUBSET flying
    OBVIOUS
  <2> QED BY <2>1, FS_Subset DEF RecordInv, TaskOK
<1> QED BY <1>1, <1>2, MessagesCounted, FS_CardinalityType DEF There, Underway, Read

LEMMA ListCounted ==
  ASSUME NEW k, Holds(db, k)
  PROVE  /\ ListKept(k) => There(k)' = There(k)
         /\ ListChanges(k) => There(k)' = There(k) + 1
<1>1. There(k)' = MessagesIn(Elements(db', k))
  BY DEF There
<1>2. ASSUME ListKept(k)
      PROVE  Elements(db', k) = Elements(db, k)
  BY <1>2 DEF ListKept, Elements, Exists
<1>3. ASSUME NEW e \in Fresh, ListGrows(k, e)
      PROVE  There(k)' = There(k) + 1
  <2>1. Elements(db', k) = Append(Elements(db, k), e) /\ Elements(db, k) \in Seq(Entries)
    BY <1>3, ListIs DEF ListGrows, Elements, Exists
  <2> QED BY <1>1, <2>1, MessagesAppended DEF There
<1>4. ASSUME ListCounts(k)
      PROVE  There(k)' = There(k) + 1
  <2>1. /\ Elements(db', k) = Again(Elements(db, k)) /\ Elements(db, k) \in Seq(Entries)
        /\ Elements(db, k) # <<>>
    BY <1>4, ListIs DEF ListCounts, Elements, Exists
  <2>2. PICK list \in Seq(Entries) : list = Elements(db, k)
    BY <2>1
  <2>3. MessagesIn(Again(list)) = MessagesIn(list) + 1
    BY <2>1, <2>2, MessagesAgain
  <2> QED BY <1>1, <2>1, <2>2, <2>3 DEF There
<1> QED BY <1>1, <1>2, <1>3, <1>4 DEF ListChanges, There

CountStep(k) ==
  \E d \in Nat : \E u \in Int : \E s \in Nat :
    /\ There(k)' = There(k) + d /\ Underway(k)' = Underway(k) + u /\ sent'[k] = sent[k] + s
    /\ d + u <= s
    /\ loaded' => loaded /\ d + u = s
    /\ d # 0 => Noticed(k)

LEMMA CountStepOK ==
  ASSUME RecordInv, ListStep, NEW k \in KeptLists, sent[k] \in Nat, CountIs(k), CountStep(k)
  PROVE  CountIs(k)'
<1>1. There(k) \in Nat /\ Underway(k) \in Nat /\ Read(k) \in Nat
  BY CountTypes
<1>2. PICK d \in Nat, u \in Int, s \in Nat :
        /\ There(k)' = There(k) + d /\ Underway(k)' = Underway(k) + u /\ sent'[k] = sent[k] + s
        /\ d + u <= s
        /\ loaded' => loaded /\ d + u = s
        /\ d # 0 => Noticed(k)
  BY DEF CountStep
<1>3. /\ Read(k)' = Read(k) /\ reader'.now = reader.now /\ gathered' = gathered
      /\ late => late'
      /\ main.at # "closed"
  BY DEF ListStep, Read
<1>4. There(k)' + Underway(k)' <= sent'[k]
  BY <1>1, <1>2 DEF CountIs
<1>5. Read(k)' + Underway(k)' + (IF k \in reader'.now THEN There(k)' ELSE 0) <= sent'[k]
  BY <1>1, <1>2, <1>3 DEF CountIs
<1>6. ASSUME loaded', ~late', main'.at # "closed"
      PROVE  /\ k \notin reader'.now => There(k)' + Underway(k)' = sent'[k]
             /\ k \in DOMAIN gathered' => Read(k)' + Underway(k)' = sent'[k]
  <2>1. /\ k \notin reader.now => There(k) + Underway(k) = sent[k]
        /\ k \in DOMAIN gathered => Read(k) + Underway(k) = sent[k]
        /\ d + u = s
    BY <1>2, <1>3, <1>6 DEF CountIs
  <2>2. k \in DOMAIN gathered => d = 0
    <3>1. k \in DOMAIN gathered => main.at \in AfterScan /\ k \notin left
      BY <1>3 DEF RecordInv, SavedOK, AfterScan
    <3> QED BY <1>2, <1>6, <3>1 DEF Noticed
  <2> QED BY <1>1, <1>2, <1>3, <2>1, <2>2
<1> QED BY <1>4, <1>5, <1>6 DEF CountIs

(* Nothing is written or sent.                                                *)
LEMMA NothingCounted ==
  ASSUME NEW k, Holds(db, k), ListKept(k), UNCHANGED <<flying, sent>>, loaded' => loaded,
         There(k) \in Nat, Underway(k) \in Nat, sent[k] \in Nat
  PROVE  CountStep(k)
<1>1. There(k)' = There(k) + 0 /\ Underway(k)' = Underway(k) + 0 /\ sent'[k] = sent[k] + 0
  BY ListCounted DEF Underway
<1> QED BY <1>1 DEF CountStep

(* An awaited write, with the messages that the visit sends after it.        *)
LEMMA WriteCounted ==
  ASSUME RecordInv, NEW k \in KeptLists, NEW w, WriteOK(w), db' = Written(w),
         NEW msgs, IsFiniteSet(msgs), msgs \cap flying = {}, flying' = flying \cup msgs,
         sent \in [KeptLists -> Nat], sent' = Counting(Grows(w), msgs), loaded' = loaded,
         k \in Grows(w) => Noticed(k)
  PROVE  CountStep(k) /\ sent'[k] \in Nat
<1> DEFINE d == IF k \in Grows(w) THEN 1 ELSE 0
           new == {m \in msgs : m.key = k}
           old == {m \in flying : m.key = k}
           u == Cardinality(new)
<1>1. There(k) \in Nat /\ Underway(k) \in Nat /\ sent[k] \in Nat
  BY CountTypes
<1>2. There(k)' = There(k) + d
  <2>1. IF k \in Grows(w) THEN ListGrows(k, Told(w, k)) ELSE ListKept(k)
    BY WriteEffect
  <2>2. ListGrows(k, Told(w, k)) => ListChanges(k)
    BY DEF ListChanges, ListGrows
  <2>3. Holds(db, k)
    BY DEF RecordInv, StoreOK
  <2> QED BY <1>1, <2>1, <2>2, <2>3, ListCounted
<1>3. u \in Nat /\ IsFiniteSet(new) /\ IsFiniteSet(old)
  <2>1. new \in SUBSET msgs /\ old \in SUBSET flying
    OBVIOUS
  <2>2. IsFiniteSet(new) /\ IsFiniteSet(old)
    BY <2>1, FS_Subset DEF RecordInv, TaskOK
  <2> QED BY <2>2, FS_CardinalityType
<1>4. Underway(k)' = Underway(k) + u
  <2> DEFINE all == {m \in flying' : m.key = k}
  <2>1. all = old \cup new
    OBVIOUS
  <2>2. old \cap new = {}
    OBVIOUS
  <2>5. Underway(k) = Cardinality(old) /\ Underway(k)' = Cardinality(all)
    BY DEF Underway
  <2> HIDE DEF old, new, all
  <2>3. Cardinality(old \cup new) = Cardinality(old) + Cardinality(new) - Cardinality(old \cap new)
    BY <1>3, FS_Union
  <2>4. Cardinality(old \cap new) = 0 /\ Cardinality(old) \in Nat
    BY <1>3, <2>2, FS_EmptySet, FS_CardinalityType
  <2> QED BY <1>3, <2>1, <2>3, <2>4, <2>5
<1>5. sent'[k] = sent[k] + (d + u)
  <2>1. k \in DOMAIN sent
    OBVIOUS
  <2>2. sent'[k] = sent[k] + d + u
    BY <2>1 DEF Counting
  <2> HIDE DEF d, u
  <2>3. d \in Nat
    BY DEF d
  <2> QED BY <1>1, <1>3, <2>2, <2>3
<1>6. d \in Nat /\ d + u \in Nat /\ (d # 0 => k \in Grows(w))
  BY <1>3
<1> HIDE DEF d, u
<1>7. d + u <= d + u /\ u \in Int
  BY <1>3, <1>6
<1>8. CountStep(k)
  BY <1>2, <1>4, <1>5, <1>6, <1>7 DEF CountStep
<1> QED BY <1>1, <1>5, <1>6, <1>8

(* A message that arrives, or whose script redis has forgotten.               *)
LEMMA ArrivalCounted ==
  ASSUME RecordInv, NEW m \in flying, NEW k \in KeptLists, sent[k] \in Nat,
         flying' = flying \ {m}, UNCHANGED <<sent, loaded>>,
         IF k = m.key THEN ListChanges(k) \/ (ListKept(k) /\ ~loaded) ELSE ListKept(k),
         k = m.key => Noticed(k)
  PROVE  CountStep(k)
<1> DEFINE old == {x \in flying : x.key = k}
           new == {x \in flying' : x.key = k}
<1>1. There(k) \in Nat /\ Underway(k) \in Nat /\ Holds(db, k)
  BY CountTypes DEF RecordInv, StoreOK
<1>2. Underway(k) = Cardinality(old) /\ Underway(k)' = Cardinality(new)
  BY DEF Underway
<1>3. CASE k = m.key
  <2>1. new = old \ {m} /\ m \in old
    BY <1>3
  <2>2. IsFiniteSet(old)
    <3>1. old \in SUBSET flying
      OBVIOUS
    <3> QED BY <3>1, FS_Subset DEF RecordInv, TaskOK
  <2> HIDE DEF old, new
  <2>3. Cardinality(old \ {m}) = Cardinality(old) - 1
    BY <2>1, <2>2, FS_RemoveElement
  <2>4. Underway(k)' = Underway(k) + (-1) /\ sent'[k] = sent[k] + 0
    BY <1>1, <1>2, <2>1, <2>3
  <2>5. CASE ListChanges(k)
    <3>1. There(k)' = There(k) + 1 /\ 1 \in Nat /\ -1 \in Int /\ 0 \in Nat /\ 1 + (-1) = 0
      BY <1>1, <2>5, ListCounted
    <3> QED BY <1>3, <2>4, <3>1 DEF CountStep
  <2>6. CASE ListKept(k) /\ ~loaded
    <3>1. There(k)' = There(k) + 0 /\ -1 \in Int /\ 0 \in Nat /\ 0 + (-1) <= 0
      BY <1>1, <2>6, ListCounted
    <3> QED BY <2>4, <2>6, <3>1 DEF CountStep
  <2> QED BY <1>3, <2>5, <2>6
<1>4. CASE k # m.key
  <2>1. new = old
    BY <1>4
  <2> HIDE DEF old, new
  <2>2. There(k)' = There(k) + 0 /\ Underway(k)' = Underway(k) + 0 /\ sent'[k] = sent[k] + 0
    BY <1>1, <1>2, <1>4, <2>1, ListCounted
  <2> QED BY <2>2 DEF CountStep
<1> QED BY <1>3, <1>4

-----------------------------------------------------------------------------
(* What the order of the entries of a list rests on: an entry tells of a     *)
(* visit that has begun, a print of a script that has announced itself.      *)

Known(e) ==
  /\ e.desc \in Visits => visit[e.desc] > 0
  /\ e.type = "action_script_print" =>
       \E u \in Visits : KindOf[u] = "script" /\ visit[u] >= BodyOf[u][outcome[u]]

InOrder(k, list) ==
  \A i, j \in DOMAIN list :
    i < j => /\ list[j] # Waiting
             /\ ~(Awaited(k, list[j]) /\ ToldAfter(list[i], list[j].desc))

GoodList(k, list) == InOrder(k, list) /\ \A i \in DOMAIN list : Known(list[i])

IsList(store, k, list) == k \in DOMAIN store /\ list = store[k].val

OrderOK ==
  ~late => \A k \in KeptLists : \A list :
    IsList(db, k, list) \/ IsList(gathered, k, list) => GoodList(k, list)

(* A visit has begun when those before it had ended, which they remain.      *)
BegunOK ==
  \A u \in Visits : visit[u] > 0 => \A v \in After[u] \cap Visits : Ended(v)

(* No list is there before the task has given it its first entry.            *)
OpeningOK ==
  main.at = "open" =>
    /\ \A v \in Visits : visit[v] = 0
    /\ flying = {}
    /\ main.pc < 4 => \A k \in KeptLists : k \notin DOMAIN db
    /\ main.pc < 7 => CaseProcess \notin DOMAIN db \cap KeptLists

OrderInv == SameOK /\ OrderOK /\ BegunOK /\ OpeningOK

(* Visits go on, and their outcomes are decided.                             *)
Progress == outcome' = outcome /\ \A v \in Visits : visit'[v] >= visit[v]

MayFollow(k, e) ==
  /\ Known(e)'
  /\ e = Waiting => k \notin DOMAIN db
  /\ Awaited(k, e) =>
       \A i \in DOMAIN Elements(db, k) : ~ToldAfter(Elements(db, k)[i], e.desc)

OrderStep(k) ==
  ListKept(k) \/ ListCounts(k) \/ \E e \in Fresh : ListGrows(k, e) /\ (~late' => MayFollow(k, e))

LEMMA KnownStays ==
  ASSUME TaskOK, Progress, TaskOK', NEW e, Known(e)
  PROVE  Known(e)'
<1>1. /\ \A v \in Visits : visit[v] \in Nat /\ visit'[v] \in Nat /\ visit'[v] >= visit[v]
      /\ outcome' = outcome
  BY DEF TaskOK, Progress
<1>2. \A u \in Visits : BodyOf[u][outcome[u]] \in Nat
  BY ProgramIs DEF TaskOK, PartsAre
<1> QED BY <1>1, <1>2 DEF Known

LEMMA OrderedAgain ==
  ASSUME TaskOK, TaskOK', Progress, NEW k, NEW list \in Seq(Entries), list # <<>>,
         list[Len(list)].type = "action_script_print", GoodList(k, list)
  PROVE  GoodList(k, Again(list))'
<1> DEFINE more == Again(list)
<1>1. /\ more \in Seq(Entries) /\ DOMAIN more = 1..Len(list) /\ DOMAIN list = 1..Len(list)
      /\ \A i \in 1..Len(list) : more[i].type = list[i].type /\ more[i].desc = list[i].desc
      /\ \A i \in 1..Len(list) : i # Len(list) => more[i] = list[i]
  BY AgainOK
<1> HIDE DEF more
<1>2. Waiting.type = "system" /\ outcome' = outcome
  BY EntryIs DEF Waiting, Progress
<1>3. ASSUME NEW i \in DOMAIN more, NEW j \in DOMAIN more, i < j
      PROVE  more[j] # Waiting /\ ~(Awaited(k, more[j]) /\ ToldAfter(more[i], more[j].desc))'
  <2>1. list[j] # Waiting /\ ~(Awaited(k, list[j]) /\ ToldAfter(list[i], list[j].desc))
    BY <1>1, <1>3 DEF GoodList, InOrder
  <2>2. more[j] # Waiting
    <3>1. CASE j = Len(list)
      BY <1>1, <1>2, <1>3, <3>1
    <3>2. CASE j # Len(list)
      BY <1>1, <1>3, <2>1, <3>2
    <3> QED BY <3>1, <3>2
  <2>3. /\ more[j].type = list[j].type /\ more[j].desc = list[j].desc
        /\ more[i].type = list[i].type /\ more[i].desc = list[i].desc
    BY <1>1, <1>3
  <2> QED BY <1>2, <2>1, <2>2, <2>3 DEF Awaited, ToldAfter
<1>4. ASSUME NEW i \in DOMAIN more
      PROVE  Known(more[i])'
  <2>1. Known(list[i])'
    BY <1>1, <1>4, KnownStays DEF GoodList
  <2>2. more[i].type = list[i].type /\ more[i].desc = list[i].desc
    BY <1>1, <1>4
  <2> QED BY <2>1, <2>2 DEF Known
<1> QED BY <1>3, <1>4 DEF GoodList, InOrder, more

LEMMA OrderedKept ==
  ASSUME TaskOK, TaskOK', Progress, NEW k, NEW list, GoodList(k, list)
  PROVE  GoodList(k, list)'
<1>1. \A i \in DOMAIN list : Known(list[i])'
  BY KnownStays DEF GoodList
<1>2. InOrder(k, list)'
  BY DEF GoodList, InOrder, Awaited, ToldAfter, Progress
<1> QED BY <1>1, <1>2 DEF GoodList

LEMMA OrderedAppended ==
  ASSUME TaskOK, TaskOK', Progress, NEW k, Holds(db, k),
         k \in DOMAIN db => GoodList(k, db[k].val), NEW e \in Fresh, MayFollow(k, e),
         NEW more, more = Append(Elements(db, k), e)
  PROVE  GoodList(k, more)'
<1>0. PICK list : list = Elements(db, k)
  OBVIOUS
<1> DEFINE n == Len(list)
<1>1. /\ list \in Seq(Entries)
      /\ k \notin DOMAIN db => list = <<>>
      /\ k \in DOMAIN db => list = db[k].val
  BY <1>0, ListIs
<1>2. GoodList(k, list)
  <2>1. CASE k \in DOMAIN db
    BY <1>1, <2>1
  <2>2. CASE k \notin DOMAIN db
    <3>1. DOMAIN list = {}
      BY <1>1, <2>2
    <3> QED BY <3>1 DEF GoodList, InOrder
  <2> QED BY <2>1, <2>2
<1>3. /\ DOMAIN more = 1..n + 1 /\ DOMAIN list = 1..n /\ n \in Nat
      /\ \A i \in 1..n : more[i] = list[i]
      /\ more[n + 1] = e
  BY <1>0, <1>1, AppendOK
<1>4. e = Waiting => n = 0
  BY <1>1 DEF MayFollow
<1>5. Awaited(k, e) => \A i \in 1..n : ~ToldAfter(list[i], e.desc)
  BY <1>0, <1>3 DEF MayFollow
<1> HIDE DEF n
<1>6. ASSUME NEW i \in 1..n + 1, NEW j \in 1..n + 1, i < j
      PROVE  more[j] # Waiting /\ ~(Awaited(k, more[j]) /\ ToldAfter(more[i], more[j].desc))
  <2>1. i \in 1..n
    BY <1>3, <1>6
  <2>2. CASE j = n + 1
    <3>1. n # 0
      BY <1>3, <2>1
    <3> QED BY <1>3, <1>4, <1>5, <2>1, <2>2, <3>1
  <2>3. CASE j # n + 1
    <3>1. j \in 1..n
      BY <1>3, <2>3
    <3> QED BY <1>2, <1>3, <1>6, <2>1, <3>1 DEF GoodList, InOrder
  <2> QED BY <2>2, <2>3
<1>7. InOrder(k, more)'
  <2>1. InOrder(k, more)
    BY <1>3, <1>6 DEF InOrder
  <2> QED BY <2>1 DEF InOrder, Awaited, ToldAfter, Progress
<1>8. ASSUME NEW i \in 1..n + 1
      PROVE  Known(more[i])'
  <2>1. CASE i = n + 1
    BY <1>3, <2>1 DEF MayFollow
  <2>2. CASE i # n + 1
    <3>1. i \in 1..n /\ more[i] = list[i]
      BY <1>3, <2>2
    <3>2. Known(list[i])
      BY <1>2, <1>3, <3>1 DEF GoodList
    <3> QED BY <3>1, <3>2, KnownStays
  <2> QED BY <2>1, <2>2
<1> QED BY <1>3, <1>7, <1>8 DEF GoodList

LEMMA OrderStepOK ==
  ASSUME RecordInv, TaskOK', ListStep, OrderOK, Progress, \A k \in KeptLists : OrderStep(k)
  PROVE  OrderOK'
<1> SUFFICES ASSUME ~late', NEW k \in KeptLists, NEW list,
                    IsList(db', k, list) \/ IsList(gathered', k, list)
             PROVE  GoodList(k, list)'
  BY DEF OrderOK, IsList
<1>1. /\ gathered' = gathered /\ TaskOK /\ Holds(db, k)
      /\ \A l : IsList(db, k, l) \/ IsList(gathered, k, l) => GoodList(k, l)
  BY DEF ListStep, RecordInv, OrderOK, StoreOK
<1>2. CASE IsList(gathered', k, list)
  BY <1>1, <1>2, OrderedKept DEF IsList
<1>3. CASE IsList(db', k, list) /\ ListKept(k)
  <2>1. IsList(db, k, list)
    BY <1>3 DEF IsList, ListKept
  <2> QED BY <1>1, <2>1, OrderedKept
<1>4. CASE IsList(db', k, list) /\ ListCounts(k)
  <2>1. PICK l : l = db[k].val
    OBVIOUS
  <2>2. /\ k \in DOMAIN db /\ list = Again(l) /\ l # <<>> /\ l \in Seq(Entries)
        /\ l[Len(l)].type = "action_script_print"
    BY <1>1, <1>4, <2>1 DEF IsList, ListCounts, Holds
  <2>3. GoodList(k, l)
    BY <1>1, <2>1, <2>2 DEF IsList
  <2>4. GoodList(k, Again(l))'
    BY <1>1, <2>2, <2>3, OrderedAgain
  <2> QED BY <2>2, <2>4
<1>5. ASSUME NEW e \in Fresh, ListGrows(k, e), MayFollow(k, e), IsList(db', k, list)
      PROVE  GoodList(k, list)'
  <2>1. list = Append(Elements(db, k), e)
    BY <1>5 DEF ListGrows, IsList
  <2>2. k \in DOMAIN db => GoodList(k, db[k].val)
    BY <1>1 DEF IsList
  <2> QED BY <1>1, <1>5, <2>1, <2>2, OrderedAppended
<1> QED BY <1>2, <1>3, <1>4, <1>5 DEF OrderStep

-----------------------------------------------------------------------------
(* The steps of the task.                                                    *)

LEMMA SentByStays ==
  ASSUME TaskOK, visit' \in [Visits -> Nat], Progress, NEW m, SentBy(m)
  PROVE  SentBy(m)'
<1>0. PICK v \in Visits : \E i \in 1..visit[v] : VisitMessage(v, outcome[v], i, m)
  BY DEF SentBy
<1>1. PICK i \in 1..visit[v] : VisitMessage(v, outcome[v], i, m)
  BY <1>0
<1>2. visit[v] \in Nat /\ visit'[v] \in Nat /\ visit[v] <= visit'[v] /\ outcome' = outcome
  BY DEF TaskOK, Progress
<1>3. i \in 1..visit'[v]
  BY <1>2
<1> QED BY <1>1, <1>2, <1>3 DEF SentBy

(* What a step of the task keeps, whatever it writes.                        *)
LEMMA TaskSame ==
  ASSUME TaskOK, main'.at \in Stages, main'.pc \in Nat, {"at", "pc"} \subseteq DOMAIN main',
         UNCHANGED <<visit, outcome>>, flying' \subseteq flying
  PROVE  /\ TaskOK' /\ Progress
         /\ BegunOK => BegunOK'
<1>1. Progress /\ visit' \in [Visits -> Nat]
  BY DEF TaskOK, Progress
<1>2. IsFiniteSet(flying') /\ \A m \in flying' : SentBy(m)'
  BY <1>1, SentByStays, FS_Subset DEF TaskOK
<1>3. BegunOK => BegunOK'
  BY DEF BegunOK, Ended, Program
<1> QED BY <1>1, <1>2, <1>3 DEF TaskOK, Program

(* What a step owes to the counts and to the order of the lists.             *)
ListsCounted == sent' \in [KeptLists -> Nat] /\ \A k \in KeptLists : CountStep(k)

TaskStep ==
  /\ TaskOK' /\ ListStep /\ Progress
  /\ sent \in [KeptLists -> Nat] => ListsCounted
  /\ OrderInv => BegunOK' /\ OpeningOK' /\ \A k \in KeptLists : OrderStep(k)

(* A step that writes to no list that is kept, and sends nothing.             *)
LEMMA ListlessStep ==
  ASSUME RecordInv, UNCHANGED <<flying, sent, left, gathered, backup, got, reader, ticks, late,
                                visit, outcome>>,
         DOMAIN db \subseteq DOMAIN db', \A k \in KeptLists : ListKept(k),
         loaded' => loaded,
         main'.at \in Stages, main'.pc \in Nat, {"at", "pc"} \subseteq DOMAIN main',
         main.at # "closed" /\ main'.at # "closed",
         OpeningOK => OpeningOK',
         main'.at # main.at =>
           /\ main.at \notin AfterScan /\ main'.at \notin AfterScan
           /\ main'.at \in {"open", "steps"} => main.at \in {"open", "steps"}
  PROVE  TaskStep
<1>1. TaskOK' /\ Progress /\ (BegunOK => BegunOK')
  BY TaskSame DEF RecordInv
<1>2. ListStep
  BY DEF ListStep
<1>3. ASSUME sent \in [KeptLists -> Nat]
      PROVE  ListsCounted
  <2>1. ASSUME NEW k \in KeptLists
        PROVE  CountStep(k)
    <3>1. Holds(db, k) /\ There(k) \in Nat /\ Underway(k) \in Nat /\ sent[k] \in Nat
      BY <1>3, CountTypes DEF RecordInv, StoreOK
    <3> QED BY <3>1, NothingCounted
  <2> QED BY <1>3, <2>1 DEF ListsCounted
<1>4. \A k \in KeptLists : OrderStep(k)
  BY DEF OrderStep
<1> QED BY <1>1, <1>2, <1>3, <1>4 DEF TaskStep, OrderInv

(* A step that writes and sends nothing.                                      *)
LEMMA QuietStep ==
  ASSUME RecordInv, UNCHANGED <<db, flying, sent, left, gathered, backup, got, reader, ticks, late,
                                visit, outcome>>,
         loaded' => loaded,
         main'.at \in Stages, main'.pc \in Nat, {"at", "pc"} \subseteq DOMAIN main',
         main.at # "closed" /\ main'.at # "closed",
         main'.at = "open" => main' = main,
         main'.at # main.at =>
           /\ main.at \notin AfterScan /\ main'.at \notin AfterScan
           /\ main'.at \in {"open", "steps"} => main.at \in {"open", "steps"}
  PROVE  TaskStep
<1>1. DOMAIN db \subseteq DOMAIN db' /\ \A k \in KeptLists : ListKept(k)
  BY DEF ListKept
<1>2. OpeningOK => OpeningOK'
  BY DEF OpeningOK
<1> QED BY <1>1, <1>2, ListlessStep

LEMMA MainRaisesStep ==
  ASSUME RecordInv, MainRaises, UNCHANGED <<got, reader, expired>>
  PROVE  TaskStep
<1>1. main.at \in {"open", "close", "case_error", "error", "fail"}
  <2>1. main.pc \in Nat /\ main.pc < HowMany(main.at)
    BY WritesAtAre DEF RecordInv, TaskOK, MainRaises
  <2> QED BY <2>1 DEF HowMany
<1>2. main'.at \in {"error", "fail"} /\ main'.pc = 0 /\ {"at", "pc"} \subseteq DOMAIN main'
  BY DEF MainRaises, StageAfterError
<1>3. UNCHANGED <<db, loaded, flying, sent, left, gathered, backup, got, reader, ticks, late, visit,
                  outcome>>
  BY DEF MainRaises, saving
<1> QED BY <1>1, <1>2, <1>3, QuietStep DEF Stages, AfterScan

LEMMA StepsEndStep ==
  ASSUME RecordInv, StepsEnd, UNCHANGED <<got, reader, expired>>
  PROVE  TaskStep
<1>1. /\ main.at = "steps" /\ main'.at \in {"close", "case_error"}
      /\ main'.pc = 0 /\ {"at", "pc"} \subseteq DOMAIN main'
  BY DEF StepsEnd
<1>2. UNCHANGED <<db, loaded, flying, sent, left, gathered, backup, got, reader, ticks, late, visit,
                  outcome>>
  BY DEF StepsEnd, saving
<1> QED BY <1>1, <1>2, QuietStep DEF Stages, AfterScan

LEMMA VisitRaisesStep ==
  ASSUME RecordInv, NEW v \in Visits, VisitRaises(v), UNCHANGED <<got, reader, expired>>
  PROVE  TaskStep
<1>1. /\ UNCHANGED <<db, loaded, main, flying, sent, left, gathered, backup, ticks, late, visit,
                     outcome>>
      /\ main.at # "closed"
  BY DEF VisitRaises, Runs, saving
<1>2. main.at \in Stages /\ main.pc \in Nat /\ {"at", "pc"} \subseteq DOMAIN main
  BY DEF RecordInv, TaskOK
<1> QED BY <1>1, <1>2, QuietStep

LEMMA RedisRestartsStep ==
  ASSUME RecordInv, RedisRestarts, UNCHANGED <<got, reader, expired>>
  PROVE  TaskStep
<1>1. /\ UNCHANGED <<db, main, flying, sent, left, gathered, backup, ticks, late, visit, outcome>>
      /\ loaded /\ main.at # "closed"
  BY DEF RedisRestarts, saving
<1>2. main.at \in Stages /\ main.pc \in Nat /\ {"at", "pc"} \subseteq DOMAIN main
  BY DEF RecordInv, TaskOK
<1> QED BY <1>1, <1>2, QuietStep

(* The entries that the task itself tells.                                    *)
LEMMA TaskTells ==
  ASSUME NEW at, NEW i \in Nat, NEW w, TaskWrite(at, i, w), NEW k \in Grows(w)
  PROVE  \/ at = "open" /\ i = 4 /\ Told(w, k) = Waiting
         \/ at = "open" /\ i = 7 /\ Told(w, k) = Waiting /\ k = CaseProcess
         \/ /\ at = "open" => i > 7
            /\ \E what \in Texts \ {"waiting"} : Told(w, k) = Entry("system", what)
<1>1. /\ \A x, f : Update(x, f).cmd = "update" /\ Increment(x, f).cmd = "increment"
      /\ \A f : InList(f).cmd = "list"
      /\ \A x, f : Sets(x, f).cmd = "set"
      /\ \A f : SetsAll(f).cmd = "set_all"
  BY DEF Update, Increment, InList, Sets, SetsAll
<1>2. w.cmd \notin {"update", "increment", "list", "set", "set_all"}
  BY DEF Grows
<1>3. CASE w = FirstLists /\ at = "open" /\ i = 4
  <2> DEFINE new == [x \in ({Process(s) : s \in Steps} \cup {Summary}) \cap KeptLists |-> Waiting]
  <2>1. w.cmd = "push_all" /\ w.arg = new
    BY <1>3 DEF FirstLists, PushesAll
  <2>2. k \in DOMAIN new
    BY <2>1 DEF Grows
  <2> QED BY <1>3, <2>1, <2>2 DEF Told
<1>4. CASE w = FirstOfCase /\ at = "open" /\ i = 7
  <2> DEFINE new == [x \in {CaseProcess} \cap KeptLists |-> Waiting]
  <2>1. w.cmd = "push_all" /\ w.arg = new
    BY <1>4 DEF FirstOfCase, PushesAll
  <2>2. k \in DOMAIN new
    BY <2>1 DEF Grows
  <2> QED BY <1>4, <2>1, <2>2 DEF Told
<1>5. w # FirstCounters
  <2>1. w = FirstCounters => w.cmd = "push_all" /\ DOMAIN w.arg = {ChildCases}
    BY DEF FirstCounters, PushesAll
  <2>2. ChildCases \notin KeptLists
    BY KeyKinds, ListKeys
  <2> QED BY <2>1, <2>2 DEF Grows
<1>6. ASSUME NEW what \in Texts \ {"waiting"}, w = Tells(what), at = "open" => i > 7
      PROVE  /\ at = "open" => i > 7
             /\ \E x \in Texts \ {"waiting"} : Told(w, k) = Entry("system", x)
  BY <1>6 DEF Tells, Pushes, Told
<1>7. {"task starts", "case starts", "case ends", "task ends", "case fails", "task fails"}
        \subseteq Texts \ {"waiting"}
  BY DEF Texts
<1>8. /\ w # FirstInfo /\ w # FirstRecord /\ w # FirstStatuses /\ w # FirstCases
      /\ \A x, f : w # Update(x, f) /\ w # Increment(x, f)
      /\ \A f : w # InList(f)
  BY <1>1, <1>2 DEF FirstInfo, FirstRecord, FirstStatuses, FirstCases
<1>9. \/ w = FirstLists /\ at = "open" /\ i = 4
      \/ w = FirstOfCase /\ at = "open" /\ i = 7
      \/ \E what \in Texts \ {"waiting"} : w = Tells(what) /\ (at = "open" => i > 7)
  <2>1. CASE at = "open"
    <3>1. \/ i = 4 /\ w = FirstLists
          \/ i = 7 /\ w = FirstOfCase
          \/ i > 7 /\ (w = Tells("task starts") \/ w = Tells("case starts"))
      <4>1. /\ w # FirstInfo /\ w # FirstRecord /\ w # FirstStatuses /\ w # FirstCases
            /\ w # InList(InfoOf("running")) /\ w # FirstCounters
        BY <1>5, <1>8
      <4>2. \/ i = 4 /\ w = FirstLists
            \/ i = 7 /\ w = FirstOfCase
            \/ i = 8 /\ w = Tells("task starts")
            \/ i = 9 /\ w = Tells("case starts")
        BY <2>1, <4>1 DEF TaskWrite
      <4>3. 8 > 7 /\ 9 > 7
        OBVIOUS
      <4> QED BY <4>2, <4>3
    <3>2. {"task starts", "case starts"} \subseteq Texts \ {"waiting"}
      BY <1>7
    <3>3. \A what \in {"task starts", "case starts"} :
            i > 7 /\ w = Tells(what) =>
              \E x \in Texts \ {"waiting"} : w = Tells(x) /\ (at = "open" => i > 7)
      BY <3>2
    <3> QED BY <2>1, <3>1, <3>3
  <2>2. CASE at # "open"
    <3>1. \/ w = Tells("case ends") \/ w = Tells("task ends")
          \/ w = Tells("case fails") \/ w = Tells("task fails")
      <4>1. /\ w # Increment(RecordInfo, [done_child_case_count |-> 1]) /\ w # InList(InfoOf("end"))
            /\ w # Update(TaskInfo, InfoOf("end")) /\ w # Update(RecordInfo, InfoOf("end"))
            /\ w # InList(InfoOf("error"))
        BY <1>8
      <4> QED BY <2>2, <4>1 DEF TaskWrite
    <3> QED BY <1>7, <2>2, <3>1
  <2> QED BY <2>1, <2>2
<1> QED BY <1>3, <1>4, <1>6, <1>9

(* They may follow whatever is in a list.                                     *)
LEMMA TextFollows ==
  ASSUME NEW k, NEW what \in Texts, what = "waiting" => k \notin DOMAIN db
  PROVE  MayFollow(k, Entry("system", what))
<1>1. what \notin Visits
  BY VisitAssumption
<1>2. Entry("system", what).type = "system" /\ Entry("system", what).desc = what
  BY EntryIs
<1>3. Entry("system", what) = Waiting => what = "waiting"
  BY <1>2, EntryIs DEF Waiting
<1> HIDE DEF Entry
<1>4. Known(Entry("system", what))'
  BY <1>1, <1>2 DEF Known
<1> QED BY <1>1, <1>2, <1>3, <1>4 DEF MayFollow, Awaited

LEMMA MainWritesStep ==
  ASSUME RecordInv, MainWrites, UNCHANGED <<got, reader, expired>>
  PROVE  TaskStep
<1> DEFINE i == main.pc + 1
<1>1. PICK w : /\ w = WritesAt(main.at)[i]
               /\ db' = Written(w) /\ sent' = Counting(Grows(w), {})
  BY DEF MainWrites
<1>2. main.pc \in Nat /\ main.at \in Stages /\ {"at", "pc"} \subseteq DOMAIN main
  BY DEF RecordInv, TaskOK
<1>3. i \in 1..HowMany(main.at) /\ HowMany(main.at) = Len(WritesAt(main.at))
  <2>1. HowMany(main.at) \in Nat
    BY DEF HowMany
  <2> QED BY <1>2, <2>1, WritesAtAre DEF MainWrites
<1>4. TaskWrite(main.at, i, w) /\ WriteOK(w)
  BY <1>1, <1>3, WritesAtAre, TaskWriteOK
<1>5. main.at \in {"open", "close", "case_error", "error", "fail"}
  BY <1>2, <1>3 DEF HowMany
<1>6. /\ main' = IF i = HowMany(main.at) THEN [at |-> NextStage(main.at), pc |-> 0]
                 ELSE [main EXCEPT !.pc = i]
      /\ UNCHANGED <<loaded, flying, left, gathered, backup, got, reader, ticks, late, visit, outcome>>
  BY <1>3 DEF MainWrites, saving
<1>7. /\ {"at", "pc"} \subseteq DOMAIN main' /\ main'.pc \in Nat
      /\ \/ main'.at = main.at /\ main'.pc = i
         \/ main.at = "open" /\ main'.at = "steps"
         \/ main'.at = "export"
  BY <1>2, <1>5, <1>6 DEF NextStage
<1>8. main'.at \in Stages
  BY <1>2, <1>7 DEF Stages
<1>9. TaskOK' /\ Progress /\ (BegunOK => BegunOK')
  BY <1>6, <1>7, <1>8, TaskSame DEF RecordInv
<1>10. /\ DOMAIN db \subseteq DOMAIN db'
       /\ \A k \in KeptLists :
            IF k \in Grows(w) THEN ListGrows(k, Told(w, k)) ELSE ListKept(k)
  BY <1>1, <1>4, WriteEffect
<1>11. \A k : Noticed(k)
  BY <1>5 DEF Noticed, AfterScan
<1>12. ListStep
  <2>1. \A k \in KeptLists : ListKept(k) \/ ListChanges(k)
    BY <1>10 DEF ListChanges, ListGrows
  <2> QED BY <1>5, <1>6, <1>7, <1>10, <1>11, <2>1 DEF ListStep, AfterScan
<1>13. ASSUME sent \in [KeptLists -> Nat]
       PROVE  ListsCounted
  <2>1. IsFiniteSet({}) /\ {} \cap flying = {} /\ flying' = flying \cup {}
    BY <1>6, FS_EmptySet
  <2>2. \A k \in KeptLists : CountStep(k) /\ sent'[k] \in Nat
    BY <1>1, <1>4, <1>6, <1>11, <1>13, <2>1, WriteCounted
  <2>3. sent' = [k \in KeptLists |-> sent'[k]]
    BY <1>1, <1>13 DEF Counting
  <2> QED BY <2>2, <2>3 DEF ListsCounted
<1>14. ASSUME OpeningOK
       PROVE  OpeningOK' /\ \A k \in KeptLists : OrderStep(k)
  <2>1. OpeningOK'
    <3> SUFFICES ASSUME main'.at = "open"
                 PROVE  /\ main'.pc < 4 => \A k \in KeptLists : k \notin DOMAIN db'
                        /\ main'.pc < 7 => CaseProcess \notin DOMAIN db' \cap KeptLists
      BY <1>6, <1>7, <1>14 DEF OpeningOK
    <3>1. main.at = "open" /\ main'.pc = i
      BY <1>5, <1>7
    <3>2. ASSUME main'.pc < 4, NEW k \in KeptLists
          PROVE  k \notin DOMAIN db'
      <4>1. k \notin Grows(w) /\ k \notin DOMAIN db
        <5>1. i < 4 /\ i \in Nat /\ main.pc < 4
          BY <1>2, <3>1, <3>2
        <5>2. k \notin DOMAIN db
          BY <1>14, <3>1, <5>1 DEF OpeningOK
        <5> HIDE DEF i
        <5>3. k \notin Grows(w)
          BY <1>4, <3>1, <5>1, TaskTells
        <5> QED BY <5>2, <5>3
      <4> QED BY <1>10, <4>1 DEF ListKept
    <3>3. ASSUME main'.pc < 7, CaseProcess \in KeptLists
          PROVE  CaseProcess \notin DOMAIN db'
      <4>1. CaseProcess \notin DOMAIN db
        BY <1>2, <1>14, <3>1, <3>3 DEF OpeningOK
      <4>2. CaseProcess \notin Grows(w)
        <5>1. i < 7 /\ i \in Nat
          BY <1>2, <3>1, <3>3
        <5>2. CASE i = 4
          <6>1. Grows(w) \subseteq {Process(s) : s \in Steps} \cup {Summary}
            <7>1. w = FirstLists
              <8> HIDE DEF i
              <8> QED BY <1>4, <3>1, <5>2 DEF TaskWrite
            <7> QED BY <7>1 DEF FirstLists, PushesAll, Grows
          <6> QED BY <6>1, ValueKeys
        <5>3. CASE i # 4
          <6> HIDE DEF i
          <6> QED BY <1>4, <3>1, <5>1, <5>3, TaskTells
        <5> QED BY <5>2, <5>3
      <4> QED BY <1>10, <3>3, <4>1, <4>2 DEF ListKept
    <3> QED BY <3>2, <3>3
  <2>2. ASSUME NEW k \in KeptLists, k \in Grows(w)
        PROVE  MayFollow(k, Told(w, k))
    <3>1. i \in Nat
      BY <1>2
    <3>2. \/ main.at = "open" /\ i = 4 /\ Told(w, k) = Waiting
          \/ main.at = "open" /\ i = 7 /\ Told(w, k) = Waiting /\ k = CaseProcess
          \/ \E what \in Texts \ {"waiting"} : Told(w, k) = Entry("system", what)
      <4> HIDE DEF i
      <4> QED BY <1>4, <2>2, <3>1, TaskTells
    <3>3. ASSUME Told(w, k) = Waiting, k \notin DOMAIN db
          PROVE  MayFollow(k, Told(w, k))
      <4>1. MayFollow(k, Entry("system", "waiting"))
        BY <3>3, TextFollows DEF Texts
      <4> QED BY <3>3, <4>1 DEF Waiting
    <3>4. \A what \in Texts \ {"waiting"} : MayFollow(k, Entry("system", what))
      BY TextFollows
    <3>5. main.at = "open" /\ i = 4 => k \notin DOMAIN db
      BY <1>2, <1>14 DEF OpeningOK
    <3>6. main.at = "open" /\ i = 7 /\ k = CaseProcess => k \notin DOMAIN db
      BY <1>2, <1>14 DEF OpeningOK
    <3> QED BY <3>2, <3>3, <3>4, <3>5, <3>6
  <2>3. ASSUME NEW k \in KeptLists
        PROVE  OrderStep(k)
    <3>1. CASE k \in Grows(w)
      <4>1. ListGrows(k, Told(w, k)) /\ Told(w, k) \in Fresh
        BY <1>10, <3>1 DEF ListGrows
      <4> QED BY <2>2, <3>1, <4>1 DEF OrderStep
    <3>2. CASE k \notin Grows(w)
      BY <1>10, <3>2 DEF OrderStep
    <3> QED BY <3>1, <3>2
  <2> QED BY <2>1, <2>3
<1> QED BY <1>9, <1>12, <1>13, <1>14 DEF TaskStep, OrderInv

(* The entries that a visit waits to tell.                                    *)
LEMMA VisitTells ==
  ASSUME NEW v \in Visits, NEW o, NEW i, NEW w, VisitWrite(v, o, i, w), NEW k \in Grows(w)
  PROVE  /\ i = BodyOf[v][o]
         /\ \E type \in {"interface", "action_script"} : Told(w, k) = Entry(type, v)
<1>1. /\ \A x, f : Update(x, f).cmd = "update"
      /\ \A f : InList(f).cmd = "list"
      /\ \A x, f : Sets(x, f).cmd = "set"
  BY DEF Update, InList, Sets
<1>2. w.cmd \notin {"update", "list", "set"}
  BY DEF Grows
<1>3. /\ \A x, f : w # Update(x, f) /\ w # Sets(x, f)
      /\ \A f : w # InList(f)
  BY <1>1, <1>2
<1>4. /\ w # Update(Status(StepOf[v]), [start |-> v])
      /\ w # CaseStatusOf(v, "running") /\ w # CaseStatusOf(v, StatusOf(o))
      /\ w # Sets(Detail(v), [of |-> v]) /\ w # InList(StepCount(o))
      /\ w # Update(Status(StepOf[v]), [end |-> v, status |-> StatusOf(o)])
  BY <1>3 DEF CaseStatusOf
<1>5. /\ i = BodyOf[v][o]
      /\ \/ w = Pushes(Process(StepOf[v]), Pointer(v))
         \/ w = Pushes(Process(StepOf[v]), Entry("action_script", v))
  BY <1>4 DEF VisitWrite
<1>6. \A x, e : Pushes(x, e).cmd = "push" /\ Pushes(x, e).arg = e
  BY DEF Pushes
<1>7. Told(w, k) = Entry("interface", v) \/ Told(w, k) = Entry("action_script", v)
  BY <1>5, <1>6 DEF Told, Pointer
<1> QED BY <1>5, <1>7

(* What a visit waits to tell follows nothing that is told later.            *)
LEMMA DetailsFollow ==
  ASSUME RecordInv, OrderInv, ~late, NEW k \in KeptLists, NEW v \in Visits,
         visit[v] < BodyOf[v][outcome[v]], ~Ended(v), visit'[v] > 0,
         NEW type \in {"interface", "action_script"}
  PROVE  MayFollow(k, Entry(type, v))
<1> DEFINE e == Entry(type, v)
           list == Elements(db, k)
<1>1. e.type = type /\ e.desc = v /\ Waiting.type = "system"
  BY EntryIs DEF Waiting
<1>2. Known(e)' /\ e # Waiting
  <2> HIDE DEF e
  <2> QED BY <1>1 DEF Known
<1>3. ASSUME NEW i \in DOMAIN list
      PROVE  ~ToldAfter(list[i], v)
  <2>1. Holds(db, k)
    BY DEF RecordInv, StoreOK
  <2>2. k \in DOMAIN db /\ list = db[k].val
    <3>1. k \notin DOMAIN db => list = <<>>
      BY <2>1, ListIs
    <3>2. list # <<>>
      BY <1>3
    <3> QED BY <2>1, <3>1, <3>2, ListIs
  <2>3. Known(list[i])
    <3>1. GoodList(k, list)
      BY <2>2 DEF OrderInv, OrderOK, IsList
    <3> QED BY <1>3, <3>1 DEF GoodList
  <2>4. PICK x : x = list[i]
    OBVIOUS
  <2>5. ~(x.type = "action_script_print" /\ \A u \in Visits : KindOf[u] = "script" => u = v)
    <3> SUFFICES ASSUME x.type = "action_script_print",
                        \A u \in Visits : KindOf[u] = "script" => u = v
                 PROVE  FALSE
      OBVIOUS
    <3>1. PICK u \in Visits : KindOf[u] = "script" /\ visit[u] >= BodyOf[u][outcome[u]]
      BY <2>3, <2>4 DEF Known
    <3>2. u = v
      BY <3>1
    <3>3. visit[v] \in Nat /\ BodyOf[v][outcome[v]] \in Nat
      BY ProgramIs DEF RecordInv, TaskOK, PartsAre
    <3> QED BY <3>1, <3>2, <3>3
  <2>6. ~(x.desc \in Visits /\ v \in After[x.desc])
    <3> SUFFICES ASSUME x.desc \in Visits, v \in After[x.desc]
                 PROVE  FALSE
      OBVIOUS
    <3>1. visit[x.desc] > 0
      BY <2>3, <2>4 DEF Known
    <3>2. Ended(v)
      BY <3>1 DEF OrderInv, BegunOK
    <3> QED BY <3>2
  <2> HIDE DEF list
  <2> QED BY <2>4, <2>5, <2>6 DEF ToldAfter
<1> HIDE DEF e
<1>4. Awaited(k, e) => \A i \in DOMAIN list : ~ToldAfter(list[i], e.desc)
  BY <1>1, <1>3
<1> QED BY <1>2, <1>4 DEF MayFollow, e, list

(* No visit begins before the task's own opening writes are done.             *)
LEMMA RunsAfterOpening ==
  ASSUME RecordInv, OpeningOK, NEW v \in Visits, Runs(v)
  PROVE  main.at # "open"
<1> SUFFICES ASSUME main.at = "open"
             PROVE  FALSE
  OBVIOUS
<1>1. \A u \in Visits : visit[u] = 0
  BY DEF OpeningOK
<1>2. MayBegin(v)
  BY <1>1 DEF Runs, Begun
<1>3. PICK u \in Visits : v \in Within[u]
  BY <1>2 DEF MayBegin
<1>4. visit[u] >= BodyOf[u][outcome[u]]
  BY <1>2, <1>3 DEF MayBegin
<1>5. outcome[u] \in Outcome
  BY DEF RecordInv, TaskOK
<1>6. PartsAre(u, outcome[u])
  BY <1>5, ProgramIs
<1>7. BodyOf[u][outcome[u]] \in Nat /\ BodyOf[u][outcome[u]] > 0
  BY <1>6 DEF PartsAre
<1> QED BY <1>1, <1>4, <1>7

LEMMA VisitWritesStep ==
  ASSUME RecordInv, NEW v \in Visits, VisitWrites(v), UNCHANGED <<got, reader, expired>>
  PROVE  TaskStep
<1> DEFINE o == outcome[v]
           i == visit[v] + 1
<1>1. PICK s : /\ s = Program(v)[i]
               /\ db' = Written(s.write) /\ flying' = flying \cup s.then
               /\ sent' = Counting(Grows(s.write), s.then)
               /\ late' = (late \/ Passed(Grows(s.write)))
  BY DEF VisitWrites
<1>2. PICK w : w = s.write
  OBVIOUS
<1>3. PICK msgs : msgs = s.then
  OBVIOUS
<1>4. /\ visit' = [visit EXCEPT ![v] = i] /\ Runs(v)
      /\ UNCHANGED <<loaded, main, outcome, left, gathered, backup, ticks, got, reader>>
  BY DEF VisitWrites
<1>5. /\ outcome \in [Visits -> Outcome] /\ visit \in [Visits -> Nat]
      /\ \A u \in Visits : visit[u] <= Len(Program(u))
      /\ IsFiniteSet(flying) /\ \A m \in flying : SentBy(m)
      /\ main.at \in Stages /\ main.pc \in Nat /\ {"at", "pc"} \subseteq DOMAIN main
  BY DEF RecordInv, TaskOK
<1>6. o \in Outcome /\ Program(v) = ProgramOf[v][o] /\ ~Ended(v) /\ main.at # "closed"
  BY <1>4, <1>5 DEF Program, Runs
<1>7. i \in 1..Len(Program(v)) /\ i \in Nat /\ visit[v] \in Nat
  <2>1. Len(Program(v)) \in Nat
    BY <1>6, ProgramIs
  <2> QED BY <1>5, <1>6, <2>1 DEF Ended
<1>8. StretchIs(v, o, i, s) /\ PartsAre(v, o)
  BY <1>1, <1>6, <1>7, ProgramIs
<1>9. /\ VisitWrite(v, o, i, w) /\ WriteOK(w)
      /\ IsFiniteSet(msgs) /\ \A m \in msgs : VisitMessage(v, o, i, m)
  <2>1. VisitWrite(v, o, i, w) /\ IsFiniteSet(msgs) /\ \A m \in msgs : VisitMessage(v, o, i, m)
    BY <1>2, <1>3, <1>8 DEF StretchIs
  <2> HIDE DEF o, i
  <2> QED BY <2>1, VisitWriteOK
<1>10. /\ visit' \in [Visits -> Nat] /\ visit'[v] = i /\ Progress
       /\ \A u \in Visits : u # v => visit'[u] = visit[u]
  <2>1. /\ visit' \in [Visits -> Nat] /\ visit'[v] = i
        /\ \A u \in Visits : u # v => visit'[u] = visit[u]
    BY <1>4, <1>5, <1>7
  <2>2. ASSUME NEW u \in Visits
        PROVE  visit'[u] >= visit[u]
    <3>1. visit[u] \in Nat
      BY <1>5
    <3>2. CASE u = v
      BY <1>7, <2>1, <3>1, <3>2
    <3>3. CASE u # v
      BY <2>1, <3>1, <3>3
    <3> QED BY <3>2, <3>3
  <2> QED BY <1>4, <2>1, <2>2 DEF Progress
<1>11. TaskOK'
  <2>1. \A u \in Visits : visit'[u] <= Len(Program(u)')
    <3>1. \A u \in Visits : Program(u)' = Program(u)
      BY <1>4 DEF Program
    <3>2. i <= Len(Program(v))
      BY <1>7
    <3> QED BY <1>5, <1>10, <3>1, <3>2
  <2>2. IsFiniteSet(flying')
    BY <1>1, <1>3, <1>5, <1>9, FS_Union
  <2>3. ASSUME NEW m \in flying'
        PROVE  SentBy(m)'
    <3>1. CASE m \in flying
      BY <1>5, <1>10, <3>1, SentByStays DEF RecordInv
    <3>2. CASE m \in msgs
      <4>1. VisitMessage(v, outcome'[v], i, m) /\ i \in 1..visit'[v]
        BY <1>4, <1>7, <1>9, <1>10, <3>2
      <4> QED BY <4>1 DEF SentBy
    <3> QED BY <1>1, <1>3, <2>3, <3>1, <3>2
  <2> QED BY <1>4, <1>5, <1>10, <2>1, <2>2, <2>3 DEF TaskOK
<1>12. msgs \cap flying = {}
  <2> SUFFICES ASSUME NEW m \in msgs, m \in flying
               PROVE  FALSE
    OBVIOUS
  <2>1. PICK u \in Visits : \E j \in 1..visit[u] : VisitMessage(u, outcome[u], j, m)
    BY <1>5 DEF SentBy
  <2>2. PICK j \in 1..visit[u] : VisitMessage(u, outcome[u], j, m)
    BY <2>1
  <2>3. VisitMessage(v, o, i, m) /\ (u = v => outcome[u] = o)
    BY <1>9
  <2>4. u = v /\ j = i
    <3> HIDE DEF o, i
    <3> QED BY <2>2, <2>3, MessagesDiffer
  <2> QED BY <1>7, <2>2, <2>4
<1>13. /\ DOMAIN db \subseteq DOMAIN db'
       /\ \A k \in KeptLists :
            IF k \in Grows(w) THEN ListGrows(k, Told(w, k)) ELSE ListKept(k)
  BY <1>1, <1>2, <1>9, WriteEffect
<1>14. \A k \in Grows(w) : Noticed(k)
  BY <1>1, <1>2 DEF Noticed, Passed, AfterScan
<1>15. ListStep
  <2>1. \A k \in KeptLists : ListKept(k) \/ (ListChanges(k) /\ Noticed(k))
    BY <1>13, <1>14 DEF ListChanges, ListGrows
  <2>2. late => late'
    BY <1>1
  <2> QED BY <1>4, <1>6, <1>13, <2>1, <2>2 DEF ListStep
<1>16. ASSUME sent \in [KeptLists -> Nat]
       PROVE  ListsCounted
  <2>1. db' = Written(w) /\ flying' = flying \cup msgs /\ sent' = Counting(Grows(w), msgs)
    BY <1>1, <1>2, <1>3
  <2>2. \A k \in KeptLists : CountStep(k) /\ sent'[k] \in Nat
    BY <1>4, <1>9, <1>12, <1>14, <1>16, <2>1, WriteCounted
  <2>3. sent' = [k \in KeptLists |-> sent'[k]]
    BY <2>1, <1>16 DEF Counting
  <2> QED BY <2>2, <2>3 DEF ListsCounted
<1>17. ASSUME OrderInv
       PROVE  BegunOK'
  <2> SUFFICES ASSUME NEW u \in Visits, visit'[u] > 0, NEW x \in After[u] \cap Visits
               PROVE  visit'[x] = Len(Program(x))
    <3>1. \A x \in Visits : Program(x)' = Program(x)
      BY <1>4 DEF Program
    <3> QED BY <3>1 DEF BegunOK, Ended
  <2>1. Ended(x)
    <3>1. CASE visit[u] > 0
      BY <1>17, <3>1 DEF OrderInv, BegunOK
    <3>2. CASE ~(visit[u] > 0)
      <4>1. u = v
        BY <1>10, <3>2
      <4>2. MayBegin(v)
        BY <1>4, <3>2, <4>1 DEF Runs, Begun
      <4> QED BY <4>1, <4>2 DEF MayBegin
    <3> QED BY <3>1, <3>2
  <2>2. x # v
    BY <1>6, <2>1
  <2> QED BY <1>10, <2>1, <2>2 DEF Ended
<1>18. ASSUME OrderInv
       PROVE  OpeningOK'
  <2>1. main.at # "open"
    BY <1>4, <1>18, RunsAfterOpening DEF OrderInv
  <2> QED BY <1>4, <2>1 DEF OpeningOK
<1>19. ASSUME OrderInv, NEW k \in KeptLists
       PROVE  OrderStep(k)
  <2>1. CASE k \notin Grows(w)
    BY <1>13, <2>1 DEF OrderStep
  <2>2. CASE k \in Grows(w)
    <3>1. ListGrows(k, Told(w, k)) /\ Told(w, k) \in Fresh
      BY <1>13, <2>2 DEF ListGrows
    <3>2. /\ i = BodyOf[v][o]
          /\ \E type \in {"interface", "action_script"} : Told(w, k) = Entry(type, v)
      <4> HIDE DEF o, i
      <4> QED BY <1>9, <2>2, VisitTells
    <3>3. PICK type \in {"interface", "action_script"} : Told(w, k) = Entry(type, v)
      BY <3>2
    <3>4. visit[v] < BodyOf[v][outcome[v]] /\ visit'[v] > 0
      BY <1>7, <1>10, <3>2
    <3>5. ~late' => ~late
      BY <1>1
    <3>6. ~late => MayFollow(k, Entry(type, v))
      BY <1>6, <1>19, <3>4, DetailsFollow
    <3> QED BY <3>1, <3>3, <3>5, <3>6 DEF OrderStep
  <2> QED BY <2>1, <2>2
<1> QED BY <1>10, <1>11, <1>15, <1>16, <1>17, <1>18, <1>19 DEF TaskStep

LEMMA ChildrenUnmadeStep ==
  ASSUME RecordInv, NEW v \in Visits, ChildrenUnmade(v), UNCHANGED <<got, reader, expired>>
  PROVE  TaskStep
<1>1. PICK w : w = Program(v)[1].write /\ db' = Written(w)
  BY DEF ChildrenUnmade
<1>2. /\ UNCHANGED <<loaded, main, flying, sent, left, gathered, backup, ticks, late, visit, outcome>>
      /\ Runs(v) /\ main.at # "closed"
  BY DEF ChildrenUnmade, Runs, saving
<1>3. PICK o \in Outcome : o = outcome[v] /\ Program(v) = ProgramOf[v][o]
  BY DEF RecordInv, TaskOK, Program
<1>4. main.at \in Stages /\ main.pc \in Nat /\ {"at", "pc"} \subseteq DOMAIN main
  BY DEF RecordInv, TaskOK
<1>5. PartsAre(v, o) /\ 1 \in 1..Len(Program(v))
  <2>1. PartsAre(v, o) /\ Len(Program(v)) \in Nat
    BY <1>3, ProgramIs
  <2> QED BY <1>3, <2>1 DEF PartsAre
<1>6. VisitWrite(v, o, 1, w)
  BY <1>1, <1>3, <1>5, ProgramIs DEF StretchIs
<1>7. w = Update(Status(StepOf[v]), [start |-> v])
  BY <1>5, <1>6 DEF VisitWrite, PartsAre
<1>8. WriteOK(w) /\ Grows(w) = {}
  <2>1. WriteOK(w)
    BY <1>6, VisitWriteOK
  <2> QED BY <1>7, <2>1 DEF Update, Grows
<1>9. DOMAIN db \subseteq DOMAIN db' /\ \A k \in KeptLists : ListKept(k)
  BY <1>1, <1>8, WriteEffect
<1>10. OpeningOK => OpeningOK'
  BY <1>2, RunsAfterOpening DEF OpeningOK
<1> QED BY <1>2, <1>4, <1>9, <1>10, ListlessStep

LEMMA ArrivesStep ==
  ASSUME RecordInv, NEW m \in flying, Arrives(m), UNCHANGED <<got, reader, expired>>
  PROVE  TaskStep
<1>1. /\ flying' = flying \ {m} /\ main.at # "closed"
      /\ late' = (late \/ Passed({m.key}))
      /\ UNCHANGED <<loaded, main, visit, outcome, sent, left, gathered, backup, ticks, got, reader>>
  BY DEF Arrives
<1>2. main.at \in Stages /\ main.pc \in Nat /\ {"at", "pc"} \subseteq DOMAIN main /\ SentBy(m)
  BY DEF RecordInv, TaskOK
<1>3. TaskOK' /\ Progress /\ (BegunOK => BegunOK')
  <2>1. flying' \subseteq flying
    BY <1>1
  <2> QED BY <1>1, <1>2, <2>1, TaskSame DEF RecordInv
<1>4. PICK v \in Visits : \E i \in 1..visit[v] : VisitMessage(v, outcome[v], i, m)
  BY <1>2 DEF SentBy
<1>5. PICK i \in 1..visit[v] : VisitMessage(v, outcome[v], i, m)
  BY <1>4
<1>6. MessageOK(m)
  BY <1>5, VisitMessageOK
<1>7. /\ DOMAIN db \subseteq DOMAIN db'
      /\ \A k : k # m.key => ListKept(k)
      /\ \/ ListGrows(m.key, m.entry)
         \/ ListCounts(m.key)
         \/ ListKept(m.key) /\ ~loaded
  <2>1. db' = CASE m.cmd = "push"            -> Push(db, m.key, m.entry)
                [] m.cmd = "print" /\ loaded -> PrintValue(db, m.key, m.entry)
                [] OTHER                      -> db
    BY DEF Arrives
  <2> QED BY <1>6, <2>1, MessageEffect
<1>8. ListGrows(m.key, m.entry) => ListChanges(m.key)
  BY DEF ListChanges, ListGrows
<1>9. Noticed(m.key)
  BY <1>1 DEF Noticed, Passed, AfterScan
<1>10. ListStep
  <2>1. \A k \in KeptLists : ListKept(k) \/ (ListChanges(k) /\ Noticed(k))
    BY <1>7, <1>8, <1>9 DEF ListChanges
  <2>2. late => late'
    BY <1>1
  <2> QED BY <1>1, <1>7, <2>1, <2>2 DEF ListStep
<1>11. ASSUME sent \in [KeptLists -> Nat]
       PROVE  ListsCounted
  <2>1. ASSUME NEW k \in KeptLists
        PROVE  CountStep(k)
    <3>1. IF k = m.key THEN ListChanges(k) \/ (ListKept(k) /\ ~loaded) ELSE ListKept(k)
      BY <1>7, <1>8 DEF ListChanges
    <3>2. UNCHANGED <<sent, loaded>> /\ sent[k] \in Nat
      BY <1>1, <1>11
    <3> QED BY <1>1, <1>9, <3>1, <3>2, ArrivalCounted
  <2> QED BY <1>1, <1>11, <2>1 DEF ListsCounted
<1>12. ASSUME OpeningOK
       PROVE  OpeningOK'
  <2>1. main.at # "open"
    BY <1>12 DEF OpeningOK
  <2> QED BY <1>1, <2>1 DEF OpeningOK
<1>13. MayFollow(m.key, m.entry)
  <2>1. PICK e : e = m.entry
    OBVIOUS
  <2>2. visit[v] > 0 /\ visit'[v] > 0 /\ visit' = visit /\ outcome' = outcome
    <3>1. visit[v] \in Nat
      BY DEF RecordInv, TaskOK
    <3> QED BY <1>1, <3>1
  <2>3. Waiting.type = "system"
    BY EntryIs DEF Waiting
  <2>4. CASE Sent(v, m)
    <3>1. e.desc = v /\ e.type \in {"step_skipped", "step_running", "interface", "system_exception"}
      <4>1. e.type \in {"step_skipped", "step_running", "interface", "system_exception"}
        <5>1. m.cmd = "push"
          BY <2>4 DEF Sent
        <5> QED BY <1>5, <2>1, <5>1 DEF VisitMessage
      <4>2. e.desc = v
        BY <2>1, <2>4, EntryIs DEF Sent
      <4> QED BY <4>1, <4>2
    <3>2. ~Awaited(m.key, e)
      <4> SUFFICES ASSUME e.type = "interface", outcome[v] = "success", m.key = Process(StepOf[v])
                   PROVE  FALSE
        BY <3>1 DEF Awaited
      <4>1. m.cmd = "push"
        BY <2>4 DEF Sent
      <4>2. StatusOf(outcome[v]) # "error"
        BY DEF StatusOf
      <4>3. m.entry.type = "interface" /\ m.key = Process(StepOf[v])
        BY <2>1
      <4>4. m.cmd # "print"
        BY <4>1
      <4> QED BY <1>5, <4>2, <4>3, <4>4 DEF VisitMessage
    <3>3. Known(e)'
      BY <2>2, <3>1 DEF Known
    <3> QED BY <2>1, <2>3, <3>1, <3>2, <3>3 DEF MayFollow
  <2>5. CASE ~Sent(v, m)
    <3>1. /\ m.entry = Entry("action_script_print", "text")
          /\ KindOf[v] = "script" /\ i = BodyOf[v][outcome[v]]
      BY <1>5, <2>5 DEF VisitMessage
    <3>2. e.type = "action_script_print" /\ e.desc = "text"
      BY <2>1, <3>1, EntryIs
    <3>3. e.desc \notin Visits
      BY <3>2, VisitAssumption DEF Texts
    <3>4. Known(e)'
      <4>1. visit[v] \in Nat /\ visit[v] >= BodyOf[v][outcome[v]]
        BY <3>1 DEF RecordInv, TaskOK
      <4>2. KindOf[v] = "script" /\ visit'[v] >= BodyOf[v][outcome'[v]]
        BY <2>2, <3>1, <4>1
      <4> QED BY <3>3, <4>2 DEF Known
    <3> QED BY <2>1, <2>3, <3>2, <3>3, <3>4 DEF MayFollow, Awaited
  <2> QED BY <2>4, <2>5
<1>14. \A k \in KeptLists : OrderStep(k)
  <2>1. m.entry \in Fresh
    BY <1>6 DEF MessageOK
  <2>2. \A k \in KeptLists : k # m.key => OrderStep(k)
    BY <1>7 DEF OrderStep
  <2>3. OrderStep(m.key)
    BY <1>7, <1>13, <2>1 DEF OrderStep
  <2> QED BY <2>2, <2>3
<1> QED BY <1>3, <1>10, <1>11, <1>12, <1>14 DEF TaskStep, OrderInv

-----------------------------------------------------------------------------
(* What a step keeps: the counts of the lists and the client's pieces only   *)
(* while the lists in redis are those of the export.                         *)

Keeps ==
  /\ RecordInv'
  /\ TimeOK => TimeOK'
  /\ SameOK => SameOK'
  /\ OrderInv => OrderInv'

KeepsExact ==
  /\ SameOK /\ AgreeOK => AgreeOK'
  /\ SameOK /\ CountOK => CountOK'

LEMMA TaskStepKeeps ==
  ASSUME RecordInv, TaskStep
  PROVE  Keeps /\ KeepsExact
<1>1. TaskOK' /\ ListStep /\ Progress
  BY DEF TaskStep
<1>2. RecordInv'
  BY <1>1, ListStepKeepsRecord DEF RecordInv
<1>3. (TimeOK => TimeOK') /\ (SameOK => SameOK') /\ (AgreeOK => AgreeOK')
  BY <1>1, ListStepKeepsTime, ListStepSame, ListStepAgrees
<1>4. ASSUME OrderInv
      PROVE  OrderInv'
  <2>1. BegunOK' /\ OpeningOK' /\ \A k \in KeptLists : OrderStep(k)
    BY <1>4 DEF TaskStep
  <2>2. OrderOK'
    BY <1>1, <1>4, <2>1, OrderStepOK DEF OrderInv
  <2> QED BY <1>3, <1>4, <2>1, <2>2 DEF OrderInv
<1>5. ASSUME CountOK
      PROVE  CountOK'
  <2>1. sent \in [KeptLists -> Nat] /\ ListsCounted
    BY <1>5 DEF CountOK, TaskStep
  <2>2. ASSUME NEW k \in KeptLists
        PROVE  CountIs(k)'
    <3>1. CountStep(k) /\ CountIs(k) /\ sent[k] \in Nat
      BY <1>5, <2>1 DEF CountOK, ListsCounted
    <3> QED BY <1>1, <3>1, CountStepOK
  <2> QED BY <2>1, <2>2 DEF CountOK, ListsCounted
<1> QED BY <1>2, <1>3, <1>4, <1>5 DEF Keeps, KeepsExact

(* A step that neither writes a message nor sends one.                        *)
StillStep ==
  /\ UNCHANGED <<visit, outcome, late>> /\ flying' \subseteq flying
  /\ main'.at \in Stages /\ main'.pc \in Nat /\ {"at", "pc"} \subseteq DOMAIN main'
  /\ main'.at = "open" => UNCHANGED <<main, db>>

LEMMA StillTask ==
  ASSUME RecordInv, StillStep
  PROVE  /\ TaskOK' /\ Progress
         /\ OrderInv => BegunOK' /\ OpeningOK'
<1>1. TaskOK' /\ Progress /\ (BegunOK => BegunOK')
  BY TaskSame DEF RecordInv, StillStep
<1>2. OpeningOK => OpeningOK'
  BY DEF OpeningOK, StillStep
<1> QED BY <1>1, <1>2 DEF OrderInv

LEMMA StillOrder ==
  ASSUME RecordInv, StillStep, OrderInv, SameOK',
         \A k \in KeptLists : \A list :
           ~late /\ (IsList(db', k, list) \/ IsList(gathered', k, list))
             => (IsList(db, k, list) \/ IsList(gathered, k, list))
  PROVE  OrderInv'
<1>1. TaskOK' /\ Progress /\ BegunOK' /\ OpeningOK'
  BY StillTask
<1>2. OrderOK'
  <2> SUFFICES ASSUME ~late', NEW k \in KeptLists, NEW list,
                      IsList(db', k, list) \/ IsList(gathered', k, list)
               PROVE  GoodList(k, list)'
    BY DEF OrderOK, IsList
  <2>1. ~late
    BY DEF StillStep
  <2>2. GoodList(k, list)
    BY <2>1 DEF OrderInv, OrderOK
  <2> QED BY <1>1, <2>2, OrderedKept DEF RecordInv
<1> QED BY <1>1, <1>2 DEF OrderInv

LEMMA StillCounts ==
  ASSUME UNCHANGED <<db, flying, gathered, sent, loaded, late>>, reader'.now = reader.now,
         main'.at # "closed" => main.at # "closed", CountOK
  PROVE  CountOK'
<1>1. \A k : There(k)' = There(k) /\ Underway(k)' = Underway(k) /\ Read(k)' = Read(k)
  BY DEF There, Underway, Read
<1>2. \A k : CountIs(k) => CountIs(k)'
  BY <1>1 DEF CountIs
<1> QED BY <1>2 DEF CountOK

LEMMA StillStore ==
  ASSUME RecordInv, UNCHANGED <<db, gathered>>
  PROVE  /\ StoreOK'
         /\ \A k, list : IsList(db', k, list) \/ IsList(gathered', k, list)
                           => IsList(db, k, list) \/ IsList(gathered, k, list)
BY DEF RecordInv, StoreOK, Holds, IsList

-----------------------------------------------------------------------------
(* The export.                                                               *)

LEMMA HandledAreKeys ==
  ASSUME NEW keys, NEW K \in Handled(keys)
  PROVE  K \subseteq keys
BY DEF Handled

LEMMA ExportBeginsStep ==
  ASSUME RecordInv, ExportBegins, UNCHANGED <<got, reader, expired>>
  PROVE  Keeps /\ KeepsExact
<1>1. /\ main.at = "export" /\ main'.at = "scan" /\ main'.pc = 0
      /\ {"at", "pc"} \subseteq DOMAIN main' /\ left' = DOMAIN db
      /\ UNCHANGED <<db, loaded, visit, outcome, flying, sent, gathered, backup, late, got, reader>>
  BY DEF ExportBegins
<1>2. StillStep
  BY <1>1 DEF StillStep, Stages
<1>3. TaskOK' /\ StoreOK'
  BY <1>1, <1>2, StillTask, StillStore
<1>4. DOMAIN gathered = {} /\ backup.at # "whole"
  BY <1>1 DEF RecordInv, SavedOK
<1>5. SavedOK' /\ ImportOK'
  BY <1>1, <1>4 DEF RecordInv, SavedOK, ImportOK
<1>6. TimeOK'
  BY <1>1 DEF TimeOK
<1>7. SameOK => SameOK'
  <2>1. \A k : SameIn(k) => SameIn(k)'
    BY <1>1, <1>4 DEF SameIn
  <2> QED BY <1>1, <2>1 DEF SameOK
<1>8. AgreeOK => AgreeOK'
  BY <1>1 DEF AgreeOK
<1>9. CountOK => CountOK'
  BY <1>1, StillCounts
<1>10. OrderInv => OrderInv'
  BY <1>1, <1>2, <1>7, StillOrder, StillStore DEF OrderInv
<1> QED BY <1>3, <1>5, <1>6, <1>7, <1>8, <1>9, <1>10 DEF Keeps, KeepsExact, RecordInv

LEMMA ExportReadsStep ==
  ASSUME RecordInv, ExportReads, UNCHANGED <<got, reader, expired>>
  PROVE  Keeps /\ KeepsExact
<1>1. PICK K \in Handled(left) :
        /\ left' = left \ K
        /\ gathered' = [k \in DOMAIN gathered \cup (K \cap DOMAIN db) |->
                         IF k \in K THEN db[k] ELSE gathered[k]]
  BY DEF ExportReads
<1>2. /\ main.at = "scan" /\ main' = main
      /\ UNCHANGED <<db, loaded, visit, outcome, flying, sent, backup, late, got, reader>>
  BY DEF ExportReads, writing
<1>3. K \subseteq left /\ DOMAIN gathered \cap left = {}
  BY HandledAreKeys DEF RecordInv, SavedOK
<1>4. backup.at # "whole" /\ reader.now = {}
  BY <1>2 DEF RecordInv, SavedOK, ImportOK
<1>5. StillStep
  BY <1>2 DEF StillStep, RecordInv, TaskOK
<1>6. TaskOK'
  BY <1>5, StillTask
<1>7. ASSUME NEW k \in K
      PROVE  /\ k \notin DOMAIN gathered /\ k \notin left'
             /\ k \in DOMAIN gathered' <=> k \in DOMAIN db
             /\ k \in DOMAIN db => gathered'[k] = db[k]
  BY <1>1, <1>3
<1>8. ASSUME NEW k, k \notin K
      PROVE  /\ k \in left' <=> k \in left
             /\ k \in DOMAIN gathered' <=> k \in DOMAIN gathered
             /\ k \in DOMAIN gathered => gathered'[k] = gathered[k]
  BY <1>1, <1>8
<1>9. StoreOK'
  <2>1. ASSUME NEW k \in KeptLists
        PROVE  Holds(db', k) /\ Holds(gathered', k)
    <3>1. Holds(db, k) /\ Holds(gathered, k) /\ db' = db
      BY <1>2 DEF RecordInv, StoreOK
    <3> QED BY <1>7, <1>8, <3>1 DEF Holds
  <2> QED BY <2>1 DEF StoreOK
<1>10. SavedOK' /\ ImportOK'
  <2>1. DOMAIN gathered' \cap left' = {}
    BY <1>3, <1>7, <1>8
  <2> QED BY <1>2, <1>4, <2>1 DEF RecordInv, SavedOK, ImportOK
<1>11. TimeOK'
  BY <1>2 DEF TimeOK
<1>12. SameOK => SameOK'
  <2>1. ASSUME NEW k, SameIn(k)
        PROVE  SameIn(k)'
    <3>1. CASE k \in K
      BY <1>2, <1>4, <1>7, <3>1 DEF SameIn
    <3>2. CASE k \notin K
      BY <1>2, <1>4, <1>8, <2>1, <3>2 DEF SameIn
    <3> QED BY <3>1, <3>2
  <2> QED BY <1>2, <2>1 DEF SameOK
<1>13. AgreeOK => AgreeOK'
  <2> SUFFICES ASSUME ~late, AgreeOK
               PROVE  AgreeOK'
    BY <1>2 DEF AgreeOK
  <2>1. Followed \in DOMAIN gathered' => BeginningOf(got, gathered'[Followed].val)
    BY <1>7, <1>8 DEF AgreeOK
  <2> QED BY <1>2, <2>1 DEF AgreeOK
<1>14. CountOK => CountOK'
  <2>1. ASSUME NEW k \in KeptLists, CountIs(k)
        PROVE  CountIs(k)'
    <3>1. There(k)' = There(k) /\ Underway(k)' = Underway(k) /\ Read(k)' = MessagesIn(Elements(gathered', k))
      BY <1>2 DEF There, Underway, Read
    <3>2. CASE k \in K
      <4>1. Elements(gathered', k) = Elements(db, k)
        BY <1>7, <3>2 DEF Elements, Exists
      <4>2. Read(k)' = There(k)
        BY <3>1, <4>1 DEF There
      <4>3. There(k) \in Nat /\ Underway(k) \in Nat /\ reader'.now = {} /\ reader.now = {}
        BY <1>2, <1>4, CountTypes
      <4>4. Read(k)' + Underway(k)' + 0 <= sent'[k]
        BY <1>2, <2>1, <3>1, <4>2, <4>3 DEF CountIs
      <4> QED BY <1>2, <2>1, <3>1, <4>2, <4>3, <4>4 DEF CountIs
    <3>3. CASE k \notin K
      <4>1. Elements(gathered', k) = Elements(gathered, k)
        BY <1>8, <3>3 DEF Elements, Exists
      <4>2. Read(k)' = Read(k) /\ (k \in DOMAIN gathered' <=> k \in DOMAIN gathered)
        BY <1>8, <3>1, <3>3, <4>1 DEF Read
      <4> QED BY <1>2, <2>1, <3>1, <4>2 DEF CountIs
    <3> QED BY <3>2, <3>3
  <2> QED BY <1>2, <2>1 DEF CountOK
<1>15. OrderInv => OrderInv'
  <2>1. \A k, list : IsList(db', k, list) \/ IsList(gathered', k, list)
                       => IsList(db, k, list) \/ IsList(gathered, k, list)
    BY <1>2, <1>7, <1>8 DEF IsList
  <2> QED BY <1>5, <1>12, <2>1, StillOrder DEF OrderInv
<1> QED BY <1>6, <1>9, <1>10, <1>11, <1>12, <1>13, <1>14, <1>15 DEF Keeps, KeepsExact, RecordInv

LEMMA ExportOpensStep ==
  ASSUME RecordInv, ExportOpens, UNCHANGED <<got, reader, expired>>
  PROVE  Keeps /\ KeepsExact
<1>1. /\ main.at = "scan" /\ left = {} /\ left' = {}
      /\ main'.at \in {"write", "close_pool"} /\ main'.pc = 0
      /\ {"at", "pc"} \subseteq DOMAIN main'
      /\ UNCHANGED <<db, loaded, visit, outcome, flying, sent, gathered, late, got, reader>>
      /\ backup' = backup \/ backup' = [at |-> "torn"]
  BY DEF ExportOpens
<1>2. backup.at # "whole" /\ backup'.at # "whole"
  BY <1>1 DEF RecordInv, SavedOK
<1>3. StillStep
  BY <1>1 DEF StillStep, Stages
<1>4. TaskOK' /\ StoreOK'
  BY <1>1, <1>3, StillTask, StillStore
<1>5. SavedOK' /\ ImportOK'
  BY <1>1, <1>2 DEF RecordInv, SavedOK, ImportOK
<1>6. TimeOK'
  BY <1>1 DEF TimeOK
<1>7. SameOK => SameOK'
  <2>1. \A k : SameIn(k) => SameIn(k)'
    BY <1>1 DEF SameIn
  <2> QED BY <1>1, <2>1 DEF SameOK
<1>8. AgreeOK => AgreeOK'
  BY <1>1, <1>2 DEF AgreeOK
<1>9. CountOK => CountOK'
  BY <1>1, StillCounts
<1>10. OrderInv => OrderInv'
  BY <1>1, <1>3, <1>7, StillOrder, StillStore DEF OrderInv
<1> QED BY <1>4, <1>5, <1>6, <1>7, <1>8, <1>9, <1>10 DEF Keeps, KeepsExact, RecordInv

LEMMA ExportWritesStep ==
  ASSUME RecordInv, ExportWrites, UNCHANGED <<got, reader, expired>>
  PROVE  Keeps /\ KeepsExact
<1>1. /\ main.at = "write" /\ left' = left
      /\ main'.at = "close_pool" /\ main'.pc = 0 /\ {"at", "pc"} \subseteq DOMAIN main'
      /\ UNCHANGED <<db, loaded, visit, outcome, flying, sent, gathered, late, got, reader>>
      /\ backup'.at = "whole" /\ backup'.keys = gathered
  BY DEF ExportWrites
<1>2. backup.at # "whole" /\ left = {}
  BY <1>1 DEF RecordInv, SavedOK
<1>3. StillStep
  BY <1>1 DEF StillStep, Stages
<1>4. TaskOK' /\ StoreOK'
  BY <1>1, <1>3, StillTask, StillStore
<1>5. SavedOK' /\ ImportOK'
  BY <1>1, <1>2 DEF RecordInv, SavedOK, ImportOK
<1>6. TimeOK'
  BY <1>1 DEF TimeOK
<1>7. SameOK => SameOK'
  <2>1. \A k : SameIn(k) => SameIn(k)'
    BY <1>1 DEF SameIn
  <2> QED BY <1>1, <2>1 DEF SameOK
<1>8. AgreeOK => AgreeOK'
  BY <1>1 DEF AgreeOK
<1>9. CountOK => CountOK'
  BY <1>1, StillCounts
<1>10. OrderInv => OrderInv'
  BY <1>1, <1>3, <1>7, StillOrder, StillStore DEF OrderInv
<1> QED BY <1>4, <1>5, <1>6, <1>7, <1>8, <1>9, <1>10 DEF Keeps, KeepsExact, RecordInv

LEMMA ClosesStep ==
  ASSUME RecordInv, Closes, UNCHANGED <<got, reader, expired>>
  PROVE  Keeps /\ KeepsExact
<1>1. /\ main.at = "close_pool" /\ flying' = {}
      /\ main'.at = "closed" /\ main'.pc = 0 /\ {"at", "pc"} \subseteq DOMAIN main'
      /\ UNCHANGED <<db, loaded, visit, outcome, sent, left, gathered, backup, late, got, reader>>
  BY DEF Closes, saving
<1>2. StillStep
  BY <1>1 DEF StillStep, Stages
<1>3. TaskOK' /\ StoreOK'
  BY <1>1, <1>2, StillTask, StillStore
<1>4. SavedOK' /\ ImportOK'
  BY <1>1 DEF RecordInv, SavedOK, ImportOK
<1>5. TimeOK'
  BY <1>1 DEF TimeOK
<1>6. SameOK => SameOK'
  <2>1. \A k : SameIn(k) => SameIn(k)'
    BY <1>1 DEF SameIn
  <2> QED BY <1>1, <2>1 DEF SameOK
<1>7. AgreeOK => AgreeOK'
  BY <1>1 DEF AgreeOK
<1>8. CountOK => CountOK'
  <2>1. ASSUME NEW k \in KeptLists, CountIs(k), sent[k] \in Nat
        PROVE  CountIs(k)'
    <3>1. There(k) \in Nat /\ Underway(k) \in Nat /\ Read(k) \in Nat
      BY CountTypes
    <3>2. There(k)' = There(k) /\ Read(k)' = Read(k)
      BY <1>1 DEF There, Read
    <3>3. Underway(k)' = 0
      <4>1. {m \in flying' : m.key = k} = {}
        BY <1>1
      <4> QED BY <4>1, FS_EmptySet DEF Underway
    <3>4. sent'[k] = sent[k] /\ reader' = reader
      BY <1>1
    <3>5. There(k)' + Underway(k)' <= sent'[k]
      BY <2>1, <3>1, <3>2, <3>3, <3>4 DEF CountIs
    <3>6. Read(k)' + Underway(k)' + (IF k \in reader'.now THEN There(k)' ELSE 0) <= sent'[k]
      BY <2>1, <3>1, <3>2, <3>3, <3>4 DEF CountIs
    <3> QED BY <1>1, <3>5, <3>6 DEF CountIs
  <2> QED BY <1>1, <2>1 DEF CountOK
<1>9. OrderInv => OrderInv'
  BY <1>1, <1>2, <1>6, StillOrder, StillStore DEF OrderInv
<1> QED BY <1>3, <1>4, <1>5, <1>6, <1>7, <1>8, <1>9 DEF Keeps, KeepsExact, RecordInv

-----------------------------------------------------------------------------
(* The reader.                                                               *)

LEMMA RestIsRest ==
  ASSUME NEW list \in Seq(Entries), NEW pieces \in Seq(Entries), BeginningOf(pieces, list)
  PROVE  /\ pieces \o SubSeq(list, Len(pieces) + 1, Len(list)) \in Seq(Entries)
         /\ BeginningOf(pieces \o SubSeq(list, Len(pieces) + 1, Len(list)), list)
<1> DEFINE m == Len(pieces)
           n == Len(list)
           rest == SubSeq(list, m + 1, n)
<1>1. m \in Nat /\ n \in Nat /\ m <= n
  BY DEF BeginningOf
<1>2. /\ rest \in Seq(Entries) /\ Len(rest) = n - m
      /\ \A i \in 1..n - m : rest[i] = list[m + i]
  <2>1. m + 1 \in Int /\ n \in Int /\ \A i \in m + 1..n : list[i] \in Entries
    BY <1>1
  <2>2. /\ rest \in Seq(Entries)
        /\ Len(rest) = IF m + 1 <= n THEN n - (m + 1) + 1 ELSE 0
        /\ \A i \in 1..n - (m + 1) + 1 : rest[i] = list[m + 1 + i - 1]
    <3> HIDE DEF m, n
    <3> QED BY <2>1, SubSeqProperties
  <2>3. Len(rest) = n - m
    BY <1>1, <2>2
  <2>4. \A i \in 1..n - m : i \in 1..n - (m + 1) + 1 /\ m + 1 + i - 1 = m + i
    <3> HIDE DEF m, n
    <3> QED BY <1>1
  <2>5. ASSUME NEW i \in 1..n - m
        PROVE  rest[i] = list[m + i]
    <3> HIDE DEF rest, m, n
    <3>1. rest[i] = list[m + 1 + i - 1]
      BY <2>2, <2>4
    <3> QED BY <2>4, <3>1
  <2> QED BY <2>2, <2>3, <2>5
<1> HIDE DEF rest
<1>3. /\ pieces \o rest \in Seq(Entries) /\ Len(pieces \o rest) = n
      /\ \A i \in 1..n : (pieces \o rest)[i] = IF i <= m THEN pieces[i] ELSE rest[i - m]
  BY <1>1, <1>2, ConcatProperties
<1>4. ASSUME NEW i \in 1..n
      PROVE  /\ (pieces \o rest)[i].type = list[i].type
             /\ (pieces \o rest)[i].desc = list[i].desc
             /\ (pieces \o rest)[i].times <= list[i].times
  <2>1. CASE i <= m
    BY <1>1, <1>3, <2>1 DEF BeginningOf
  <2>2. CASE i > m
    <3>1. (pieces \o rest)[i] = list[i]
      BY <1>1, <1>2, <1>3, <2>2
    <3>2. list[i] \in Entries
      OBVIOUS
    <3>3. \A e \in Entries : e.times \in Nat /\ e.times <= e.times
      BY DEF Entries
    <3>4. list[i].times <= list[i].times
      BY <3>2, <3>3
    <3> QED BY <3>1, <3>4
  <2>3. i <= m \/ i > m
    BY <1>1
  <2> QED BY <2>1, <2>2, <2>3
<1>5. BeginningOf(pieces \o rest, list)
  BY <1>1, <1>3, <1>4 DEF BeginningOf
<1> QED BY <1>3, <1>5 DEF rest

(* A step of the reader leaves the task and the export alone.                *)
ReaderStep ==
  UNCHANGED <<loaded, main, visit, raised, outcome, flying, sent, saving, ticks>>

LEMMA ReaderStepKeeps ==
  ASSUME RecordInv, ReaderStep, db' = db \/ main.at # "open"
  PROVE  TaskOK' /\ SavedOK' /\ StillStep
         /\ UNCHANGED <<loaded, main, flying, sent, left, gathered, backup, late, ticks>>
<1>1. UNCHANGED <<loaded, main, visit, outcome, flying, sent, left, gathered, backup, late, ticks>>
  BY DEF ReaderStep, saving
<1>2. StillStep
  BY <1>1 DEF StillStep, RecordInv, TaskOK
<1>3. TaskOK'
  BY <1>2, StillTask
<1>4. SavedOK'
  BY <1>1 DEF RecordInv, SavedOK
<1> QED BY <1>1, <1>2, <1>3, <1>4

(* A chunk continues what the client has.                                    *)
LEMMA ChunkContinues ==
  ASSUME RecordInv, AgreeOK, ~late, NEW extra, ChunkAnswered(extra)
  PROVE  /\ got' \in Seq(Entries)
         /\ Followed \in DOMAIN db => BeginningOf(got', db[Followed].val)
         /\ Followed \notin DOMAIN db => got' = got
<1>1. got \in Seq(Entries)
  BY DEF AgreeOK
<1>2. \/ got' = got
      \/ got' = got \o SubSeq(Elements(db, Followed), Len(got) + 1, Len(Elements(db, Followed)))
  BY DEF ChunkAnswered, Rest
<1>3. CASE got' = got
  BY <1>1, <1>3 DEF AgreeOK
<1>4. CASE got' = got \o SubSeq(Elements(db, Followed), Len(got) + 1,
                                Len(Elements(db, Followed)))
  <2>1. CASE Followed \in DOMAIN db
    <3>1. Elements(db, Followed) = db[Followed].val /\ db[Followed].val \in Seq(Entries)
      BY <2>1, FollowedAssumption DEF Elements, Exists, RecordInv, StoreOK, Holds
    <3>2. BeginningOf(got, db[Followed].val)
      BY <2>1 DEF AgreeOK
    <3> QED BY <1>1, <1>4, <2>1, <3>1, <3>2, RestIsRest
  <2>2. CASE Followed \notin DOMAIN db
    <3>1. Elements(db, Followed) = <<>> /\ Len(<<>>) = 0
      BY <2>2 DEF Elements, Exists
    <3>2. Len(got) \in Nat
      BY <1>1
    <3>3. SubSeq(<<>>, Len(got) + 1, 0) = <<>>
      BY <3>2, SubSeqEmpty
    <3>4. got \o <<>> = got
      BY <1>1, ConcatEmptySeq
    <3> QED BY <1>1, <1>4, <2>2, <3>1, <3>3, <3>4
  <2> QED BY <2>1, <2>2
<1> QED BY <1>2, <1>3, <1>4

LEMMA ReaderAgreesStep ==
  ASSUME RecordInv, ReaderStep, db' = db, SameOK, AgreeOK,
         got' = got \/ \E extra : ChunkAnswered(extra)
  PROVE  AgreeOK'
<1>1. UNCHANGED <<main, left, gathered, backup, late, db>>
  BY ReaderStepKeeps
<1> SUFFICES ASSUME ~late PROVE AgreeOK'
  BY <1>1 DEF AgreeOK
<1>2. /\ got' \in Seq(Entries)
      /\ Followed \in DOMAIN db => BeginningOf(got', db[Followed].val)
      /\ Followed \notin DOMAIN db => got' = got
  <2>1. CASE got' = got
    BY <2>1 DEF AgreeOK
  <2>2. CASE \E extra : ChunkAnswered(extra)
    BY <2>2, ChunkContinues
  <2> QED BY <2>1, <2>2
<1>3. Followed \in DOMAIN gathered => BeginningOf(got', gathered[Followed].val)
  <2>2. CASE Followed \notin DOMAIN db
    BY <1>2, <2>2 DEF AgreeOK
  <2>3. CASE Followed \in DOMAIN db
    <3>1. SameIn(Followed)
      BY FollowedAssumption DEF SameOK
    <3> QED BY <1>2, <2>3, <3>1 DEF SameIn
  <2> QED BY <2>2, <2>3
<1> QED BY <1>1, <1>2, <1>3 DEF AgreeOK

(* What an import may be: of the whole backup, or of what is left of it.     *)
LEMMA RequestStep ==
  ASSUME RecordInv, ReaderStep, db' = db, reader.now = {},
         got' = got \/ \E extra : ChunkAnswered(extra),
         \/ reader' = reader
         \/ reader' = Idle
         \/ \E for, keys, extra :
              /\ for \in {"chunk", "values", "restore"}
              /\ for = "chunk" => keys = {Followed}
              /\ Imports(for, keys, extra)
  PROVE  Keeps /\ KeepsExact
<1>1. /\ TaskOK' /\ SavedOK' /\ StillStep
      /\ UNCHANGED <<loaded, main, flying, sent, left, gathered, backup, late, ticks>>
  BY ReaderStepKeeps
<1>2. StoreOK'
  BY <1>1, StillStore
<1>3. TimeOK => TimeOK'
  <2>1. \A k : HasTime(k) => HasTime(k)'
    BY <1>1 DEF HasTime
  <2> QED BY <1>1, <2>1 DEF TimeOK
<1>4. ImportOK' /\ reader'.now = {}
  <2>1. CASE reader' = reader
    BY <1>1, <2>1 DEF RecordInv, ImportOK
  <2>2. CASE reader' = Idle
    BY <2>2 DEF ImportOK, Idle
  <2>3. ASSUME NEW for \in {"chunk", "values", "restore"}, NEW keys, NEW extra,
               for = "chunk" => keys = {Followed}, Imports(for, keys, extra), reader' # reader
        PROVE  ImportOK' /\ reader'.now = {}
    <3>1. /\ backup.at = "whole"
          /\ reader' = [at |-> for, keys |-> keys, extra |-> extra,
                        rest |-> DOMAIN backup.keys, now |-> {}]
      BY <2>3 DEF Imports
    <3> QED BY <1>1, <2>3, <3>1 DEF ImportOK
  <2> QED BY <2>1, <2>2, <2>3
<1>5. SameOK => SameOK'
  <2>1. \A k : SameIn(k) => SameIn(k)'
    BY <1>1, <1>4 DEF SameIn
  <2> QED BY <1>1, <2>1 DEF SameOK
<1>6. SameOK /\ AgreeOK => AgreeOK'
  BY ReaderAgreesStep
<1>7. CountOK => CountOK'
  BY <1>1, <1>4, StillCounts
<1>8. OrderInv => OrderInv'
  BY <1>1, <1>5, StillOrder, StillStore DEF OrderInv
<1> QED BY <1>1, <1>2, <1>3, <1>4, <1>5, <1>6, <1>7, <1>8 DEF Keeps, KeepsExact, RecordInv

LEMMA AsksStep ==
  ASSUME RecordInv,
         \/ \E extra \in Extras : AsksChunk(extra)
         \/ \E keys \in Wanted : AsksValues(keys)
         \/ AsksRestore
  PROVE  Keeps /\ KeepsExact
<1>1. ReaderStep /\ db' = db
  BY DEF AsksChunk, AsksValues, AsksRestore, ReaderStep, recording, writing
<1>2. reader.now = {}
  BY DEF AsksChunk, AsksValues, AsksRestore, RecordInv, ImportOK
<1>3. ASSUME NEW extra \in Extras, AsksChunk(extra)
      PROVE  /\ got' = got \/ \E x : ChunkAnswered(x)
             /\ reader' = reader \/ Imports("chunk", {Followed}, extra)
  BY <1>3 DEF AsksChunk
<1>4. ASSUME NEW keys \in Wanted, AsksValues(keys)
      PROVE  got' = got /\ (reader' = reader \/ Imports("values", keys, {}))
  BY <1>4 DEF AsksValues
<1>5. ASSUME AsksRestore
      PROVE  got' = got /\ Imports("restore", {}, {})
  BY <1>5 DEF AsksRestore
<1> QED BY <1>1, <1>2, <1>3, <1>4, <1>5, RequestStep

LEMMA ImportEndsStep ==
  ASSUME RecordInv, ImportEnds
  PROVE  Keeps /\ KeepsExact
<1>1. ReaderStep /\ db' = db /\ reader' = Idle /\ reader.now = {}
  BY DEF ImportEnds, ReaderStep, recording, writing
<1>2. reader.at \in {"chunk", "values", "restore"}
  BY DEF RecordInv, ImportOK, ImportEnds, Importing
<1>3. got' = got \/ \E extra : ChunkAnswered(extra)
  BY <1>2 DEF ImportEnds
<1> QED BY <1>1, <1>3, RequestStep

LEMMA ImportDeletesStep ==
  ASSUME RecordInv, ImportDeletes
  PROVE  Keeps /\ KeepsExact
<1>1. PICK K \in Handled(reader.rest) :
        /\ db' = [k \in DOMAIN db \ K |-> db[k]]
        /\ reader' = [reader EXCEPT !.rest = reader.rest \ K, !.now = K]
  BY DEF ImportDeletes
<1>2. /\ reader.at # "idle" /\ reader.now = {} /\ got' = got /\ ReaderStep
      /\ backup.at = "whole" /\ reader.rest \subseteq DOMAIN backup.keys
      /\ DOMAIN backup.keys \subseteq DOMAIN db \cup reader.rest
      /\ reader.at \in {"chunk", "values", "restore"} /\ main.at \in {"close_pool", "closed"}
      /\ backup.keys = gathered
  BY DEF ImportDeletes, Importing, ReaderStep, RecordInv, ImportOK, SavedOK
<1>3. /\ reader'.at = reader.at /\ reader'.keys = reader.keys /\ reader'.now = K
      /\ reader'.rest = reader.rest \ K
      /\ {"at", "keys", "extra", "rest", "now"} \subseteq DOMAIN reader'
  BY <1>1 DEF RecordInv, ImportOK
<1>4. /\ TaskOK' /\ SavedOK' /\ StillStep
      /\ UNCHANGED <<loaded, main, flying, sent, left, gathered, backup, late, ticks>>
  BY <1>2, ReaderStepKeeps
<1>5. K \subseteq reader.rest
  BY HandledAreKeys
<1>6. \A k : IF k \in K THEN k \notin DOMAIN db' ELSE ListKept(k)
  BY <1>1 DEF ListKept
<1>7. StoreOK'
  BY <1>4, <1>6 DEF RecordInv, StoreOK, Holds, ListKept
<1>8. ImportOK'
  <2>1. reader.at = "chunk" => reader.keys = {Followed}
    BY DEF RecordInv, ImportOK
  <2>2. DOMAIN db' = DOMAIN db \ K
    BY <1>1
  <2>3. /\ reader'.rest \cup reader'.now \subseteq DOMAIN backup'.keys
        /\ DOMAIN backup'.keys \subseteq DOMAIN db' \cup reader'.rest \cup reader'.now
    BY <1>2, <1>3, <1>4, <1>5, <2>2
  <2> QED BY <1>2, <1>3, <1>4, <2>1, <2>3 DEF ImportOK
<1>9. TimeOK'
  BY <1>2, <1>4 DEF TimeOK
<1>10. SameOK => SameOK'
  <2>1. \A k : SameIn(k) => SameIn(k)'
    BY <1>3, <1>4, <1>6 DEF SameIn, ListKept
  <2> QED BY <1>4, <2>1 DEF SameOK
<1>11. AgreeOK => AgreeOK'
  <2> SUFFICES ASSUME ~late, AgreeOK PROVE AgreeOK'
    BY <1>4 DEF AgreeOK
  <2>1. Followed \in DOMAIN db' => Followed \in DOMAIN db /\ db'[Followed] = db[Followed]
    BY <1>6 DEF ListKept
  <2> QED BY <1>2, <1>4, <2>1 DEF AgreeOK
<1>12. CountOK => CountOK'
  <2>1. ASSUME NEW k \in KeptLists, CountIs(k), sent[k] \in Nat
        PROVE  CountIs(k)'
    <3>1. There(k) \in Nat /\ Underway(k) \in Nat /\ Read(k) \in Nat
      BY CountTypes
    <3>2. Underway(k)' = Underway(k) /\ Read(k)' = Read(k)
      BY <1>4 DEF Underway, Read
    <3>3. There(k)' = IF k \in K THEN 0 ELSE There(k)
      <4>1. CASE k \in K
        BY <1>6, <4>1, NoMessages DEF There, Elements, Exists
      <4>2. CASE k \notin K
        BY <1>6, <4>2 DEF There, Elements, Exists, ListKept
      <4> QED BY <4>1, <4>2
    <3>4. There(k)' + Underway(k)' <= sent'[k]
      BY <1>4, <2>1, <3>1, <3>2, <3>3 DEF CountIs
    <3>5. Read(k)' + Underway(k)' + (IF k \in reader'.now THEN There(k)' ELSE 0) <= sent'[k]
      BY <1>2, <1>3, <1>4, <2>1, <3>1, <3>2, <3>3 DEF CountIs
    <3> QED BY <1>2, <1>3, <1>4, <2>1, <3>2, <3>3, <3>4, <3>5 DEF CountIs
  <2> QED BY <1>4, <2>1 DEF CountOK
<1>13. OrderInv => OrderInv'
  <2>1. \A k, list : IsList(db', k, list) \/ IsList(gathered', k, list)
                       => IsList(db, k, list) \/ IsList(gathered, k, list)
    BY <1>4, <1>6 DEF IsList, ListKept
  <2> QED BY <1>4, <1>10, <2>1, StillOrder DEF OrderInv
<1> QED BY <1>4, <1>7, <1>8, <1>9, <1>10, <1>11, <1>12, <1>13 DEF Keeps, KeepsExact, RecordInv

LEMMA ImportSetsStep ==
  ASSUME RecordInv, ImportSets
  PROVE  Keeps /\ KeepsExact
<1>1. /\ db' = [k \in DOMAIN db \cup reader.now |->
                  IF k \in reader.now THEN Restored(k) ELSE db[k]]
      /\ reader' = [reader EXCEPT !.now = {}] /\ got' = got /\ ReaderStep
  BY DEF ImportSets, ReaderStep
<1>2. /\ reader.at # "idle" /\ backup.at = "whole" /\ backup.keys = gathered
      /\ reader.now \subseteq DOMAIN gathered /\ reader.rest \subseteq DOMAIN gathered
      /\ DOMAIN gathered \subseteq DOMAIN db \cup reader.rest \cup reader.now
      /\ reader.at \in {"chunk", "values", "restore"} /\ main.at \in {"close_pool", "closed"}
  BY DEF ImportSets, Importing, RecordInv, ImportOK, SavedOK
<1>3. /\ reader'.at = reader.at /\ reader'.keys = reader.keys /\ reader'.now = {}
      /\ reader'.rest = reader.rest
      /\ {"at", "keys", "extra", "rest", "now"} \subseteq DOMAIN reader'
  BY <1>1 DEF RecordInv, ImportOK
<1>4. /\ TaskOK' /\ SavedOK' /\ StillStep
      /\ UNCHANGED <<loaded, main, flying, sent, left, gathered, backup, late, ticks>>
  BY <1>1, <1>2, ReaderStepKeeps
<1>5. \A k : k \notin reader.now => ListKept(k)
  BY <1>1 DEF ListKept
<1>6. ASSUME NEW k \in KeptLists, k \in reader.now
      PROVE  /\ k \in DOMAIN db'
             /\ db'[k].val = Elements(db, k) \o gathered[k].val
             /\ Elements(db', k) = Elements(db, k) \o gathered[k].val
             /\ {"val", "ttl"} \subseteq DOMAIN db'[k]
             /\ Elements(db, k) \in Seq(Entries) /\ Elements(gathered, k) = gathered[k].val
             /\ gathered[k].val \in Seq(Entries) \ {<<>>}
  <2>1. k \in DOMAIN db' /\ db'[k] = Restored(k)
    BY <1>1, <1>6
  <2>2. Restored(k) = [val |-> Elements(db, k) \o gathered[k].val, ttl |-> gathered[k].ttl]
    BY <1>2, ListKeys DEF Restored
  <2>3. Elements(db, k) \in Seq(Entries) /\ Elements(gathered, k) = gathered[k].val
    BY <1>2, <1>6, ListIs DEF RecordInv, StoreOK
  <2>4. gathered[k].val \in Seq(Entries) \ {<<>>}
    BY <1>2, <1>6 DEF RecordInv, StoreOK, Holds
  <2>5. \A x, y : [val |-> x, ttl |-> y].val = x /\ DOMAIN [val |-> x, ttl |-> y] = {"val", "ttl"}
    OBVIOUS
  <2>6. /\ db'[k].val = Elements(db, k) \o gathered[k].val
        /\ {"val", "ttl"} \subseteq DOMAIN db'[k]
    BY <2>1, <2>2, <2>5
  <2>7. Elements(db', k) = db'[k].val
    BY <2>1 DEF Elements, Exists
  <2> QED BY <2>1, <2>3, <2>4, <2>6, <2>7
<1>7. StoreOK'
  <2>1. ASSUME NEW k \in KeptLists, k \in reader.now
        PROVE  Holds(db', k)
    <3>1. PICK p : p = Elements(db, k)
      OBVIOUS
    <3>2. PICK q : q = gathered[k].val
      OBVIOUS
    <3>3. p \in Seq(Entries) /\ q \in Seq(Entries) /\ q # <<>>
      BY <1>6, <2>1, <3>1, <3>2
    <3>4. db'[k].val = p \o q /\ {"val", "ttl"} \subseteq DOMAIN db'[k]
      BY <1>6, <2>1, <3>1, <3>2
    <3>5. p \o q \in Seq(Entries) /\ Len(p \o q) = Len(p) + Len(q)
      BY <3>3, ConcatProperties
    <3>6. p \o q # <<>>
      BY <3>3, <3>5
    <3> QED BY <3>4, <3>5, <3>6 DEF Holds
  <2>2. ASSUME NEW k \in KeptLists, k \notin reader.now
        PROVE  Holds(db', k)
    BY <1>5, <2>2 DEF RecordInv, StoreOK, Holds, ListKept
  <2>3. \A k \in KeptLists : Holds(gathered', k)
    BY <1>4 DEF RecordInv, StoreOK
  <2> QED BY <2>1, <2>2, <2>3 DEF StoreOK
<1>8. ImportOK'
  <2>1. reader.at = "chunk" => reader.keys = {Followed}
    BY DEF RecordInv, ImportOK
  <2>2. DOMAIN db' = DOMAIN db \cup reader.now
    BY <1>1
  <2>3. /\ reader'.rest \cup reader'.now \subseteq DOMAIN backup'.keys
        /\ DOMAIN backup'.keys \subseteq DOMAIN db' \cup reader'.rest \cup reader'.now
    BY <1>2, <1>3, <1>4, <2>2
  <2> QED BY <1>2, <1>3, <1>4, <2>1, <2>3 DEF ImportOK
<1>9. TimeOK'
  BY <1>2, <1>4 DEF TimeOK
(* The list is not there, so that what is restored is what was read.          *)
<1>10. ASSUME SameOK, ~late, NEW k \in KeptLists, k \in reader.now
       PROVE  k \notin DOMAIN db /\ db'[k].val = gathered[k].val
  <2>1. k \notin DOMAIN db
    BY <1>10 DEF SameOK, SameIn
  <2>2. Elements(db, k) = <<>>
    BY <2>1 DEF Elements, Exists
  <2>3. <<>> \o gathered[k].val = gathered[k].val
    BY <1>6, <1>10, ConcatEmptySeq
  <2>4. db'[k].val = Elements(db, k) \o gathered[k].val
    BY <1>6, <1>10
  <2> QED BY <2>1, <2>2, <2>3, <2>4
<1>11. ASSUME SameOK
       PROVE  SameOK'
  <2> SUFFICES ASSUME ~late, NEW k \in KeptLists
               PROVE  SameIn(k)'
    BY <1>4 DEF SameOK
  <2>1. CASE k \in reader.now
    <3>1. k \in DOMAIN gathered
      BY <1>2, <2>1
    <3> QED BY <1>3, <1>4, <1>10, <1>11, <2>1, <3>1 DEF SameIn
  <2>2. CASE k \notin reader.now
    <3>1. SameIn(k)
      BY <1>11 DEF SameOK
    <3> QED BY <1>3, <1>4, <1>5, <2>2, <3>1 DEF SameIn, ListKept
  <2> QED BY <2>1, <2>2
<1>12. ASSUME SameOK, AgreeOK
       PROVE  AgreeOK'
  <2> SUFFICES ASSUME ~late PROVE AgreeOK'
    BY <1>4 DEF AgreeOK
  <2>1. CASE Followed \in reader.now
    <3>1. Followed \in DOMAIN gathered /\ db'[Followed].val = gathered[Followed].val
      BY <1>2, <1>10, <1>12, <2>1, FollowedAssumption
    <3> QED BY <1>1, <1>2, <1>4, <1>12, <3>1 DEF AgreeOK
  <2>2. CASE Followed \notin reader.now
    BY <1>1, <1>2, <1>4, <1>5, <1>12, <2>2 DEF AgreeOK, ListKept
  <2> QED BY <2>1, <2>2
<1>13. ASSUME SameOK, CountOK
       PROVE  CountOK'
  <2>1. ASSUME NEW k \in KeptLists
        PROVE  CountIs(k)'
    <3>1. /\ There(k) \in Nat /\ Underway(k) \in Nat /\ Read(k) \in Nat
          /\ sent[k] \in Nat /\ CountIs(k)
      BY <1>13, CountTypes DEF CountOK
    <3>2. Underway(k)' = Underway(k) /\ Read(k)' = Read(k) /\ sent'[k] = sent[k]
      BY <1>4 DEF Underway, Read
    <3>3. k \notin reader.now => There(k)' = There(k)
      BY <1>5 DEF There, Elements, Exists, ListKept
    <3>4. k \in reader.now => There(k)' = There(k) + Read(k)
      <4> SUFFICES ASSUME k \in reader.now
                   PROVE  There(k)' = There(k) + Read(k)
        OBVIOUS
      <4>1. PICK p : p = Elements(db, k)
        OBVIOUS
      <4>2. PICK q : q = Elements(gathered, k)
        OBVIOUS
      <4>3. p \in Seq(Entries) /\ q \in Seq(Entries) /\ Elements(db', k) = p \o q
        BY <1>6, <4>1, <4>2 DEF Elements, Exists
      <4>4. MessagesIn(p \o q) = MessagesIn(p) + MessagesIn(q)
        BY <4>3, MessagesConcat
      <4> QED BY <4>1, <4>2, <4>3, <4>4 DEF There, Read
    <3>5. There(k)' + Underway(k)' <= sent'[k]
      BY <3>1, <3>2, <3>3, <3>4 DEF CountIs
    <3>6. Read(k)' + Underway(k)' + (IF k \in reader'.now THEN There(k)' ELSE 0) <= sent'[k]
      BY <1>3, <3>1, <3>2 DEF CountIs
    <3>7. ASSUME loaded', ~late', main'.at # "closed"
          PROVE  There(k)' + Underway(k)' = sent'[k]
      <4>1. loaded /\ ~late /\ main.at # "closed"
        BY <1>4, <3>7
      <4>2. CASE k \in reader.now
        <5>1. There(k) = 0
          BY <1>10, <1>13, <4>1, <4>2, NoMessages DEF There, Elements, Exists
        <5>2. Read(k) + Underway(k) = sent[k]
          BY <1>2, <3>1, <4>1, <4>2 DEF CountIs
        <5> QED BY <3>1, <3>2, <3>4, <4>2, <5>1, <5>2
      <4>3. CASE k \notin reader.now
        BY <3>1, <3>2, <3>3, <4>1, <4>3 DEF CountIs
      <4> QED BY <4>2, <4>3
    <3>8. ASSUME loaded', ~late', main'.at # "closed", k \in DOMAIN gathered'
          PROVE  Read(k)' + Underway(k)' = sent'[k]
      BY <1>4, <3>1, <3>2, <3>8 DEF CountIs
    <3> QED BY <3>5, <3>6, <3>7, <3>8 DEF CountIs
  <2> QED BY <1>4, <1>13, <2>1 DEF CountOK
<1>14. ASSUME OrderInv
       PROVE  OrderInv'
  <2>1. ASSUME NEW k \in KeptLists, NEW list, ~late,
               IsList(db', k, list) \/ IsList(gathered', k, list)
        PROVE  IsList(db, k, list) \/ IsList(gathered, k, list)
    <3>1. CASE k \in reader.now
      BY <1>2, <1>4, <1>10, <1>14, <2>1, <3>1 DEF IsList, OrderInv
    <3>2. CASE k \notin reader.now
      BY <1>4, <1>5, <2>1, <3>2 DEF IsList, ListKept
    <3> QED BY <3>1, <3>2
  <2> QED BY <1>4, <1>11, <1>14, <2>1, StillOrder DEF OrderInv
<1> QED BY <1>4, <1>7, <1>8, <1>9, <1>11, <1>12, <1>13, <1>14 DEF Keeps, KeepsExact, RecordInv

-----------------------------------------------------------------------------
(* The clock.  A list does not expire while the task runs, when its steps    *)
(* take less time than a record is kept.                                     *)

LEMMA TickStep ==
  ASSUME RecordInv, Tick, reader.at = "idle", UNCHANGED <<got, reader, expired>>
  PROVE  Keeps /\ (RunTicks \in Nat /\ RunTicks < Week /\ TimeOK => KeepsExact)
<1>1. /\ UNCHANGED <<loaded, main, visit, outcome, flying, sent, left, gathered, backup, late, got,
                     reader>>
      /\ db' = Elapsed(db) /\ ticks' = ticks + 1
      /\ \/ main.at = "steps" /\ ticks < RunTicks
         \/ main.at = "closed"
  BY DEF Tick, saving
<1>2. /\ \A k : k \in DOMAIN db' <=> k \in DOMAIN db /\ db[k].ttl > 1
      /\ \A k \in DOMAIN db' : db'[k] = [db[k] EXCEPT !.ttl = db[k].ttl - 1]
  BY <1>1 DEF Elapsed
<1>3. ASSUME NEW k \in KeptLists, k \in DOMAIN db'
      PROVE  /\ k \in DOMAIN db /\ {"val", "ttl"} \subseteq DOMAIN db'[k]
             /\ db'[k].val = db[k].val /\ db'[k].ttl = db[k].ttl - 1
  BY <1>2, <1>3 DEF RecordInv, StoreOK, Holds
<1>4. StillStep /\ reader.now = {}
  BY <1>1 DEF StillStep, RecordInv, TaskOK, ImportOK
<1>5. TaskOK'
  BY <1>4, StillTask
<1>6. StoreOK'
  <2>1. \A k \in KeptLists : Holds(db', k)
    BY <1>3 DEF RecordInv, StoreOK, Holds
  <2>2. \A k \in KeptLists : Holds(gathered', k)
    BY <1>1 DEF RecordInv, StoreOK
  <2> QED BY <2>1, <2>2 DEF StoreOK
<1>7. SavedOK' /\ ImportOK'
  BY <1>1 DEF RecordInv, SavedOK, ImportOK
<1>8. ASSUME TimeOK PROVE TimeOK'
  <2> SUFFICES ASSUME main.at \in {"open", "steps"}, NEW k \in KeptLists
               PROVE  ticks' \in Nat /\ HasTime(k)'
    BY <1>1, <1>8 DEF TimeOK
  <2>1. ticks \in Nat /\ HasTime(k)
    BY <1>8 DEF TimeOK
  <2> QED BY <1>1, <1>3, <2>1, ExpiryAssumption DEF HasTime
<1>9. SameOK => SameOK'
  <2>1. \A k \in KeptLists : SameIn(k) => SameIn(k)'
    BY <1>1, <1>3 DEF SameIn
  <2> QED BY <1>1, <2>1 DEF SameOK
<1>10. OrderInv => OrderInv'
  <2>1. \A k \in KeptLists : \A list :
          IsList(db', k, list) \/ IsList(gathered', k, list)
            => IsList(db, k, list) \/ IsList(gathered, k, list)
    BY <1>1, <1>3 DEF IsList
  <2> QED BY <1>4, <1>9, <2>1, StillOrder DEF OrderInv
<1>11. ASSUME RunTicks \in Nat, RunTicks < Week, TimeOK, NEW k \in KeptLists,
              main.at # "closed", k \in DOMAIN db
       PROVE  k \in DOMAIN db'
  <2>1. ticks \in Nat /\ db[k].ttl \in Int /\ db[k].ttl >= Week - ticks /\ ticks < RunTicks
    BY <1>1, <1>11 DEF TimeOK, HasTime
  <2>2. db[k].ttl > 1
    BY <1>11, <2>1, ExpiryAssumption
  <2> QED BY <1>2, <1>11, <2>2
<1>12. ASSUME RunTicks \in Nat, RunTicks < Week, TimeOK, AgreeOK
       PROVE  AgreeOK'
  <2> SUFFICES ASSUME ~late PROVE AgreeOK'
    BY <1>1 DEF AgreeOK
  <2>1. Followed \in DOMAIN db' =>
          Followed \in DOMAIN db /\ db'[Followed].val = db[Followed].val
    BY <1>3, FollowedAssumption
  <2>2. Followed \in DOMAIN db /\ main.at # "closed" => Followed \in DOMAIN db'
    BY <1>11, <1>12, FollowedAssumption
  <2> QED BY <1>1, <1>12, <2>1, <2>2 DEF AgreeOK
<1>13. ASSUME RunTicks \in Nat, RunTicks < Week, TimeOK, CountOK
       PROVE  CountOK'
  <2>1. ASSUME NEW k \in KeptLists
        PROVE  CountIs(k)'
    <3>1. /\ There(k) \in Nat /\ Underway(k) \in Nat /\ Read(k) \in Nat
          /\ sent[k] \in Nat /\ CountIs(k)
      BY <1>13, CountTypes DEF CountOK
    <3>2. Underway(k)' = Underway(k) /\ Read(k)' = Read(k) /\ sent'[k] = sent[k]
      BY <1>1 DEF Underway, Read
    <3>3. k \in DOMAIN db' => There(k)' = There(k)
      BY <1>3 DEF There, Elements, Exists
    <3>4. k \notin DOMAIN db' => There(k)' = 0
      BY NoMessages DEF There, Elements, Exists
    <3>5. k \notin DOMAIN db' /\ k \notin DOMAIN db => There(k)' = There(k)
      BY DEF There, Elements, Exists
    <3>6. main.at # "closed" => There(k)' = There(k)
      BY <1>11, <1>13, <3>3, <3>5
    <3>7. There(k)' + Underway(k)' <= sent'[k]
      BY <3>1, <3>2, <3>3, <3>4 DEF CountIs
    <3>8. Read(k)' + Underway(k)' + (IF k \in reader'.now THEN There(k)' ELSE 0) <= sent'[k]
      BY <1>1, <1>4, <3>1, <3>2 DEF CountIs
    <3> QED BY <1>1, <3>1, <3>2, <3>6, <3>7, <3>8 DEF CountIs
  <2> QED BY <1>1, <1>13, <2>1 DEF CountOK
<1> QED BY <1>5, <1>6, <1>7, <1>8, <1>9, <1>10, <1>12, <1>13 DEF Keeps, KeepsExact, RecordInv

-----------------------------------------------------------------------------
(* The invariants hold at first, and every step keeps them.                  *)

LEMMA InitHolds ==
  ASSUME Init
  PROVE  /\ RecordInv /\ TimeOK /\ SameOK /\ AgreeOK /\ CountOK /\ OrderInv
         /\ ExpiredMeansGone
<1>1. /\ DOMAIN db = {} /\ DOMAIN gathered = {} /\ flying = {} /\ left = {} /\ ticks = 0
      /\ main.at = "open" /\ main.pc = 0 /\ {"at", "pc"} \subseteq DOMAIN main
      /\ visit = [v \in Visits |-> 0]
      /\ sent = [k \in KeptLists |-> 0]
      /\ backup.at = "none" /\ got = <<>> /\ reader = Idle /\ expired = {}
  BY DEF Init, RecordingInit
<1>2. TaskOK
  <2>1. outcome \in [Visits -> Outcome]
    <3>1. PICK own \in [Visits -> Outcome] :
                 outcome = [v \in Visits |-> IF Within[v] \cap unmade = {} THEN own[v]
                                             ELSE Failed(own[v])]
      BY DEF Init, RecordingInit
    <3>2. \A o : Failed(o) \in Outcome
      BY DEF Failed, Outcome
    <3> QED BY <3>1, <3>2
  <2>2. ASSUME NEW v \in Visits
        PROVE  visit[v] <= Len(Program(v))
    <3>1. Len(Program(v)) \in Nat
      BY <2>1, ProgramIs DEF Program
    <3> QED BY <1>1, <3>1
  <2> QED BY <1>1, <2>2, <2>1, FS_EmptySet DEF TaskOK, Stages
<1>3. StoreOK /\ SavedOK
  BY <1>1 DEF StoreOK, Holds, SavedOK
<1>4. ImportOK
  BY <1>1 DEF ImportOK, Idle
<1>5. TimeOK
  BY <1>1 DEF TimeOK, HasTime
<1>6. SameOK
  BY <1>1 DEF SameOK, SameIn, Idle
<1>7. AgreeOK
  <2>1. got \in Seq(Entries)
    BY <1>1
  <2> QED BY <1>1, <2>1 DEF AgreeOK
<1>8. CountOK
  <2>1. ASSUME NEW k \in KeptLists
        PROVE  CountIs(k)
    <3>1. There(k) = 0 /\ Read(k) = 0
      BY <1>1, NoMessages DEF There, Read, Elements, Exists
    <3>2. Underway(k) = 0
      <4>1. {m \in flying : m.key = k} = {}
        BY <1>1
      <4> QED BY <4>1, FS_EmptySet DEF Underway
    <3> QED BY <1>1, <3>1, <3>2 DEF CountIs, Idle
  <2> QED BY <1>1, <2>1 DEF CountOK
<1>9. OrderInv
  <2>1. BegunOK /\ OpeningOK
    BY <1>1 DEF BegunOK, OpeningOK
  <2>2. OrderOK
    BY <1>1 DEF OrderOK, IsList
  <2> QED BY <1>6, <2>1, <2>2 DEF OrderInv
<1> QED BY <1>1, <1>2, <1>3, <1>4, <1>5, <1>6, <1>7, <1>8, <1>9 DEF RecordInv, ExpiredMeansGone

LEMMA StutterKeeps ==
  ASSUME RecordInv, UNCHANGED vars
  PROVE  Keeps /\ KeepsExact
<1>1. UNCHANGED <<db, loaded, main, visit, outcome, flying, sent, left, gathered, backup, late,
                  ticks, got, reader>>
  BY DEF vars, recording, writing, saving
<1>2. StillStep
  BY <1>1 DEF StillStep, RecordInv, TaskOK
<1>3. TaskOK' /\ StoreOK'
  BY <1>1, <1>2, StillTask, StillStore
<1>4. SavedOK' /\ ImportOK'
  BY <1>1 DEF RecordInv, SavedOK, ImportOK
<1>5. TimeOK => TimeOK'
  BY <1>1 DEF TimeOK, HasTime
<1>6. SameOK => SameOK'
  BY <1>1 DEF SameOK, SameIn
<1>7. AgreeOK => AgreeOK'
  BY <1>1 DEF AgreeOK
<1>8. CountOK => CountOK'
  BY <1>1, StillCounts
<1>9. OrderInv => OrderInv'
  BY <1>1, <1>2, <1>6, StillOrder, StillStore DEF OrderInv
<1> QED BY <1>3, <1>4, <1>5, <1>6, <1>7, <1>8, <1>9 DEF Keeps, KeepsExact, RecordInv

LEMMA NextStep ==
  ASSUME RecordInv, [Next]_vars
  PROVE  Keeps /\ (RunTicks \in Nat /\ RunTicks < Week /\ TimeOK => KeepsExact)
<1>1. CASE Writer /\ UNCHANGED <<got, reader, expired>>
  <2>1. CASE MainWrites \/ MainRaises \/ StepsEnd
    BY <1>1, <2>1, MainWritesStep, MainRaisesStep, StepsEndStep, TaskStepKeeps
  <2>2. CASE \E v \in Visits : VisitWrites(v) \/ VisitRaises(v) \/ ChildrenUnmade(v)
    BY <1>1, <2>2, VisitWritesStep, VisitRaisesStep, ChildrenUnmadeStep, TaskStepKeeps
  <2>3. CASE \E m \in flying : Arrives(m)
    BY <1>1, <2>3, ArrivesStep, TaskStepKeeps
  <2>4. CASE ExportBegins \/ ExportReads \/ ExportOpens \/ ExportWrites \/ Closes
    BY <1>1, <2>4, ExportBeginsStep, ExportReadsStep, ExportOpensStep, ExportWritesStep,
       ClosesStep
  <2> QED BY <1>1, <2>1, <2>2, <2>3, <2>4 DEF Writer
<1>2. CASE Reader
  BY <1>2, AsksStep, ImportDeletesStep, ImportSetsStep, ImportEndsStep DEF Reader
<1>3. CASE Surroundings
  <2>1. CASE Tick
    BY <1>3, <2>1, TickStep DEF Surroundings
  <2>2. CASE RedisRestarts
    BY <1>3, <2>2, RedisRestartsStep, TaskStepKeeps DEF Surroundings
  <2> QED BY <1>3, <2>1, <2>2 DEF Surroundings
<1>4. CASE UNCHANGED vars
  BY <1>4, StutterKeeps
<1> QED BY <1>1, <1>2, <1>3, <1>4 DEF Next

-----------------------------------------------------------------------------
(* The theorems.                                                             *)

(* The client is told that what it asks for has expired only when neither    *)
(* redis nor the backup has it: the import of the backup, which the commands *)
(* of the task and the clock may come in between of, leaves in redis         *)
(* whatever the backup holds (record_controller.py, get_json_list_by_chunk). *)
LEMMA ExpiredStep ==
  ASSUME RecordInv, [Next]_vars, ExpiredMeansGone
  PROVE  ExpiredMeansGone'
<1>1. CASE expired' = {}
  BY <1>1 DEF ExpiredMeansGone
<1>2. CASE expired' = expired /\ expired # {}
  <2>1. backup.at = "whole" /\ main.at \in {"close_pool", "closed"}
    BY <1>2 DEF ExpiredMeansGone, RecordInv, SavedOK
  <2>2. backup' = backup
    <3>1. CASE Writer
      BY <2>1, <3>1 DEF Writer, MainWrites, MainRaises, StepsEnd, VisitWrites, VisitRaises,
         ChildrenUnmade, Arrives,
         ExportBegins, ExportReads, ExportOpens, ExportWrites, Closes, saving
    <3>2. CASE Reader
      BY <3>2 DEF Reader, AsksChunk, AsksValues, AsksRestore, ImportDeletes, ImportSets,
         ImportEnds, recording, saving
    <3>3. CASE Surroundings
      BY <3>3 DEF Surroundings, Tick, RedisRestarts, saving
    <3>4. CASE UNCHANGED vars
      BY <3>4 DEF vars, recording, saving
    <3> QED BY <3>1, <3>2, <3>3, <3>4 DEF Next
  <2> QED BY <1>2, <2>2 DEF ExpiredMeansGone
<1>3. CASE ImportEnds /\ expired' # {}
  <2>1. /\ reader.at \in {"chunk", "values", "restore"} /\ reader.rest = {} /\ reader.now = {}
        /\ reader.at = "chunk" => reader.keys = {Followed}
        /\ backup.at = "whole" /\ DOMAIN backup.keys \subseteq DOMAIN db /\ backup' = backup
    BY <1>3 DEF ImportEnds, Importing, RecordInv, ImportOK, recording, saving
  <2>2. CASE reader.at = "chunk"
    <3>1. NothingYet /\ expired' = {Followed}
      BY <1>3, <2>2 DEF ImportEnds, ChunkAnswered
    <3>2. Followed \notin DOMAIN db
      BY <3>1, FollowedAssumption DEF NothingYet, Elements, Exists, RecordInv, StoreOK, Holds
    <3> QED BY <2>1, <3>1, <3>2 DEF ExpiredMeansGone
  <2>3. CASE reader.at = "values"
    <3>1. expired' = reader.keys /\ ~(reader.keys \subseteq DOMAIN db)
      BY <1>3, <2>3 DEF ImportEnds
    <3> QED BY <2>1, <3>1 DEF ExpiredMeansGone
  <2>4. CASE reader.at = "restore"
    BY <1>3, <2>4 DEF ImportEnds
  <2> QED BY <2>1, <2>2, <2>3, <2>4
<1>4. expired' = {} \/ expired' = expired \/ ImportEnds
  <2>1. CASE Reader
    BY <2>1 DEF Reader, AsksChunk, AsksValues, AsksRestore, Imports, ChunkAnswered, NothingYet,
       ImportDeletes, ImportSets
  <2>2. CASE ~Reader
    BY <2>2 DEF Next, Surroundings, vars
  <2> QED BY <2>1, <2>2
<1> QED BY <1>1, <1>2, <1>3, <1>4

(* What the reader reports as expired and not recoverable is missing from a   *)
(* whole backup, however its requests (_handle_chunk, sync_import_from_file)  *)
(* interleave with the export, with expiry and with messages that arrive late: *)
(* a restore never loses a key that the backup holds.                         *)
THEOREM ExpiredMeansGoneAlways == Spec => []ExpiredMeansGone
<1>1. Init => RecordInv /\ ExpiredMeansGone
  BY InitHolds
<1>2. RecordInv /\ ExpiredMeansGone /\ [Next]_vars => (RecordInv /\ ExpiredMeansGone)'
  BY NextStep, ExpiredStep DEF Keeps
<1> QED BY <1>1, <1>2, PTL DEF Spec

(* What the client has been given is a beginning of the list, whatever the   *)
(* order in which messages arrive, the export reads, keys expire and the     *)
(* backup is imported: provided that the steps of the task do not run for as *)
(* long as a record is kept (REDIS_TASK_RECORD_TIMEOUT), as a list on which  *)
(* nothing is written for that long is gone before there is a backup of it.  *)
THEOREM ReaderAgreesAlways ==
  ASSUME RunTicks \in Nat, RunTicks < Week
  PROVE  Spec => []ReaderAgrees
<1> DEFINE IInv == RecordInv /\ TimeOK /\ SameOK /\ AgreeOK
<1>1. Init => IInv
  BY InitHolds
<1>2. IInv /\ [Next]_vars => IInv'
  BY NextStep DEF Keeps, KeepsExact
<1>3. IInv => ReaderAgrees
  <2> SUFFICES ASSUME IInv, ~late, Elements(db, Followed) # <<>>
               PROVE  /\ Len(got) <= Len(Elements(db, Followed))
                      /\ \A i \in DOMAIN got :
                           /\ got[i].type = Elements(db, Followed)[i].type
                           /\ got[i].desc = Elements(db, Followed)[i].desc
                           /\ got[i].times <= Elements(db, Followed)[i].times
    BY DEF ReaderAgrees
  <2>1. Followed \in DOMAIN db /\ Elements(db, Followed) = db[Followed].val
    BY DEF Elements, Exists
  <2>2. got \in Seq(Entries) /\ BeginningOf(got, db[Followed].val)
    BY <2>1 DEF AgreeOK
  <2>3. DOMAIN got = 1..Len(got)
    BY <2>2
  <2> QED BY <2>1, <2>2, <2>3 DEF BeginningOf
<1> QED BY <1>1, <1>2, <1>3, PTL DEF Spec

(* No message is in a list twice, and while the task lives, redis has its    *)
(* scripts and no message has come after the export, none is lost: whatever  *)
(* the order in which the messages of core/record and the awaited writes     *)
(* reach redis, and the requests import the backup.  As above, the steps do  *)
(* not run for as long as a record is kept.                                  *)
THEOREM EachMessageOnceAlways ==
  ASSUME RunTicks \in Nat, RunTicks < Week
  PROVE  Spec => []EachMessageOnce
<1> DEFINE IInv == RecordInv /\ TimeOK /\ SameOK /\ CountOK
<1>1. Init => IInv
  BY InitHolds
<1>2. IInv /\ [Next]_vars => IInv'
  BY NextStep DEF Keeps, KeepsExact
<1>3. IInv => EachMessageOnce
  BY DEF CountOK, CountIs, There, Underway, EachMessageOnce
<1> QED BY <1>1, <1>2, <1>3, PTL DEF Spec

(* The first entry of every list is before all others, and in the list of a  *)
(* step what it waited to write is before what the steps after it, and its   *)
(* own prints, tell: however long the task runs and whenever redis restarts, *)
(* and also in a list that has been restored from the backup.                *)
THEOREM AwaitedComesFirstAlways == Spec => []AwaitedComesFirst
<1> DEFINE IInv == RecordInv /\ OrderInv
<1>1. Init => IInv
  BY InitHolds
<1>2. IInv /\ [Next]_vars => IInv'
  BY NextStep DEF Keeps
<1>3. IInv => AwaitedComesFirst
  <2> SUFFICES ASSUME IInv, ~late, NEW k \in DOMAIN db \cap KeptLists
               PROVE  LET list == db[k].val
                      IN \A i, j \in DOMAIN list :
                           i < j => /\ list[j] # Waiting
                                    /\ ~(Awaited(k, list[j]) /\ ToldAfter(list[i], list[j].desc))
    BY DEF AwaitedComesFirst
  <2>1. PICK list : list = db[k].val
    OBVIOUS
  <2>2. GoodList(k, list)
    BY <2>1 DEF OrderInv, OrderOK, IsList
  <2> QED BY <2>1, <2>2 DEF GoodList, InOrder
<1> QED BY <1>1, <1>2, <1>3, PTL DEF Spec

-----------------------------------------------------------------------------
(* The values of the record, as far as what was awaited goes, while redis    *)
(* has its scripts, no exception has ended a visit, the backup is not yet     *)
(* whole and no key can have expired: UpdateFields leaves a key an hour.      *)

Lasting == loaded /\ raised = {} /\ backup.at # "whole" /\ ticks < Hour

(* The first i writes of the task, and of its end, are done.                 *)
Opened(i) == main.at = "open" => main.pc >= i
Over == {"export", "scan", "write"}
ClosedBy(i) == main.at \in Over \/ (main.at = "close" /\ main.pc >= i)

(* The task ends after its visits.                                           *)
FlowOK ==
  /\ main.at \in {"open", "steps", "close"} \cup Over
  /\ main.at = "open" => \A v \in Visits : visit[v] = 0
  /\ main.at \notin {"open", "steps"} => \A v \in Visits : Ended(v)

LastsOK ==
  \A k \in DOMAIN db :
    {"val", "ttl"} \subseteq DOMAIN db[k] /\ db[k].ttl \in Int /\ db[k].ttl >= Hour - ticks

TaskHeld ==
  /\ Opened(1) => TaskInfo \in DOMAIN db
  /\ Opened(2) => RecordInfo \in DOMAIN db
  /\ ClosedBy(5) => db[TaskInfo].val.status = "end"
  /\ ClosedBy(6) => db[RecordInfo].val.status = "end"

(* The visits that have been counted as ones with this status.               *)
Past(status) ==
  {v \in Visits : StatusOf(outcome[v]) = status /\ visit[v] > BodyOf[v][outcome[v]]}

Counters(status) ==
  [status |-> status, done_step_count |-> Cardinality(Past("success")),
   failed_step_count |-> Cardinality(Past("error")),
   skipped_step_count |-> Cardinality(Past("skipped"))]

CountersHeld ==
  IF Opened(5)
    THEN /\ ChildCases \in DOMAIN db
         /\ \E status \in {"pending", "running", "end"} :
              /\ db[ChildCases].val = <<Counters(status)>>
              /\ ClosedBy(2) => status = "end"
    ELSE ChildCases \notin DOMAIN db

(* The visits that tell the status of the same step.                         *)
Peers(v) == {u \in Visits : Tracked(u) /\ StepOf[u] = StepOf[v]}

StatusHeld(v) ==
  LET k == Status(StepOf[v])
  IN Opened(3) =>
       /\ k \in DOMAIN db
       /\ visit[v] > 0 => "start" \in DOMAIN db[k].val
       /\ Ended(v) =>
            /\ {"end", "status"} \subseteq DOMAIN db[k].val
            /\ \E u \in Peers(v) : db[k].val.end = u /\ db[k].val.status = StatusOf(outcome[u])

(* While another visit of the step runs, its status is "running".            *)
ToldOf(u) == visit[u] >= BodyOf[u][outcome[u]] + 2

CaseHeld(v) ==
  Opened(6) =>
    /\ CaseStatus \in DOMAIN db
    /\ (\A u \in Peers(v) : ToldOf(u)) =>
         /\ StepOf[v] \in DOMAIN db[CaseStatus].val
         /\ \E u \in Peers(v) : db[CaseStatus].val[StepOf[v]] = StatusOf(outcome[u])

DetailHeld(v) ==
  KindOf[v] = "interface" /\ ~Skipped(outcome[v]) /\ visit[v] > FirstOf(v, outcome[v])
    => Detail(v) \in DOMAIN db

ValuesHeld ==
  /\ TaskHeld /\ CountersHeld
  /\ \A v \in Visits : Tracked(v) => StatusHeld(v) /\ CaseHeld(v)
  /\ \A v \in Visits : DetailHeld(v)

(* What the export has read is what there is; the rest it will read.         *)
ScanOK ==
  main.at \in {"scan", "write"} =>
    \A k \in DOMAIN db \ Lists :
      /\ k \in left \cup DOMAIN gathered
      /\ k \in DOMAIN gathered => gathered[k].val = db[k].val

HeldOK == ticks \in Nat /\ (Lasting => FlowOK /\ LastsOK /\ ValuesHeld /\ ScanOK)

-----------------------------------------------------------------------------
(* What a command does to the values, and to the time that is left.          *)

ValueKept(k) ==
  /\ k \in DOMAIN db' <=> k \in DOMAIN db
  /\ k \in DOMAIN db => db'[k].val = db[k].val

Spared(K) == \A k : k \notin K \cup Lists => ValueKept(k)

Becomes(k, val) == k \in DOMAIN db' /\ db'[k].val = val /\ Spared({k})

LastsKept ==
  \A k \in DOMAIN db' :
    \/ k \in DOMAIN db /\ db'[k] = db[k]
    \/ /\ {"val", "ttl"} \subseteq DOMAIN db'[k]
       /\ db'[k].ttl \in {Week, Hour} \/ (k \in DOMAIN db /\ db'[k].ttl = db[k].ttl)

(* The time left is enough when what is written anew gets an hour at least.  *)
LEMMA LastsStep ==
  ASSUME LastsOK, ticks \in Nat, ticks' = ticks, LastsKept
  PROVE  LastsOK'
<1> SUFFICES ASSUME NEW k \in DOMAIN db'
             PROVE  /\ {"val", "ttl"} \subseteq DOMAIN db'[k] /\ db'[k].ttl \in Int
                    /\ db'[k].ttl >= Hour - ticks
  BY DEF LastsOK
<1>1. \A x \in DOMAIN db :
        {"val", "ttl"} \subseteq DOMAIN db[x] /\ db[x].ttl \in Int /\ db[x].ttl >= Hour - ticks
  BY DEF LastsOK
<1> QED BY <1>1, ExpiryAssumption DEF LastsKept

LEMMA PutIs ==
  ASSUME NEW k, NEW val, NEW ttl, db' = Put(db, k, val, ttl),
         ttl \in {Week, Hour} \/ (k \in DOMAIN db /\ ttl = db[k].ttl)
  PROVE  Becomes(k, val) /\ LastsKept
<1>1. /\ DOMAIN db' = DOMAIN db \cup {k} /\ db'[k] = [val |-> val, ttl |-> ttl]
      /\ \A x \in DOMAIN db : x # k => db'[x] = db[x]
  BY DEF Put
<1>2. db'[k].val = val /\ db'[k].ttl = ttl /\ {"val", "ttl"} \subseteq DOMAIN db'[k]
  BY <1>1
<1>3. Spared({k})
  BY <1>1 DEF Spared, ValueKept
<1>4. LastsKept
  BY <1>1, <1>2 DEF LastsKept
<1> QED BY <1>1, <1>2, <1>3, <1>4 DEF Becomes

(* One command, one lemma: what becomes of the key, and of its expiry.       *)
LEMMA UpdateIs ==
  ASSUME NEW k \in DOMAIN db, NEW fields, db' = Written(Update(k, fields))
  PROVE  Becomes(k, Merged(db[k].val, fields)) /\ LastsKept
<1>1. db' = Put(db, k, Merged(db[k].val, fields), Hour)
  BY DEF Written, Update, UpdateFields, Exists
<1> QED BY <1>1, PutIs

LEMMA IncrementIs ==
  ASSUME NEW k \in DOMAIN db, NEW fields, db' = Written(Increment(k, fields))
  PROVE  Becomes(k, Added(db[k].val, fields)) /\ LastsKept
<1>1. db' = Put(db, k, Added(db[k].val, fields), Hour)
  BY DEF Written, Increment, IncrementFields, Exists
<1> QED BY <1>1, PutIs

LEMMA SetIs ==
  ASSUME NEW k, NEW val, db' = Written(Sets(k, val))
  PROVE  Becomes(k, val) /\ LastsKept
<1>1. db' = Put(db, k, val, Week)
  BY DEF Written, Sets, SetValue
<1> QED BY <1>1, PutIs

LEMMA PushIs ==
  ASSUME NEW k \in Lists, NEW e, db' = Written(Pushes(k, e))
  PROVE  Spared({}) /\ LastsKept
<1>1. db' = db \/ db' = Put(db, k, Append(Elements(db, k), e), Week)
  BY DEF Written, Pushes, Push
<1>2. CASE db' = db
  BY <1>2 DEF Spared, ValueKept, LastsKept
<1>3. CASE db' = Put(db, k, Append(Elements(db, k), e), Week)
  <2>1. Spared({k}) /\ LastsKept
    BY <1>3, PutIs DEF Becomes
  <2> QED BY <2>1 DEF Spared
<1> QED BY <1>1, <1>2, <1>3

LEMMA SetAllIs ==
  ASSUME NEW new, db' = Written(SetsAll(new))
  PROVE  /\ \A k \in DOMAIN new : k \in DOMAIN db' /\ db'[k].val = new[k]
         /\ Spared(DOMAIN new) /\ LastsKept
<1>1. db' = BatchSet(db, new)
  BY DEF Written, SetsAll
<1>2. /\ DOMAIN db' = DOMAIN db \cup DOMAIN new
      /\ \A k \in DOMAIN new : db'[k] = [val |-> new[k], ttl |-> Week]
      /\ \A k \in DOMAIN db : k \notin DOMAIN new => db'[k] = db[k]
  BY <1>1 DEF BatchSet
<1>3. \A k \in DOMAIN new :
        db'[k].val = new[k] /\ db'[k].ttl = Week /\ {"val", "ttl"} \subseteq DOMAIN db'[k]
  BY <1>2
<1>4. Spared(DOMAIN new)
  BY <1>2 DEF Spared, ValueKept
<1>5. LastsKept
  BY <1>2, <1>3 DEF LastsKept
<1> QED BY <1>2, <1>3, <1>4, <1>5

LEMMA PushAllIs ==
  ASSUME NEW new, db' = Written(PushesAll(new))
  PROVE  /\ \A k \in DOMAIN new :
              k \in DOMAIN db' /\ db'[k].val = Append(Elements(db, k), new[k])
         /\ Spared(DOMAIN new) /\ LastsKept
<1>1. db' = BatchPush(db, new)
  BY DEF Written, PushesAll
<1>2. /\ DOMAIN db' = DOMAIN db \cup DOMAIN new
      /\ \A k \in DOMAIN new : db'[k] = [val |-> Append(Elements(db, k), new[k]), ttl |-> Week]
      /\ \A k \in DOMAIN db : k \notin DOMAIN new => db'[k] = db[k]
  BY <1>1 DEF BatchPush
<1>3. \A k \in DOMAIN new :
        /\ db'[k].val = Append(Elements(db, k), new[k]) /\ db'[k].ttl = Week
        /\ {"val", "ttl"} \subseteq DOMAIN db'[k]
  BY <1>2
<1>4. Spared(DOMAIN new)
  BY <1>2 DEF Spared, ValueKept
<1>5. LastsKept
  BY <1>2, <1>3 DEF LastsKept
<1> QED BY <1>2, <1>3, <1>4, <1>5

(* An element of a list of objects whose fields are changed.                  *)
Joined(old, fields) ==
  [f \in DOMAIN old \cup DOMAIN fields |->
     IF f \notin DOMAIN fields THEN old[f]
     ELSE IF f \in Counted THEN old[f] + fields[f] ELSE fields[f]]

LEMMA InListIs ==
  ASSUME NEW old, NEW fields, ChildCases \in DOMAIN db, db[ChildCases].val = <<old>>,
         db' = Written(InList(fields))
  PROVE  Becomes(ChildCases, <<Joined(old, fields)>>) /\ LastsKept
<1>1. db' = Put(db, ChildCases, [<<old>> EXCEPT ![1] = Joined(old, fields)], db[ChildCases].ttl)
  <2>1. db' = UpdateInList(db, ChildCases, 0, fields)
    BY DEF Written, InList
  <2>2. 0 + 1 = 1 /\ <<old>>[1] = old
    OBVIOUS
  <2> QED BY <2>1, <2>2 DEF UpdateInList, Joined
<1>2. [<<old>> EXCEPT ![1] = Joined(old, fields)] = <<Joined(old, fields)>>
  <2> DEFINE new == Joined(old, fields)
  <2> HIDE DEF new
  <2>1. [<<old>> EXCEPT ![1] = new] = <<new>>
    OBVIOUS
  <2> QED BY <2>1 DEF new
<1>3. Becomes(ChildCases, [<<old>> EXCEPT ![1] = Joined(old, fields)]) /\ LastsKept
  BY <1>1, PutIs
<1> QED BY <1>2, <1>3

-----------------------------------------------------------------------------
(* A value that is not written is held as it was.                             *)

LEMMA TaskKept ==
  ASSUME TaskHeld, ValueKept(TaskInfo), ValueKept(RecordInfo),
         Opened(1)' => Opened(1), Opened(2)' => Opened(2),
         ClosedBy(5)' => ClosedBy(5), ClosedBy(6)' => ClosedBy(6)
  PROVE  TaskHeld'
<1>1. (ClosedBy(5) => Opened(1)) /\ (ClosedBy(6) => Opened(2))
  BY DEF ClosedBy, Opened, Over
<1> QED BY <1>1 DEF TaskHeld, ValueKept

LEMMA CountersKept ==
  ASSUME CountersHeld, ValueKept(ChildCases), Opened(5)' <=> Opened(5),
         ClosedBy(2)' => ClosedBy(2), \A o : Past(o)' = Past(o)
  PROVE  CountersHeld'
<1>1. \A status : Counters(status)' = Counters(status)
  BY DEF Counters
<1> QED BY <1>1 DEF CountersHeld, ValueKept

LEMMA StatusKept ==
  ASSUME NEW v \in Visits, StatusHeld(v), ValueKept(Status(StepOf[v])), Opened(3)' => Opened(3),
         outcome' = outcome, visit'[v] > 0 => visit[v] > 0, Ended(v)' => Ended(v)
  PROVE  StatusHeld(v)'
BY DEF StatusHeld, ValueKept

LEMMA CaseKept ==
  ASSUME NEW v \in Visits, CaseHeld(v), ValueKept(CaseStatus), Opened(6)' => Opened(6),
         outcome' = outcome,
         (\A u \in Peers(v) : ToldOf(u)') => (\A u \in Peers(v) : ToldOf(u))
  PROVE  CaseHeld(v)'
BY DEF CaseHeld, ValueKept

LEMMA DetailKept ==
  ASSUME NEW v \in Visits, DetailHeld(v), Detail(v) \in DOMAIN db => Detail(v) \in DOMAIN db',
         outcome' = outcome,
         visit'[v] > FirstOf(v, outcome[v]) => visit[v] > FirstOf(v, outcome[v])
  PROVE  DetailHeld(v)'
BY DEF DetailHeld

(* A step that writes no value: the task is where it was as far as they go.   *)
LEMMA ValuesKept ==
  ASSUME ValuesHeld, Spared({}), UNCHANGED <<visit, outcome>>,
         \A i \in {1, 2, 3, 5, 6} : Opened(i)' <=> Opened(i),
         \A i \in {2, 5, 6} : ClosedBy(i)' => ClosedBy(i)
  PROVE  ValuesHeld'
<1>1. /\ ValueKept(TaskInfo) /\ ValueKept(RecordInfo) /\ ValueKept(ChildCases)
      /\ ValueKept(CaseStatus)
      /\ \A s : ValueKept(Status(s))
      /\ \A v : ValueKept(Detail(v))
  BY KeyKinds DEF Spared
<1>2. TaskHeld'
  <2>1. /\ Opened(1)' => Opened(1)
        /\ Opened(2)' => Opened(2)
        /\ ClosedBy(5)' => ClosedBy(5)
        /\ ClosedBy(6)' => ClosedBy(6)
    OBVIOUS
  <2> QED BY <1>1, <2>1, TaskKept DEF ValuesHeld
<1>3. CountersHeld'
  <2>1. (Opened(5)' <=> Opened(5)) /\ (ClosedBy(2)' => ClosedBy(2))
    OBVIOUS
  <2>2. \A o : Past(o)' = Past(o)
    BY DEF Past
  <2> QED BY <1>1, <2>1, <2>2, CountersKept DEF ValuesHeld
<1>4. ASSUME NEW v \in Visits, Tracked(v)
      PROVE  StatusHeld(v)' /\ CaseHeld(v)'
  <2>1. (Opened(3)' => Opened(3)) /\ (Opened(6)' => Opened(6))
    OBVIOUS
  <2>2. /\ Ended(v)' => Ended(v)
        /\ \A u : ToldOf(u)' => ToldOf(u)
    BY DEF Ended, Program, ToldOf
  <2>3. StatusHeld(v)'
    BY <1>1, <1>4, <2>1, <2>2, StatusKept DEF ValuesHeld
  <2>4. CaseHeld(v)'
    BY <1>1, <1>4, <2>1, <2>2, CaseKept DEF ValuesHeld
  <2> QED BY <2>3, <2>4
<1>5. ASSUME NEW v \in Visits
      PROVE  DetailHeld(v)'
  <2>1. Detail(v) \in DOMAIN db => Detail(v) \in DOMAIN db'
    BY <1>1 DEF ValueKept
  <2> QED BY <2>1, DetailKept DEF ValuesHeld
<1> QED BY <1>2, <1>3, <1>4, <1>5 DEF ValuesHeld

-----------------------------------------------------------------------------
(* The writes of a visit.                                                    *)

Updated(k, fields) ==
  IF k \in DOMAIN db THEN Becomes(k, Merged(db[k].val, fields)) ELSE Spared({})

LEMMA UpdatedIs ==
  ASSUME NEW k, NEW fields, db' = Written(Update(k, fields))
  PROVE  Updated(k, fields) /\ LastsKept
<1>1. CASE k \in DOMAIN db
  BY <1>1, UpdateIs DEF Updated
<1>2. CASE k \notin DOMAIN db
  <2>1. db' = db
    BY <1>2 DEF Written, Update, UpdateFields, Exists
  <2> QED BY <1>2, <2>1 DEF Updated, Spared, ValueKept, LastsKept
<1> QED BY <1>1, <1>2

(* Visit v does its i-th write w.                                            *)
VisitStep(v, i, w) ==
  /\ visit[v] \in Nat /\ i = visit[v] + 1 /\ i \in 1..Len(ProgramOf[v][outcome[v]])
  /\ outcome[v] \in Outcome /\ outcome' = outcome
  /\ visit'[v] = i /\ \A u \in Visits : u # v => visit'[u] = visit[u]
  /\ main' = main /\ main.at # "open"
  /\ PartsAre(v, outcome[v])
  /\ VisitWrite(v, outcome[v], i, w) /\ db' = Written(w)

VisitValue(v, i) ==
  LET o == outcome[v]
      b == FirstOf(v, o)
      c == BodyOf[v][o]
  IN \/ i = 1 /\ Updated(Status(StepOf[v]), [start |-> v])
     \/ i = 2 /\ i = b /\ Updated(CaseStatus, [s \in {StepOf[v]} |-> "running"])
     \/ /\ b < i /\ i <= c
        /\ \/ KindOf[v] = "interface" /\ i = b + 1 /\ \E val : Becomes(Detail(v), val)
           \/ (KindOf[v] = "interface" => i # b + 1) /\ Spared({})
     \/ i = c + 1 /\ \A old : db[ChildCases].val = <<old>> =>
                       Becomes(ChildCases, <<Joined(old, StepCount(o))>>)
     \/ i = c + 2 /\ Tracked(v) /\ Updated(CaseStatus, [s \in {StepOf[v]} |-> StatusOf(o)])
     \/ i = c + 3 /\ Tracked(v) /\ Updated(Status(StepOf[v]), [end |-> v, status |-> StatusOf(o)])

LEMMA VisitValueIs ==
  ASSUME NEW v \in Visits, NEW i, NEW w, VisitStep(v, i, w),
         ChildCases \in DOMAIN db, \E old : db[ChildCases].val = <<old>>
  PROVE  VisitValue(v, i) /\ LastsKept
<1> DEFINE o == outcome[v]
           b == FirstOf(v, o)
           c == BodyOf[v][o]
<1>1. VisitWrite(v, o, i, w) /\ db' = Written(w) /\ PartsAre(v, o) /\ i \in Nat
  BY DEF VisitStep
<1>2. b \in {1, 2} /\ c \in Nat /\ b <= c
  BY <1>1 DEF PartsAre
<1>3. CASE i = 1 /\ w = Update(Status(StepOf[v]), [start |-> v])
  <2>1. Updated(Status(StepOf[v]), [start |-> v]) /\ LastsKept
    BY <1>1, <1>3, UpdatedIs
  <2> QED BY <1>3, <2>1 DEF VisitValue
<1>4. CASE i = 2 /\ i = b /\ w = CaseStatusOf(v, "running")
  <2>1. Updated(CaseStatus, [s \in {StepOf[v]} |-> "running"]) /\ LastsKept
    BY <1>1, <1>4, UpdatedIs DEF CaseStatusOf
  <2> QED BY <1>4, <2>1 DEF VisitValue
<1>5. CASE i = b + 1 /\ i <= c /\ KindOf[v] = "interface" /\ w = Sets(Detail(v), [of |-> v])
  <2>1. Becomes(Detail(v), [of |-> v]) /\ LastsKept
    BY <1>1, <1>5, SetIs
  <2>2. b < i
    BY <1>2, <1>5
  <2> QED BY <1>5, <2>1, <2>2 DEF VisitValue
<1>6. ASSUME NEW e, w = Pushes(Process(StepOf[v]), e), b < i, i <= c,
             KindOf[v] = "interface" => i # b + 1
      PROVE  VisitValue(v, i) /\ LastsKept
  <2>1. Spared({}) /\ LastsKept
    BY <1>1, <1>6, ListKeys, PushIs
  <2> QED BY <1>6, <2>1 DEF VisitValue
<1>7. CASE i = b + 2 /\ i = c /\ KindOf[v] = "interface" /\ w = Pushes(Process(StepOf[v]), Pointer(v))
  <2>1. b < i /\ i <= c /\ i # b + 1
    BY <1>2, <1>7
  <2> QED BY <1>6, <1>7, <2>1
<1>8. CASE i = b + 1 /\ i = c /\ KindOf[v] = "script"
           /\ w = Pushes(Process(StepOf[v]), Entry("action_script", v))
  <2>1. b < i /\ i <= c /\ KindOf[v] # "interface"
    BY <1>2, <1>8
  <2> QED BY <1>6, <1>8, <2>1
<1>9. CASE i = c + 1 /\ w = InList(StepCount(o))
  <2>1. PICK old : db[ChildCases].val = <<old>>
    OBVIOUS
  <2>2. LastsKept
    BY <1>1, <1>9, <2>1, InListIs
  <2>3. \A x : db[ChildCases].val = <<x>> => Becomes(ChildCases, <<Joined(x, StepCount(o))>>)
    BY <1>1, <1>9, InListIs
  <2> QED BY <1>9, <2>2, <2>3 DEF VisitValue
<1>10. CASE i = c + 2 /\ Tracked(v) /\ w = CaseStatusOf(v, StatusOf(o))
  <2>1. Updated(CaseStatus, [s \in {StepOf[v]} |-> StatusOf(o)]) /\ LastsKept
    BY <1>1, <1>10, UpdatedIs DEF CaseStatusOf
  <2> QED BY <1>10, <2>1 DEF VisitValue
<1>11. CASE i = c + 3 /\ Tracked(v)
            /\ w = Update(Status(StepOf[v]), [end |-> v, status |-> StatusOf(o)])
  <2>1. Updated(Status(StepOf[v]), [end |-> v, status |-> StatusOf(o)]) /\ LastsKept
    BY <1>1, <1>11, UpdatedIs
  <2> QED BY <1>11, <2>1 DEF VisitValue
<1> QED BY <1>1, <1>3, <1>4, <1>5, <1>7, <1>8, <1>9, <1>10, <1>11 DEF VisitWrite

(* How far the others are, and which of its writes is which.                 *)
LEMMA VisitStepIs ==
  ASSUME NEW v \in Visits, NEW i, NEW w, VisitStep(v, i, w)
  PROVE  LET o == outcome[v]
             b == FirstOf(v, o)
             c == BodyOf[v][o]
             n == Len(Program(v))
         IN /\ b \in {1, 2} /\ c \in Nat /\ b <= c
            /\ n = (IF Tracked(v) THEN c + 3 ELSE c + 1)
            /\ (KindOf[v] = "interface" /\ ~Skipped(o)) => b + 1 <= c
            /\ i \in 1..n /\ visit[v] = i - 1 /\ visit'[v] = i
            /\ \A u \in Visits : Program(u)' = Program(u)
<1> DEFINE o == outcome[v]
           b == FirstOf(v, o)
           c == BodyOf[v][o]
           n == Len(Program(v))
<1>1. PartsAre(v, o) /\ o \in Outcome /\ outcome' = outcome
  BY DEF VisitStep
<1>2. visit[v] \in Nat /\ i = visit[v] + 1 /\ i \in 1..n /\ visit'[v] = i
  BY DEF VisitStep, Program
<1>3. b \in {1, 2} /\ c \in Nat /\ n = (IF Tracked(v) THEN c + 3 ELSE c + 1)
  BY <1>1 DEF PartsAre, Program
<1>4. b <= c /\ (KindOf[v] = "interface" /\ ~Skipped(o) => b + 1 <= c)
  <2>1. KindOf[v] = "interface" /\ ~Skipped(o) => o \in {"success", "error"}
    BY <1>1 DEF Outcome, Skipped
  <2>2. c = b + (CASE KindOf[v] = "interface" /\ o = "success" -> 2
                   [] KindOf[v] = "interface" /\ o = "error"   -> 1
                   [] KindOf[v] = "script" /\ ~Skipped(o)    -> 1
                   [] OTHER                                    -> 0)
    BY <1>1 DEF PartsAre
  <2> HIDE DEF o, b, c
  <2> QED BY <1>3, <2>1, <2>2
<1>5. \A u \in Visits : Program(u)' = Program(u)
  BY <1>1 DEF Program
<1>6. visit[v] = i - 1
  BY <1>2
<1> QED BY <1>2, <1>3, <1>4, <1>5, <1>6

-----------------------------------------------------------------------------
(* A write of a visit keeps the values as they should be.                    *)

LEMMA UpdatedKeeps ==
  ASSUME NEW k, NEW fields, NEW x, x \notin Lists, x # k,
         Updated(k, fields) \/ \E val : Becomes(k, val)
  PROVE  ValueKept(x)
BY DEF Updated, Becomes, Spared

LEMMA VisitTask ==
  ASSUME NEW v \in Visits, NEW i, NEW w, VisitStep(v, i, w), VisitValue(v, i),
         CountersHeld, TaskHeld
  PROVE  TaskHeld'
<1>1. ASSUME NEW k \in {TaskInfo, RecordInfo}
      PROVE  ValueKept(k)
  <2>1. /\ k \notin Lists /\ k # ChildCases /\ k # CaseStatus /\ k # Status(StepOf[v])
        /\ k # Detail(v)
    BY KeyKinds, ValueKeys
  <2>2. PICK old : db[ChildCases].val = <<old>>
    BY DEF CountersHeld, VisitStep, Opened
  <2>3. Spared({}) => ValueKept(k)
    BY <2>1 DEF Spared
  <2> QED BY <2>1, <2>2, <2>3, UpdatedKeeps DEF VisitValue
<1>2. main' = main
  BY DEF VisitStep
<1>3. \A j : (Opened(j)' <=> Opened(j)) /\ (ClosedBy(j)' <=> ClosedBy(j))
  BY <1>2 DEF Opened, ClosedBy
<1> QED BY <1>1, <1>3, TaskKept

LEMMA JoinedCount ==
  ASSUME NEW o \in Outcome, NEW status, NEW s, NEW e, NEW d
  PROVE  Joined([status |-> status, done_step_count |-> s, failed_step_count |-> e,
                 skipped_step_count |-> d], StepCount(o))
           = [status |-> status,
              done_step_count |-> IF StatusOf(o) = "success" THEN s + 1 ELSE s,
              failed_step_count |-> IF StatusOf(o) = "error" THEN e + 1 ELSE e,
              skipped_step_count |-> IF StatusOf(o) = "skipped" THEN d + 1 ELSE d]
<1>1. CASE StatusOf(o) = "success"
  BY <1>1 DEF Joined, StepCount, Counted
<1>2. CASE StatusOf(o) = "error"
  BY <1>2 DEF Joined, StepCount, Counted
<1>3. CASE StatusOf(o) = "skipped"
  BY <1>3 DEF Joined, StepCount, Counted
<1> QED BY <1>1, <1>2, <1>3 DEF Outcome, StatusOf

(* A visit is counted once, when its core has ended.                         *)
LEMMA VisitCounters ==
  ASSUME NEW v \in Visits, NEW i, NEW w, VisitStep(v, i, w), VisitValue(v, i), CountersHeld,
         \A u \in Visits : outcome[u] \in Outcome /\ BodyOf[u][outcome[u]] \in Nat /\ visit[u] \in Nat
  PROVE  CountersHeld'
<1>0. PICK o : o = outcome[v]
  OBVIOUS
<1>z. PICK z : z = StatusOf(o)
  OBVIOUS
<1> DEFINE b == FirstOf(v, o)
           c == BodyOf[v][o]
<1>1. /\ b \in {1, 2} /\ c \in Nat /\ b <= c /\ i \in Nat /\ visit[v] = i - 1
      /\ visit'[v] = i /\ outcome' = outcome /\ main' = main /\ main.at # "open" /\ o \in Outcome
      /\ \A u \in Visits : u # v => visit'[u] = visit[u]
  BY <1>0, VisitStepIs DEF VisitStep
<1>2. /\ Opened(5) /\ Opened(5)' /\ (ClosedBy(2)' <=> ClosedBy(2))
  BY <1>1 DEF Opened, ClosedBy
<1>3. PICK status \in {"pending", "running", "end"} :
        db[ChildCases].val = <<Counters(status)>> /\ (ClosedBy(2) => status = "end")
  BY <1>2 DEF CountersHeld
<1>4. CASE i # c + 1
  <2>1. ValueKept(ChildCases)
    <3>1. /\ ChildCases \notin Lists /\ ChildCases # CaseStatus /\ ChildCases # Status(StepOf[v])
          /\ ChildCases # Detail(v)
      BY KeyKinds, ValueKeys
    <3>2. Spared({}) => ValueKept(ChildCases)
      BY <3>1 DEF Spared
    <3> QED BY <1>0, <1>4, <3>1, <3>2, UpdatedKeeps DEF VisitValue
  <2>2. ASSUME NEW x
        PROVE  Past(x)' = Past(x)
    <3>1. ASSUME NEW u \in Visits
          PROVE  visit'[u] > BodyOf[u][outcome'[u]] <=> visit[u] > BodyOf[u][outcome[u]]
      <4>1. CASE u = v
        BY <1>0, <1>1, <1>4, <4>1
      <4>2. CASE u # v
        BY <1>1, <4>2
      <4> QED BY <4>1, <4>2
    <3> QED BY <1>1, <3>1 DEF Past
  <2> QED BY <1>2, <2>1, <2>2, CountersKept
<1>5. CASE i = c + 1
  <2>1. Becomes(ChildCases, <<Joined(Counters(status), StepCount(o))>>)
    <3>1. ~(i <= c) /\ i # 1 /\ i # b /\ i # c + 2 /\ i # c + 3
      BY <1>1, <1>5
    <3> QED BY <1>0, <1>3, <3>1 DEF VisitValue
  <2>2. ASSUME NEW x
        PROVE  IsFiniteSet(Past(x)) /\ Cardinality(Past(x)) \in Nat
    BY VisitAssumption, FS_Subset, FS_CardinalityType DEF Past
  <2>3. ASSUME NEW x, x # z
        PROVE  Past(x)' = Past(x)
    BY <1>0, <1>z, <1>1, <2>3 DEF Past
  <2>4. Past(z)' = Past(z) \cup {v} /\ v \notin Past(z)
    <3>1. visit[v] = c /\ visit'[v] = c + 1
      BY <1>1, <1>5
    <3>2. v \notin Past(z)
      BY <1>0, <1>z, <1>1, <3>1 DEF Past
    <3>3. v \in Past(z)'
      BY <1>0, <1>z, <1>1, <3>1 DEF Past
    <3>4. \A u \in Visits : u # v => (u \in Past(z)' <=> u \in Past(z))
      BY <1>1 DEF Past
    <3> QED BY <3>2, <3>3, <3>4 DEF Past
  <2>5. Cardinality(Past(z)') = Cardinality(Past(z)) + 1
    BY <2>2, <2>4, FS_AddElement
  <2>6. Joined(Counters(status), StepCount(o)) = Counters(status)'
    <3>1. /\ Cardinality(Past("success")') = IF z = "success" THEN Cardinality(Past("success")) + 1
                                             ELSE Cardinality(Past("success"))
          /\ Cardinality(Past("error")') = IF z = "error" THEN Cardinality(Past("error")) + 1
                                           ELSE Cardinality(Past("error"))
          /\ Cardinality(Past("skipped")') = IF z = "skipped" THEN Cardinality(Past("skipped")) + 1
                                             ELSE Cardinality(Past("skipped"))
      BY <2>3, <2>5
    <3>2. Joined(Counters(status), StepCount(o)) =
            [status |-> status,
             done_step_count |-> IF z = "success" THEN Cardinality(Past("success")) + 1
                                 ELSE Cardinality(Past("success")),
             failed_step_count |-> IF z = "error" THEN Cardinality(Past("error")) + 1
                                   ELSE Cardinality(Past("error")),
             skipped_step_count |-> IF z = "skipped" THEN Cardinality(Past("skipped")) + 1
                                    ELSE Cardinality(Past("skipped"))]
      BY <1>z, <1>1, JoinedCount DEF Counters
    <3> QED BY <3>1, <3>2 DEF Counters
  <2>7. ChildCases \in DOMAIN db' /\ db'[ChildCases].val = <<Counters(status)'>>
    BY <2>1, <2>6 DEF Becomes
  <2> QED BY <1>2, <1>3, <2>7 DEF CountersHeld
<1> QED BY <1>4, <1>5

(* A visit of the same step that is told to have started still has its end.  *)
LEMMA MergedIs ==
  ASSUME NEW old, NEW fields
  PROVE  /\ DOMAIN Merged(old, fields) = DOMAIN old \cup DOMAIN fields
         /\ \A f \in DOMAIN fields : Merged(old, fields)[f] = fields[f]
         /\ \A f \in DOMAIN old : f \notin DOMAIN fields => Merged(old, fields)[f] = old[f]
BY DEF Merged

(* The status of a step has a start first, then its end and the outcome.     *)
LEMMA VisitStatus ==
  ASSUME NEW v \in Visits, NEW i, NEW w, VisitStep(v, i, w), VisitValue(v, i), CountersHeld,
         NEW u \in Visits, Tracked(u), StatusHeld(u)
  PROVE  StatusHeld(u)'
<1>0. PICK o : o = outcome[v]
  OBVIOUS
<1> DEFINE k == Status(StepOf[u])
           b == FirstOf(v, o)
           c == BodyOf[v][o]
<1>1. /\ b \in {1, 2} /\ c \in Nat /\ b <= c /\ i \in Nat /\ visit[v] = i - 1
      /\ visit'[v] = i /\ outcome' = outcome /\ main' = main /\ main.at # "open"
      /\ \A x \in Visits : x # v => visit'[x] = visit[x]
      /\ \A x \in Visits : Program(x)' = Program(x)
      /\ i <= Len(Program(v))
  BY <1>0, VisitStepIs DEF VisitStep
<1>2. Opened(3) /\ Opened(3)'
  BY <1>1 DEF Opened
<1>3. /\ k \in DOMAIN db
      /\ visit[u] > 0 => "start" \in DOMAIN db[k].val
      /\ Ended(u) =>
           /\ {"end", "status"} \subseteq DOMAIN db[k].val
           /\ \E x \in Peers(u) : db[k].val.end = x /\ db[k].val.status = StatusOf(outcome[x])
  BY <1>2 DEF StatusHeld
<1>4. ASSUME u = v
      PROVE  Ended(u)' <=> i = c + 3
  <2>1. Len(Program(v)) = c + 3
    BY <1>0, <1>4, VisitStepIs
  <2> QED BY <1>1, <1>4, <2>1 DEF Ended
<1>5. ASSUME u # v
      PROVE  (Ended(u)' <=> Ended(u)) /\ (visit'[u] > 0 <=> visit[u] > 0)
  BY <1>1, <1>5 DEF Ended
<1>6. ASSUME ValueKept(k), u = v => i # 1 /\ i # c + 3
      PROVE  StatusHeld(u)'
  <2>1. visit'[u] > 0 => visit[u] > 0
    BY <1>1, <1>5, <1>6
  <2>2. Ended(u)' => Ended(u)
    BY <1>4, <1>5, <1>6
  <2>3. Opened(3)' => Opened(3)
    BY <1>2
  <2> QED BY <1>1, <1>6, <2>1, <2>2, <2>3, StatusKept
<1>7. k \notin Lists /\ k # ChildCases /\ k # CaseStatus /\ k # Detail(v)
  BY KeyKinds, ValueKeys
<1>8. CASE i # 1 /\ i # c + 3
  <2>1. Spared({}) => ValueKept(k)
    BY <1>7 DEF Spared
  <2>2. PICK old : db[ChildCases].val = <<old>>
    BY <1>1 DEF CountersHeld, Opened
  <2>3. ValueKept(k)
    BY <1>0, <1>7, <1>8, <2>1, <2>2, UpdatedKeeps DEF VisitValue
  <2> QED BY <1>6, <1>8, <2>3
<1>9. CASE StepOf[u] # StepOf[v] /\ (i = 1 \/ i = c + 3)
  <2>1. k # Status(StepOf[v]) /\ u # v
    BY <1>9, ValueKeys
  <2>2. \E fields : Updated(Status(StepOf[v]), fields)
    <3>1. i # c + 1 /\ i # c + 2 /\ ~(i = 2 /\ i = b) /\ ~(b < i /\ i <= c)
      BY <1>1, <1>9
    <3> QED BY <1>0, <3>1 DEF VisitValue
  <2>3. ValueKept(k)
    BY <1>7, <2>1, <2>2, UpdatedKeeps
  <2> QED BY <1>6, <2>1, <2>3
<1>10. CASE StepOf[u] = StepOf[v] /\ i = 1
  <2>1. Updated(k, [start |-> v])
    <3>1. i # c + 1 /\ i # c + 2 /\ i # c + 3 /\ i # 2 /\ ~(b < i /\ i <= c)
      BY <1>1, <1>10
    <3> QED BY <1>0, <1>10, <3>1 DEF VisitValue
  <2>2. k \in DOMAIN db' /\ db'[k].val = Merged(db[k].val, [start |-> v])
    BY <1>3, <2>1 DEF Updated, Becomes
  <2>3. DOMAIN [start |-> v] = {"start"} /\ "end" # "start" /\ "status" # "start"
    OBVIOUS
  <2>4. PICK new : new = Merged(db[k].val, [start |-> v])
    OBVIOUS
  <2>5. /\ DOMAIN new = DOMAIN db[k].val \cup {"start"}
        /\ "end" \in DOMAIN db[k].val => new["end"] = db[k].val["end"]
        /\ "status" \in DOMAIN db[k].val => new["status"] = db[k].val["status"]
    <3>1. PICK old : old = db[k].val
      OBVIOUS
    <3>2. PICK fields : fields = [start |-> v]
      OBVIOUS
    <3>3. /\ DOMAIN Merged(old, fields) = DOMAIN old \cup DOMAIN fields
          /\ \A f \in DOMAIN old : f \notin DOMAIN fields => Merged(old, fields)[f] = old[f]
      BY MergedIs, Zenon
    <3>4. DOMAIN fields = {"start"} /\ new = Merged(old, fields)
      BY <2>3, <2>4, <3>1, <3>2
    <3> QED BY <2>3, <3>1, <3>3, <3>4
  <2>6. Ended(u)' => Ended(u)
    <3>1. i # c + 3
      BY <1>1, <1>10
    <3> QED BY <1>4, <1>5, <3>1
  <2>7. /\ k \in DOMAIN db' /\ "start" \in DOMAIN db'[k].val
        /\ Ended(u)' => /\ {"end", "status"} \subseteq DOMAIN db'[k].val
                        /\ \E x \in Peers(u) : db'[k].val.end = x /\ db'[k].val.status = StatusOf(outcome'[x])
    BY <1>1, <1>3, <2>2, <2>4, <2>5, <2>6
  <2> QED BY <2>7 DEF StatusHeld
<1>11. CASE StepOf[u] = StepOf[v] /\ i = c + 3
  <2>1. Updated(k, [end |-> v, status |-> StatusOf(o)]) /\ Tracked(v)
    <3>1. i # c + 1 /\ i # c + 2 /\ i # 1 /\ ~(i = 2 /\ i = b) /\ ~(b < i /\ i <= c)
      BY <1>1, <1>11
    <3> QED BY <1>0, <1>11, <3>1 DEF VisitValue
  <2>2. k \in DOMAIN db' /\ db'[k].val = Merged(db[k].val, [end |-> v, status |-> StatusOf(o)])
    BY <1>3, <2>1 DEF Updated, Becomes
  <2>3. PICK fields : fields = [end |-> v, status |-> StatusOf(o)]
    OBVIOUS
  <2>4. DOMAIN fields = {"end", "status"} /\ fields["end"] = v /\ fields["status"] = StatusOf(o)
    BY <2>3
  <2>5. /\ DOMAIN db'[k].val = DOMAIN db[k].val \cup {"end", "status"}
        /\ db'[k].val["end"] = v /\ db'[k].val["status"] = StatusOf(o)
    <3>1. PICK old : old = db[k].val
      OBVIOUS
    <3>2. db'[k].val = Merged(old, fields)
      BY <2>2, <2>3, <3>1
    <3>3. /\ DOMAIN Merged(old, fields) = DOMAIN old \cup {"end", "status"}
          /\ Merged(old, fields)["end"] = v /\ Merged(old, fields)["status"] = StatusOf(o)
      <4>1. /\ DOMAIN Merged(old, fields) = DOMAIN old \cup DOMAIN fields
            /\ \A f \in DOMAIN fields : Merged(old, fields)[f] = fields[f]
            /\ \A f \in DOMAIN old : f \notin DOMAIN fields => Merged(old, fields)[f] = old[f]
        BY MergedIs
      <4> QED BY <2>4, <4>1
    <3> QED BY <3>1, <3>2, <3>3
  <2>6. v \in Peers(u)
    BY <1>11, <2>1 DEF Peers
  <2>7. visit[u] > 0 \/ u # v
    BY <1>1, <1>11
  <2>8. visit'[u] > 0 => visit[u] > 0
    BY <1>5, <2>7
  <2>9. /\ k \in DOMAIN db' /\ visit'[u] > 0 => "start" \in DOMAIN db'[k].val
        /\ {"end", "status"} \subseteq DOMAIN db'[k].val
        /\ db'[k].val.end = v /\ db'[k].val.status = StatusOf(outcome'[v])
    BY <1>0, <1>1, <1>3, <2>2, <2>5, <2>8
  <2> QED BY <2>2, <2>6, <2>9 DEF StatusHeld
<1> QED BY <1>8, <1>9, <1>10, <1>11

(* The statuses of the case have the outcome once the visit has told it.     *)
LEMMA VisitCase ==
  ASSUME NEW v \in Visits, NEW i, NEW w, VisitStep(v, i, w), VisitValue(v, i), CountersHeld,
         NEW u \in Visits, Tracked(u), CaseHeld(u)
  PROVE  CaseHeld(u)'
<1>0. PICK o : o = outcome[v]
  OBVIOUS
<1> DEFINE b == FirstOf(v, o)
           c == BodyOf[v][o]
           s == StepOf[u]
<1>1. /\ b \in {1, 2} /\ c \in Nat /\ b <= c /\ i \in Nat /\ visit[v] = i - 1
      /\ visit'[v] = i /\ outcome' = outcome /\ main' = main /\ main.at # "open"
      /\ \A x \in Visits : x # v => visit'[x] = visit[x]
  BY <1>0, VisitStepIs DEF VisitStep
<1>2. Opened(6) /\ Opened(6)'
  BY <1>1 DEF Opened
<1>3. /\ CaseStatus \in DOMAIN db
      /\ (\A x \in Peers(u) : ToldOf(x)) =>
           /\ s \in DOMAIN db[CaseStatus].val
           /\ \E x \in Peers(u) : db[CaseStatus].val[s] = StatusOf(outcome[x])
  BY <1>2 DEF CaseHeld
<1>4. ToldOf(v)' <=> i >= c + 2
  BY <1>0, <1>1 DEF ToldOf
<1>5. ToldOf(v) <=> i - 1 >= c + 2
  BY <1>0, <1>1 DEF ToldOf
<1>6. ASSUME NEW x \in Visits, x # v
      PROVE  ToldOf(x)' <=> ToldOf(x)
  BY <1>1, <1>6 DEF ToldOf
<1>7. ASSUME v \in Peers(u) => i # c + 2, \A x \in Peers(u) : ToldOf(x)'
      PROVE  \A x \in Peers(u) : ToldOf(x)
  <2> SUFFICES ASSUME NEW x \in Peers(u)
               PROVE  ToldOf(x)
    OBVIOUS
  <2>1. x \in Visits
    BY DEF Peers
  <2>2. CASE x = v
    BY <1>1, <1>4, <1>5, <1>7, <2>2
  <2>3. CASE x # v
    BY <1>6, <1>7, <2>1, <2>3
  <2> QED BY <2>2, <2>3
<1>8. ASSUME ValueKept(CaseStatus), v \in Peers(u) => i # c + 2
      PROVE  CaseHeld(u)'
  <2>1. Opened(6)' => Opened(6)
    BY <1>2
  <2> QED BY <1>1, <1>7, <1>8, <2>1, CaseKept
<1>9. /\ CaseStatus \notin Lists /\ CaseStatus # ChildCases /\ CaseStatus # Status(StepOf[v])
      /\ CaseStatus # Detail(v)
  BY KeyKinds, ValueKeys
<1>10. CASE i # c + 2 /\ ~(i = 2 /\ i = b)
  <2>1. Spared({}) => ValueKept(CaseStatus)
    BY <1>9 DEF Spared
  <2>2. PICK old : db[ChildCases].val = <<old>>
    BY <1>1 DEF CountersHeld, Opened
  <2>3. ValueKept(CaseStatus)
    BY <1>0, <1>9, <1>10, <2>1, <2>2, UpdatedKeeps DEF VisitValue
  <2> QED BY <1>8, <1>10, <2>3
<1>11. ASSUME NEW status, Updated(CaseStatus, [x \in {StepOf[v]} |-> status])
       PROVE  /\ CaseStatus \in DOMAIN db'
              /\ db'[CaseStatus].val = Merged(db[CaseStatus].val, [x \in {StepOf[v]} |-> status])
              /\ StepOf[v] \in DOMAIN db'[CaseStatus].val
              /\ db'[CaseStatus].val[StepOf[v]] = status
              /\ \A t \in DOMAIN db[CaseStatus].val :
                   t # StepOf[v] => /\ t \in DOMAIN db'[CaseStatus].val
                                    /\ db'[CaseStatus].val[t] = db[CaseStatus].val[t]
  <2>1. /\ CaseStatus \in DOMAIN db'
        /\ db'[CaseStatus].val = Merged(db[CaseStatus].val, [x \in {StepOf[v]} |-> status])
    BY <1>3, <1>11 DEF Updated, Becomes
  <2>2. PICK fields : fields = [x \in {StepOf[v]} |-> status]
    OBVIOUS
  <2>3. DOMAIN fields = {StepOf[v]} /\ fields[StepOf[v]] = status
    BY <2>2
  <2>4. PICK old : old = db[CaseStatus].val
    OBVIOUS
  <2>5. /\ DOMAIN Merged(old, fields) = DOMAIN old \cup {StepOf[v]}
        /\ Merged(old, fields)[StepOf[v]] = status
        /\ \A t \in DOMAIN old : t # StepOf[v] => Merged(old, fields)[t] = old[t]
    <3>1. /\ DOMAIN Merged(old, fields) = DOMAIN old \cup DOMAIN fields
          /\ \A f \in DOMAIN fields : Merged(old, fields)[f] = fields[f]
          /\ \A f \in DOMAIN old : f \notin DOMAIN fields => Merged(old, fields)[f] = old[f]
      BY MergedIs
    <3> QED BY <2>3, <3>1
  <2>6. db'[CaseStatus].val = Merged(old, fields)
    BY <2>1, <2>2, <2>4
  <2> QED BY <2>1, <2>4, <2>5, <2>6
<1>12. ASSUME NEW status, Updated(CaseStatus, [x \in {StepOf[v]} |-> status]), StepOf[v] # s
       PROVE  CaseHeld(u)'
  <2>1. v \notin Peers(u)
    BY <1>12 DEF Peers
  <2>2. /\ CaseStatus \in DOMAIN db'
        /\ (\A x \in Peers(u) : ToldOf(x)') =>
             /\ s \in DOMAIN db'[CaseStatus].val
             /\ \E x \in Peers(u) : db'[CaseStatus].val[s] = StatusOf(outcome'[x])
    BY <1>1, <1>3, <1>7, <1>11, <1>12, <2>1
  <2> QED BY <2>2 DEF CaseHeld
<1>13. CASE i = c + 2
  <2>1. Updated(CaseStatus, [x \in {StepOf[v]} |-> StatusOf(o)]) /\ Tracked(v)
    <3>1. i # c + 1 /\ i # c + 3 /\ i # 1 /\ ~(i = 2 /\ i = b) /\ ~(b < i /\ i <= c)
      BY <1>1, <1>13
    <3> QED BY <1>0, <1>13, <3>1 DEF VisitValue
  <2>2. CASE StepOf[v] = s
    <3>1. v \in Peers(u)
      BY <2>1, <2>2 DEF Peers
    <3>2. /\ CaseStatus \in DOMAIN db' /\ s \in DOMAIN db'[CaseStatus].val
          /\ db'[CaseStatus].val[s] = StatusOf(outcome'[v])
      BY <1>0, <1>1, <1>11, <2>1, <2>2
    <3> QED BY <3>1, <3>2 DEF CaseHeld
  <2>3. CASE StepOf[v] # s
    BY <1>12, <2>1, <2>3
  <2> QED BY <2>2, <2>3
<1>14. CASE i = 2 /\ i = b
  <2>1. Updated(CaseStatus, [x \in {StepOf[v]} |-> "running"])
    <3>1. i # c + 1 /\ i # c + 2 /\ i # c + 3 /\ i # 1 /\ ~(b < i /\ i <= c)
      BY <1>1, <1>14
    <3> QED BY <1>0, <1>14, <3>1 DEF VisitValue
  <2>2. CASE StepOf[v] = s /\ v \in Peers(u)
    <3>1. ~ToldOf(v)'
      BY <1>1, <1>4, <1>14
    <3>2. CaseStatus \in DOMAIN db'
      BY <1>11, <2>1
    <3> QED BY <2>2, <3>1, <3>2 DEF CaseHeld
  <2>3. CASE StepOf[v] # s
    BY <1>12, <2>1, <2>3
  <2>4. StepOf[v] = s => v \in Peers(u)
    <3>1. Tracked(v)
      BY <1>0, <1>14 DEF VisitStep, PartsAre
    <3> QED BY <3>1 DEF Peers
  <2> QED BY <2>2, <2>3, <2>4
<1> QED BY <1>10, <1>13, <1>14

(* The details are there once an interface has stored them.                  *)
LEMMA VisitDetail ==
  ASSUME NEW v \in Visits, NEW i, NEW w, VisitStep(v, i, w), VisitValue(v, i),
         NEW u \in Visits, DetailHeld(u), DOMAIN db \subseteq DOMAIN db'
  PROVE  DetailHeld(u)'
<1>0. PICK o : o = outcome[v]
  OBVIOUS
<1> DEFINE b == FirstOf(v, o)
           c == BodyOf[v][o]
<1>1. /\ b \in {1, 2} /\ c \in Nat /\ b <= c /\ i \in Nat /\ visit[v] = i - 1
      /\ visit'[v] = i /\ outcome' = outcome
      /\ (KindOf[v] = "interface" /\ ~Skipped(o)) => b + 1 <= c
      /\ \A x \in Visits : x # v => visit'[x] = visit[x]
  BY <1>0, VisitStepIs DEF VisitStep
<1>2. CASE u # v
  BY <1>1, <1>2 DEF DetailHeld
<1>3. CASE u = v
  <2> SUFFICES ASSUME KindOf[v] = "interface", ~Skipped(o), i > b
               PROVE  Detail(v) \in DOMAIN db'
    BY <1>0, <1>1, <1>3 DEF DetailHeld
  <2>1. CASE i = b + 1
    <3>1. i # c + 1 /\ i # c + 2 /\ i # c + 3 /\ i # 1 /\ ~(i = 2 /\ i = b)
      BY <1>1, <2>1
    <3>2. \E val : Becomes(Detail(v), val)
      BY <1>0, <2>1, <3>1 DEF VisitValue
    <3> QED BY <3>2 DEF Becomes
  <2>2. CASE i # b + 1
    <3>1. visit[v] > b
      BY <1>1, <2>2
    <3> QED BY <1>0, <1>3, <3>1 DEF DetailHeld
  <2> QED BY <2>1, <2>2
<1> QED BY <1>2, <1>3

-----------------------------------------------------------------------------
(* The writes of the task.                                                   *)

(* The task does the i-th write w of the stage it is at.                      *)
MainStep(i, w) ==
  /\ main.at \in {"open", "close"} /\ main.pc \in Nat /\ i = main.pc + 1
  /\ i \in 1..HowMany(main.at) /\ TaskWrite(main.at, i, w) /\ db' = Written(w)
  /\ UNCHANGED <<visit, outcome>>
  /\ IF i = HowMany(main.at) THEN main'.at = NextStage(main.at)
     ELSE main'.at = main.at /\ main'.pc = i

TaskValue(i) ==
  \/ /\ main.at = "open"
     /\ \/ i = 1 /\ \E val : Becomes(TaskInfo, val)
        \/ i = 2 /\ \E val : Becomes(RecordInfo, val)
        \/ i = 3 /\ (\A s \in Steps : Status(s) \in DOMAIN db') /\ Spared({Status(s) : s \in Steps})
        \/ i = 5 /\ (ChildCases \notin DOMAIN db =>
                       Becomes(ChildCases, <<[status |-> "pending", done_step_count |-> 0,
                                              failed_step_count |-> 0, skipped_step_count |-> 0]>>))
        \/ i = 6 /\ \E val : Becomes(CaseStatus, val)
        \/ i \in {4, 7, 8, 9} /\ Spared({})
        \/ i = 10 /\ \A old : ChildCases \in DOMAIN db /\ db[ChildCases].val = <<old>> =>
                       Becomes(ChildCases, <<Joined(old, InfoOf("running"))>>)
  \/ /\ main.at = "close"
     /\ \/ i = 1 /\ (RecordInfo \in DOMAIN db => \E val : Becomes(RecordInfo, val))
        \/ i = 2 /\ \A old : ChildCases \in DOMAIN db /\ db[ChildCases].val = <<old>> =>
                      Becomes(ChildCases, <<Joined(old, InfoOf("end"))>>)
        \/ i \in {3, 4} /\ Spared({})
        \/ i = 5 /\ Updated(TaskInfo, InfoOf("end"))
        \/ i = 6 /\ Updated(RecordInfo, InfoOf("end"))

LEMMA ListsSpared ==
  ASSUME NEW new, DOMAIN new \subseteq Lists, db' = Written(PushesAll(new))
  PROVE  Spared({}) /\ LastsKept
<1>1. Spared(DOMAIN new) /\ LastsKept
  BY PushAllIs
<1> QED BY <1>1 DEF Spared

LEMMA TaskValueIs ==
  ASSUME NEW i, NEW w, MainStep(i, w),
         main.at = "close" => RecordInfo \in DOMAIN db,
         (main.at = "open" /\ i = 10) \/ (main.at = "close" /\ i = 2) =>
           ChildCases \in DOMAIN db /\ \E old : db[ChildCases].val = <<old>>
  PROVE  TaskValue(i) /\ LastsKept
<1>1. /\ main.at \in {"open", "close"} /\ TaskWrite(main.at, i, w) /\ db' = Written(w)
      /\ KeptLists \subseteq Lists /\ Summary \in Lists
  BY ListKeys DEF MainStep, Lists
<1>2. CASE main.at = "open" /\ i = 1 /\ w = FirstInfo
  <2>1. Becomes(TaskInfo, InfoOf("pending")) /\ LastsKept
    BY <1>1, <1>2, SetIs DEF FirstInfo
  <2> QED BY <1>2, <2>1 DEF TaskValue
<1>3. CASE main.at = "open" /\ i = 2 /\ w = FirstRecord
  <2>1. PICK val : w = Sets(RecordInfo, val)
    BY <1>3 DEF FirstRecord
  <2>2. Becomes(RecordInfo, val) /\ LastsKept
    BY <1>1, <2>1, SetIs
  <2> QED BY <1>3, <2>2 DEF TaskValue
<1>4. CASE main.at = "open" /\ i = 3 /\ w = FirstStatuses
  <2>1. PICK new : w = SetsAll(new) /\ DOMAIN new = {Status(s) : s \in Steps}
    <3>1. PICK new : new = [k \in {Status(s) : s \in Steps} |-> InfoOf("mid_pending")]
      OBVIOUS
    <3>2. DOMAIN new = {Status(s) : s \in Steps}
      BY <3>1
    <3>3. w = SetsAll(new)
      BY <1>4, <3>1 DEF FirstStatuses
    <3> QED BY <3>2, <3>3
  <2>2. (\A k \in DOMAIN new : k \in DOMAIN db') /\ Spared(DOMAIN new) /\ LastsKept
    BY <1>1, <2>1, SetAllIs
  <2> QED BY <1>4, <2>1, <2>2 DEF TaskValue
<1>5. ASSUME NEW new, w = PushesAll(new), DOMAIN new \subseteq Lists,
             main.at = "open", i \in {4, 7}
      PROVE  TaskValue(i) /\ LastsKept
  <2>1. Spared({}) /\ LastsKept
    BY <1>1, <1>5, ListsSpared
  <2> QED BY <1>5, <2>1 DEF TaskValue
<1>6. CASE main.at = "open" /\ i = 4 /\ w = FirstLists
  <2>1. PICK new : new = [k \in ({Process(s) : s \in Steps} \cup {Summary}) \cap KeptLists |-> Waiting]
    OBVIOUS
  <2>2. w = PushesAll(new) /\ DOMAIN new \subseteq Lists
    BY <1>1, <1>6, <2>1 DEF FirstLists
  <2> QED BY <1>5, <1>6, <2>2
<1>7. CASE main.at = "open" /\ i = 5 /\ w = FirstCounters
  <2>1. PICK first : first = [status |-> "pending", done_step_count |-> 0, failed_step_count |-> 0,
                              skipped_step_count |-> 0]
    OBVIOUS
  <2>2. PICK new : w = PushesAll(new) /\ DOMAIN new = {ChildCases} /\ new[ChildCases] = first
    <3>1. PICK new : new = [k \in {ChildCases} |-> first]
      OBVIOUS
    <3> QED BY <1>7, <2>1, <3>1 DEF FirstCounters
  <2>3. /\ ChildCases \in DOMAIN db'
        /\ db'[ChildCases].val = Append(Elements(db, ChildCases), first)
        /\ Spared({ChildCases}) /\ LastsKept
    BY <1>1, <2>2, PushAllIs
  <2>4. ASSUME ChildCases \notin DOMAIN db
        PROVE  Becomes(ChildCases, <<first>>)
    <3>1. Elements(db, ChildCases) = <<>>
      BY <2>4 DEF Elements, Exists
    <3>2. Append(<<>>, first) = <<first>>
      OBVIOUS
    <3> QED BY <2>3, <3>1, <3>2 DEF Becomes
  <2> QED BY <1>7, <2>1, <2>3, <2>4 DEF TaskValue
<1>8. CASE main.at = "open" /\ i = 6 /\ w = FirstCases
  <2>1. PICK val : val = [s \in Steps |-> "mid_pending"]
    OBVIOUS
  <2>2. PICK new : w = SetsAll(new) /\ DOMAIN new = {CaseStatus} /\ new[CaseStatus] = val
    <3>1. PICK new : new = [k \in {CaseStatus} |-> val]
      OBVIOUS
    <3> QED BY <1>8, <2>1, <3>1 DEF FirstCases
  <2>3. Becomes(CaseStatus, val) /\ LastsKept
    BY <1>1, <2>2, SetAllIs DEF Becomes
  <2> QED BY <1>8, <2>3 DEF TaskValue
<1>9. CASE main.at = "open" /\ i = 7 /\ w = FirstOfCase
  <2>1. PICK new : new = [k \in {CaseProcess} \cap KeptLists |-> Waiting]
    OBVIOUS
  <2>2. w = PushesAll(new) /\ DOMAIN new \subseteq Lists
    BY <1>1, <1>9, <2>1 DEF FirstOfCase
  <2> QED BY <1>5, <1>9, <2>2
<1>10. ASSUME NEW what, w = Tells(what)
       PROVE  Spared({}) /\ LastsKept
  BY <1>1, <1>10, PushIs DEF Tells
<1>11. ASSUME NEW fields, w = InList(fields), ChildCases \in DOMAIN db,
              \E old : db[ChildCases].val = <<old>>
       PROVE  /\ LastsKept
              /\ \A old : ChildCases \in DOMAIN db /\ db[ChildCases].val = <<old>> =>
                   Becomes(ChildCases, <<Joined(old, fields)>>)
  BY <1>1, <1>11, InListIs
<1>12. CASE main.at = "open" /\ i = 8
  <2>1. i # 1 /\ i # 2 /\ i # 3 /\ i # 4 /\ i # 5 /\ i # 6 /\ i # 7 /\ i # 9 /\ i # 10
    BY <1>12
  <2>2. w = Tells("task starts")
    BY <1>1, <1>12, <2>1 DEF TaskWrite
  <2> QED BY <1>10, <1>12, <2>2 DEF TaskValue
<1>20. CASE main.at = "open" /\ i = 9
  <2>1. i # 1 /\ i # 2 /\ i # 3 /\ i # 4 /\ i # 5 /\ i # 6 /\ i # 7 /\ i # 8 /\ i # 10
    BY <1>20
  <2>2. w = Tells("case starts")
    BY <1>1, <1>20, <2>1 DEF TaskWrite
  <2> QED BY <1>10, <1>20, <2>2 DEF TaskValue
<1>21. CASE main.at = "open" /\ i = 10
  <2>1. w = InList(InfoOf("running"))
    BY <1>1, <1>21 DEF TaskWrite
  <2> QED BY <1>11, <1>21, <2>1 DEF TaskValue
<1>13. CASE main.at = "close" /\ i = 1
  <2>1. w = Increment(RecordInfo, [done_child_case_count |-> 1])
    BY <1>1, <1>13 DEF TaskWrite
  <2>2. (\E val : Becomes(RecordInfo, val)) /\ LastsKept
    BY <1>1, <1>13, <2>1, IncrementIs
  <2> QED BY <1>13, <2>2 DEF TaskValue
<1>14. CASE main.at = "close" /\ i = 2
  <2>1. w = InList(InfoOf("end"))
    BY <1>1, <1>14 DEF TaskWrite
  <2> QED BY <1>11, <1>14, <2>1 DEF TaskValue
<1>15. CASE main.at = "close" /\ i = 3
  <2>1. i # 1 /\ i # 2 /\ i # 4 /\ i # 5 /\ i # 6
    BY <1>15
  <2>2. w = Tells("case ends")
    BY <1>1, <1>15, <2>1 DEF TaskWrite
  <2> QED BY <1>10, <1>15, <2>2 DEF TaskValue
<1>22. CASE main.at = "close" /\ i = 4
  <2>1. i # 1 /\ i # 2 /\ i # 3 /\ i # 5 /\ i # 6
    BY <1>22
  <2>2. w = Tells("task ends")
    BY <1>1, <1>22, <2>1 DEF TaskWrite
  <2> QED BY <1>10, <1>22, <2>2 DEF TaskValue
<1>16. CASE main.at = "close" /\ i = 5
  <2>1. w = Update(TaskInfo, InfoOf("end"))
    BY <1>1, <1>16 DEF TaskWrite
  <2>2. Updated(TaskInfo, InfoOf("end")) /\ LastsKept
    BY <1>1, <2>1, UpdatedIs
  <2> QED BY <1>16, <2>2 DEF TaskValue
<1>17. CASE main.at = "close" /\ i = 6
  <2>1. w = Update(RecordInfo, InfoOf("end"))
    BY <1>1, <1>17 DEF TaskWrite
  <2>2. Updated(RecordInfo, InfoOf("end")) /\ LastsKept
    BY <1>1, <2>1, UpdatedIs
  <2> QED BY <1>17, <2>2 DEF TaskValue
<1>18. i \in Nat
  BY DEF MainStep
<1>19. \/ main.at = "open" /\ i = 1 /\ w = FirstInfo
       \/ main.at = "open" /\ i = 2 /\ w = FirstRecord
       \/ main.at = "open" /\ i = 3 /\ w = FirstStatuses
       \/ main.at = "open" /\ i = 4 /\ w = FirstLists
       \/ main.at = "open" /\ i = 5 /\ w = FirstCounters
       \/ main.at = "open" /\ i = 6 /\ w = FirstCases
       \/ main.at = "open" /\ i = 7 /\ w = FirstOfCase
       \/ main.at = "open" /\ (i = 8 \/ i = 9 \/ i = 10)
       \/ main.at = "close" /\ (i = 1 \/ i = 2 \/ i = 3 \/ i = 4 \/ i = 5 \/ i = 6)
  BY <1>1 DEF TaskWrite
<1> QED BY <1>2, <1>3, <1>4, <1>6, <1>7, <1>8, <1>9, <1>12, <1>13, <1>14, <1>15, <1>16, <1>17, <1>19,
   <1>20, <1>21, <1>22

LEMMA MainStepIs ==
  ASSUME NEW i, NEW w, MainStep(i, w)
  PROVE  /\ i \in Nat /\ i > 0
         /\ main.at = "open" =>
              /\ i <= 10
              /\ \A j \in 1..6 : /\ Opened(j)' <=> i >= j
                                 /\ Opened(j) <=> i - 1 >= j
                                 /\ ~ClosedBy(j)' /\ ~ClosedBy(j)
         /\ main.at = "close" =>
              /\ i <= 6
              /\ \A j \in 1..6 : /\ Opened(j)' /\ Opened(j)
                                 /\ ClosedBy(j)' <=> i >= j
                                 /\ ClosedBy(j) <=> i - 1 >= j
<1>1. main.pc \in Nat /\ i = main.pc + 1 /\ i \in 1..HowMany(main.at)
  BY DEF MainStep
<1>2. CASE main.at = "open"
  <2>1. HowMany(main.at) = 10 /\ NextStage(main.at) = "steps"
    BY <1>2 DEF HowMany, NextStage
  <2>2. \/ i = 10 /\ main'.at = "steps"
        \/ i < 10 /\ main'.at = "open" /\ main'.pc = i
    BY <1>1, <1>2, <2>1 DEF MainStep
  <2> QED BY <1>1, <1>2, <2>1, <2>2 DEF Opened, ClosedBy, Over
<1>3. CASE main.at = "close"
  <2>1. HowMany(main.at) = 6 /\ NextStage(main.at) = "export"
    BY <1>3 DEF HowMany, NextStage
  <2>2. \/ i = 6 /\ main'.at = "export"
        \/ i < 6 /\ main'.at = "close" /\ main'.pc = i
    BY <1>1, <1>3, <2>1 DEF MainStep
  <2> QED BY <1>1, <1>3, <2>1, <2>2 DEF Opened, ClosedBy, Over
<1> QED BY <1>1, <1>2, <1>3 DEF MainStep

LEMMA MainTask ==
  ASSUME NEW i, NEW w, MainStep(i, w), TaskValue(i), TaskHeld, DOMAIN db \subseteq DOMAIN db',
         CountersHeld
  PROVE  TaskHeld'
<1>1. /\ TaskInfo \notin Lists /\ TaskInfo # ChildCases /\ TaskInfo # CaseStatus
      /\ TaskInfo # RecordInfo
  BY KeyKinds, ValueKeys
<1>2. CASE main.at = "open"
  <2>1. /\ i \in Nat
        /\ Opened(1)' => i >= 1
        /\ Opened(2)' => i >= 2
        /\ Opened(1) <=> i - 1 >= 1
        /\ Opened(2) <=> i - 1 >= 2
        /\ ~ClosedBy(5)' /\ ~ClosedBy(6)'
    BY <1>2, MainStepIs
  <2>2. i = 1 => TaskInfo \in DOMAIN db'
    BY <1>2 DEF TaskValue, Becomes
  <2>3. i = 2 => RecordInfo \in DOMAIN db'
    BY <1>2 DEF TaskValue, Becomes
  <2>4. i > 1 => TaskInfo \in DOMAIN db'
    BY <2>1 DEF TaskHeld
  <2>5. i > 2 => RecordInfo \in DOMAIN db'
    BY <2>1 DEF TaskHeld
  <2> QED BY <2>1, <2>2, <2>3, <2>4, <2>5 DEF TaskHeld
<1>3. CASE main.at = "close"
  <2>1. /\ i \in Nat /\ i <= 6 /\ i > 0
        /\ Opened(1) /\ Opened(2)
        /\ ClosedBy(5)' <=> i >= 5
        /\ ClosedBy(6)' <=> i >= 6
        /\ ClosedBy(5) <=> i - 1 >= 5
    BY <1>3, MainStepIs
  <2>2. TaskInfo \in DOMAIN db /\ RecordInfo \in DOMAIN db
    BY <2>1 DEF TaskHeld
  <2>3. \A old : Merged(old, InfoOf("end")).status = "end"
    <3>1. PICK fields : fields = InfoOf("end")
      OBVIOUS
    <3>2. DOMAIN fields = {"status"} /\ fields["status"] = "end"
      BY <3>1 DEF InfoOf
    <3>3. ASSUME NEW old
          PROVE  Merged(old, fields)["status"] = "end"
      <4>1. PICK merged : merged = Merged(old, fields)
        OBVIOUS
      <4>2. "status" \in DOMAIN fields => merged["status"] = fields["status"]
        BY <4>1 DEF Merged
      <4> QED BY <3>2, <4>1, <4>2
    <3> QED BY <3>1, <3>3
  <2>4. i = 5 => db'[TaskInfo].val.status = "end"
    <3>1. i = 5 => Updated(TaskInfo, InfoOf("end"))
      BY <1>3 DEF TaskValue
    <3> QED BY <2>2, <2>3, <3>1 DEF Updated, Becomes
  <2>5. i = 6 => Updated(RecordInfo, InfoOf("end"))
    BY <1>3 DEF TaskValue
  <2>6. i = 6 => db'[RecordInfo].val.status = "end"
    BY <2>2, <2>3, <2>5 DEF Updated, Becomes
  <2>7. i = 6 => db'[TaskInfo].val.status = "end"
    <3> SUFFICES ASSUME i = 6
                 PROVE  db'[TaskInfo].val.status = "end"
      OBVIOUS
    <3>1. ValueKept(TaskInfo)
      BY <1>1, <2>5, UpdatedKeeps
    <3>2. db[TaskInfo].val.status = "end"
      BY <2>1 DEF TaskHeld
    <3> QED BY <2>2, <3>1, <3>2 DEF ValueKept
  <2> QED BY <2>1, <2>2, <2>4, <2>6, <2>7 DEF TaskHeld
<1> QED BY <1>2, <1>3 DEF MainStep

LEMMA JoinedStatus ==
  ASSUME NEW old, NEW status, NEW s, NEW e, NEW d, NEW new
  PROVE  Joined([status |-> status, done_step_count |-> s, failed_step_count |-> e,
                 skipped_step_count |-> d], InfoOf(new))
           = [status |-> new, done_step_count |-> s, failed_step_count |-> e,
              skipped_step_count |-> d]
BY DEF Joined, InfoOf, Counted

(* The task makes the counters, then writes their status only.               *)
LEMMA MainCounters ==
  ASSUME NEW i, NEW w, MainStep(i, w), TaskValue(i), CountersHeld, TaskHeld,
         main.at = "open" => \A v \in Visits : visit[v] = 0 /\ BodyOf[v][outcome[v]] \in Nat
  PROVE  CountersHeld'
<1>1. /\ ChildCases \notin Lists /\ ChildCases # TaskInfo /\ ChildCases # CaseStatus
      /\ ChildCases # RecordInfo
      /\ \A s : ChildCases # Status(s)
  BY KeyKinds, ValueKeys
<1>2. \A o : Past(o)' = Past(o)
  BY DEF Past, MainStep
<1>3. \A status : Counters(status)' = Counters(status)
  BY <1>2 DEF Counters
<1>4. i \in Nat /\ i > 0
  BY MainStepIs
<1>5. CASE /\ ~(main.at = "open" /\ (i = 5 \/ i = 10)) /\ ~(main.at = "close" /\ i = 2)
  <2>1. ValueKept(ChildCases)
    <3>1. Spared({}) => ValueKept(ChildCases)
      BY <1>1 DEF Spared
    <3>2. Spared({Status(s) : s \in Steps}) => ValueKept(ChildCases)
      BY <1>1 DEF Spared
    <3>3. \A k, val : Becomes(k, val) /\ k # ChildCases => ValueKept(ChildCases)
      BY <1>1 DEF Becomes, Spared
    <3>4. \A k, fields : Updated(k, fields) /\ k # ChildCases => ValueKept(ChildCases)
      BY <1>1, UpdatedKeeps
    <3>5. CASE main.at = "open"
      BY <1>1, <1>5, <3>1, <3>2, <3>3, <3>5 DEF TaskValue
    <3>6. CASE main.at = "close"
      <4>1. i = 1 => ValueKept(ChildCases)
        BY <1>1, <1>5, <3>3, <3>6 DEF TaskValue, TaskHeld, Opened
      <4>2. i = 1 \/ Spared({}) \/ Updated(TaskInfo, InfoOf("end")) \/ Updated(RecordInfo, InfoOf("end"))
        BY <1>5, <3>6 DEF TaskValue
      <4> QED BY <1>1, <3>1, <3>4, <4>1, <4>2
    <3> QED BY <3>5, <3>6 DEF MainStep
  <2>2. (Opened(5)' <=> Opened(5)) /\ (ClosedBy(2)' => ClosedBy(2))
    <3>1. CASE main.at = "open"
      <4>1. /\ Opened(5)' <=> i >= 5
            /\ Opened(5) <=> i - 1 >= 5
            /\ ~ClosedBy(2)'
        BY <3>1, MainStepIs
      <4> QED BY <1>4, <1>5, <3>1, <4>1
    <3>2. CASE main.at = "close"
      <4>1. /\ Opened(5)' /\ Opened(5)
            /\ ClosedBy(2)' <=> i >= 2
            /\ ClosedBy(2) <=> i - 1 >= 2
        BY <3>2, MainStepIs
      <4> QED BY <1>4, <1>5, <3>2, <4>1
    <3> QED BY <3>1, <3>2 DEF MainStep
  <2> QED BY <1>2, <2>1, <2>2, CountersKept
<1>6. CASE main.at = "open" /\ i = 5
  <2>1. ~Opened(5) /\ Opened(5)' /\ ~ClosedBy(2)'
    BY <1>6, MainStepIs
  <2>2. ChildCases \notin DOMAIN db
    BY <2>1 DEF CountersHeld
  <2>3. \A o : Past(o) = {}
    BY <1>6 DEF Past
  <2>4. Counters("pending") = [status |-> "pending", done_step_count |-> 0,
                               failed_step_count |-> 0, skipped_step_count |-> 0]
    BY <2>3, FS_EmptySet DEF Counters
  <2>5. Becomes(ChildCases, <<Counters("pending")>>)
    BY <1>6, <2>2, <2>4 DEF TaskValue
  <2>6. ChildCases \in DOMAIN db' /\ db'[ChildCases].val = <<Counters("pending")'>>
    BY <1>3, <2>5 DEF Becomes
  <2> QED BY <2>1, <2>6 DEF CountersHeld
<1>7. ASSUME NEW new \in {"running", "end"}, Opened(5), Opened(5)',
             ClosedBy(2)' => new = "end",
             \A old : ChildCases \in DOMAIN db /\ db[ChildCases].val = <<old>> =>
               Becomes(ChildCases, <<Joined(old, InfoOf(new))>>)
      PROVE  CountersHeld'
  <2>1. PICK status : ChildCases \in DOMAIN db /\ db[ChildCases].val = <<Counters(status)>>
    BY <1>7 DEF CountersHeld
  <2>2. Joined(Counters(status), InfoOf(new)) = Counters(new)
    BY JoinedStatus DEF Counters
  <2>3. Becomes(ChildCases, <<Joined(Counters(status), InfoOf(new))>>)
    BY <1>7, <2>1
  <2>4. ChildCases \in DOMAIN db' /\ db'[ChildCases].val = <<Counters(new)'>>
    BY <1>3, <2>2, <2>3 DEF Becomes
  <2> QED BY <1>7, <2>4 DEF CountersHeld
<1>8. CASE main.at = "open" /\ i = 10
  <2>1. Opened(5) /\ Opened(5)' /\ ~ClosedBy(2)'
    BY <1>8, MainStepIs
  <2>2. \A old : ChildCases \in DOMAIN db /\ db[ChildCases].val = <<old>> =>
          Becomes(ChildCases, <<Joined(old, InfoOf("running"))>>)
    BY <1>8 DEF TaskValue
  <2> QED BY <1>7, <2>1, <2>2
<1>9. CASE main.at = "close" /\ i = 2
  <2>1. Opened(5) /\ Opened(5)'
    BY <1>9, MainStepIs
  <2>2. \A old : ChildCases \in DOMAIN db /\ db[ChildCases].val = <<old>> =>
          Becomes(ChildCases, <<Joined(old, InfoOf("end"))>>)
    BY <1>9 DEF TaskValue
  <2> QED BY <1>7, <2>1, <2>2
<1> QED BY <1>5, <1>6, <1>8, <1>9

LEMMA ClosingSpares ==
  ASSUME NEW i, NEW w, MainStep(i, w), TaskValue(i), TaskHeld, CountersHeld, main.at = "close",
         NEW k, k \notin Lists \cup {TaskInfo, RecordInfo, ChildCases}
  PROVE  ValueKept(k)
<1>1. RecordInfo \in DOMAIN db /\ \E old : ChildCases \in DOMAIN db /\ db[ChildCases].val = <<old>>
  BY DEF TaskHeld, CountersHeld, Opened
<1>2. /\ Spared({}) => ValueKept(k)
      /\ \A x, val : Becomes(x, val) /\ x # k => ValueKept(k)
      /\ \A x, fields : Updated(x, fields) /\ x # k => ValueKept(k)
  BY UpdatedKeeps DEF Spared
<1> QED BY <1>1, <1>2 DEF TaskValue

LEMMA MainStatus ==
  ASSUME NEW i, NEW w, MainStep(i, w), TaskValue(i), DOMAIN db \subseteq DOMAIN db',
         TaskHeld, CountersHeld,
         NEW u \in Visits, StatusHeld(u), main.at = "open" => visit[u] = 0 /\ ~Ended(u)
  PROVE  StatusHeld(u)'
<1> DEFINE k == Status(StepOf[u])
<1>1. k \notin Lists \cup {ChildCases, TaskInfo, RecordInfo} /\ StepOf[u] \in Steps
  BY KeyKinds, ValueKeys DEF Steps
<1>2. (visit'[u] > 0 <=> visit[u] > 0) /\ (Ended(u)' <=> Ended(u)) /\ outcome' = outcome
  BY DEF MainStep, Ended, Program
<1>3. CASE main.at = "open"
  <2> SUFFICES ASSUME Opened(3)'
               PROVE  k \in DOMAIN db'
    BY <1>2, <1>3 DEF StatusHeld
  <2>1. i \in Nat /\ i >= 3
    BY <1>3, MainStepIs
  <2>2. CASE i = 3
    BY <1>1, <1>3, <2>2 DEF TaskValue
  <2>3. CASE i > 3
    <3>1. Opened(3) <=> i - 1 >= 3
      BY <1>3, MainStepIs
    <3>2. Opened(3)
      BY <2>1, <2>3, <3>1
    <3> QED BY <3>2 DEF StatusHeld
  <2> QED BY <2>1, <2>2, <2>3
<1>4. CASE main.at = "close"
  <2>1. Opened(3) /\ Opened(3)'
    BY <1>4, MainStepIs
  <2>2. ValueKept(k)
    BY <1>1, <1>4, ClosingSpares
  <2> QED BY <1>2, <2>1, <2>2, StatusKept
<1> QED BY <1>3, <1>4 DEF MainStep

LEMMA MainCase ==
  ASSUME NEW i, NEW w, MainStep(i, w), TaskValue(i), DOMAIN db \subseteq DOMAIN db',
         TaskHeld, CountersHeld,
         NEW u \in Visits, Tracked(u), CaseHeld(u),
         main.at = "open" => visit[u] = 0 /\ BodyOf[u][outcome[u]] \in Nat
  PROVE  CaseHeld(u)'
<1>1. CaseStatus \notin Lists \cup {ChildCases, TaskInfo, RecordInfo}
  BY KeyKinds, ValueKeys
<1>2. outcome' = outcome /\ \A x : ToldOf(x)' <=> ToldOf(x)
  BY DEF MainStep, ToldOf
<1>3. CASE main.at = "open"
  <2>1. u \in Peers(u) /\ ~ToldOf(u)'
    BY <1>2, <1>3 DEF Peers, ToldOf
  <2> SUFFICES ASSUME Opened(6)'
               PROVE  CaseStatus \in DOMAIN db'
    BY <2>1 DEF CaseHeld
  <2>2. i \in Nat /\ i >= 6
    BY <1>3, MainStepIs
  <2>3. CASE i = 6
    BY <1>3, <2>3 DEF TaskValue, Becomes
  <2>4. CASE i > 6
    <3>1. Opened(6) <=> i - 1 >= 6
      BY <1>3, MainStepIs
    <3>2. Opened(6)
      BY <2>2, <2>4, <3>1
    <3> QED BY <3>2 DEF CaseHeld
  <2> QED BY <2>2, <2>3, <2>4
<1>4. CASE main.at = "close"
  <2>1. Opened(6) /\ Opened(6)'
    BY <1>4, MainStepIs
  <2>2. ValueKept(CaseStatus)
    BY <1>1, <1>4, ClosingSpares
  <2> QED BY <1>2, <2>1, <2>2, CaseKept
<1> QED BY <1>3, <1>4 DEF MainStep

-----------------------------------------------------------------------------
(* The steps.                                                                *)

(* How far a visit is, from the invariant of the task.                       *)
LEMMA VisitsAre ==
  ASSUME RecordInv, NEW v \in Visits
  PROVE  /\ visit[v] \in Nat /\ outcome[v] \in Outcome
         /\ PartsAre(v, outcome[v]) /\ Program(v) = ProgramOf[v][outcome[v]]
         /\ Len(Program(v)) \in Nat /\ BodyOf[v][outcome[v]] \in Nat
         /\ BodyOf[v][outcome[v]] > 0 /\ BodyOf[v][outcome[v]] < Len(Program(v))
         /\ Tracked(v) => Len(Program(v)) = BodyOf[v][outcome[v]] + 3
<1>1. visit[v] \in Nat /\ outcome[v] \in Outcome
  BY DEF RecordInv, TaskOK
<1>2. PartsAre(v, outcome[v]) /\ Program(v) = ProgramOf[v][outcome[v]]
  BY <1>1, ProgramIs DEF Program
<1> QED BY <1>1, <1>2 DEF PartsAre

LEMMA HasCounters ==
  ASSUME CountersHeld, Opened(5)
  PROVE  ChildCases \in DOMAIN db /\ \E old : db[ChildCases].val = <<old>>
BY DEF CountersHeld

LEMMA NotRaising ==
  ASSUME NEW w, loaded, w.cmd = "list" => w.key = ChildCases /\ CountersHeld /\ Opened(5)
  PROVE  ~Raises(w)
<1> SUFFICES ASSUME w.cmd = "list"
             PROVE  Listed(db, w.key, 0)
  BY DEF Raises
<1>1. PICK old : ChildCases \in DOMAIN db /\ db[ChildCases].val = <<old>>
  BY HasCounters
<1>2. Len(<<old>>) = 1 /\ 0 + 1 \in 1..1
  OBVIOUS
<1> QED BY <1>1, <1>2 DEF Listed, Exists

(* A step that leaves the task and its visits where they are, and writes to  *)
(* lists only.                                                               *)
LEMMA HeldSame ==
  ASSUME HeldOK, UNCHANGED <<main, visit, raised, outcome, left, gathered, ticks>>,
         Lasting' => Lasting, Spared({}), LastsKept
  PROVE  HeldOK'
<1> SUFFICES ASSUME Lasting, FlowOK, LastsOK, ValuesHeld, ScanOK
             PROVE  FlowOK' /\ LastsOK' /\ ValuesHeld' /\ ScanOK'
  BY DEF HeldOK
<1>1. FlowOK'
  BY DEF FlowOK, Ended, Program
<1>2. LastsOK'
  BY LastsStep DEF HeldOK
<1>3. ValuesHeld'
  <2>1. \A i : (Opened(i)' <=> Opened(i)) /\ (ClosedBy(i)' <=> ClosedBy(i))
    BY DEF Opened, ClosedBy
  <2> QED BY <2>1, ValuesKept
<1>4. ScanOK'
  BY DEF ScanOK, Spared, ValueKept
<1> QED BY <1>1, <1>2, <1>3, <1>4

(* A write of the task is of its opening or its closing.                     *)
LEMMA HeldMainWrites ==
  ASSUME RecordInv, HeldOK, MainWrites
  PROVE  HeldOK'
<1>0. /\ ticks' = ticks /\ loaded' = loaded /\ backup' = backup /\ raised' = raised
      /\ ticks \in Nat
  BY DEF MainWrites, saving, HeldOK
<1> SUFFICES ASSUME Lasting, FlowOK, LastsOK, ValuesHeld, ScanOK
             PROVE  FlowOK' /\ LastsOK' /\ ValuesHeld' /\ ScanOK'
  BY <1>0 DEF HeldOK, Lasting
<1> DEFINE i == main.pc + 1
<1>1. PICK w : w = WritesAt(main.at)[i] /\ db' = Written(w)
  BY DEF MainWrites
<1>2. main.pc \in Nat /\ main.at \in Stages /\ {"at", "pc"} \subseteq DOMAIN main
  BY DEF RecordInv, TaskOK
<1>3. i \in 1..HowMany(main.at) /\ HowMany(main.at) = Len(WritesAt(main.at))
  <2>1. HowMany(main.at) \in Nat
    BY DEF HowMany
  <2> QED BY <1>2, <2>1, WritesAtAre DEF MainWrites
<1>4. TaskWrite(main.at, i, w) /\ WriteOK(w)
  BY <1>1, <1>3, WritesAtAre, TaskWriteOK
<1>5. main.at \in {"open", "close"}
  BY <1>3 DEF HowMany, FlowOK, Over
<1>6. /\ main' = IF i = HowMany(main.at) THEN [at |-> NextStage(main.at), pc |-> 0]
                 ELSE [main EXCEPT !.pc = i]
      /\ UNCHANGED <<visit, outcome, raised>>
  BY <1>3 DEF MainWrites
<1>7. MainStep(i, w)
  BY <1>1, <1>2, <1>3, <1>4, <1>5, <1>6 DEF MainStep
<1>8. PICK n : n = i
  OBVIOUS
<1>9. MainStep(n, w)
  BY <1>7, <1>8
<1> HIDE DEF i
<1>10. /\ TaskHeld /\ CountersHeld
       /\ \A v \in Visits : Tracked(v) => StatusHeld(v) /\ CaseHeld(v)
       /\ \A v \in Visits : DetailHeld(v)
  BY DEF ValuesHeld
<1>11. /\ main.at = "close" => RecordInfo \in DOMAIN db
       /\ (main.at = "open" /\ n = 10) \/ (main.at = "close" /\ n = 2) =>
            ChildCases \in DOMAIN db /\ \E old : db[ChildCases].val = <<old>>
  <2>1. main.at = "close" => RecordInfo \in DOMAIN db
    BY <1>10 DEF TaskHeld, Opened
  <2>2. main.at = "close" => Opened(5)
    BY DEF Opened
  <2>3. main.at = "open" /\ n = 10 => Opened(5)
    <3>1. main.at = "open" => (Opened(5) <=> n - 1 >= 5)
      BY <1>9, MainStepIs
    <3> QED BY <3>1
  <2> QED BY <1>10, <2>1, <2>2, <2>3, HasCounters
<1>12. TaskValue(n) /\ LastsKept
  BY <1>9, <1>11, TaskValueIs
<1>13. DOMAIN db \subseteq DOMAIN db'
  BY <1>1, <1>4, WriteEffect
<1>14. \A v \in Visits :
         main.at = "open" => visit[v] = 0 /\ ~Ended(v) /\ BodyOf[v][outcome[v]] \in Nat
  <2> SUFFICES ASSUME NEW v \in Visits, main.at = "open"
               PROVE  visit[v] = 0 /\ ~Ended(v) /\ BodyOf[v][outcome[v]] \in Nat
    OBVIOUS
  <2> QED BY VisitsAre DEF FlowOK, Ended
<1>15. ValuesHeld'
  <2>1. TaskHeld' /\ CountersHeld'
    BY <1>9, <1>10, <1>12, <1>13, <1>14, MainTask, MainCounters
  <2>2. ASSUME NEW u \in Visits, Tracked(u)
        PROVE  StatusHeld(u)' /\ CaseHeld(u)'
    BY <1>9, <1>10, <1>12, <1>13, <1>14, <2>2, MainStatus, MainCase
  <2>3. ASSUME NEW u \in Visits
        PROVE  DetailHeld(u)'
    BY <1>6, <1>10, <1>13 DEF DetailHeld
  <2> QED BY <2>1, <2>2, <2>3 DEF ValuesHeld
<1>16. \/ main'.at = main.at
       \/ main.at = "open" /\ main'.at = "steps"
       \/ main.at = "close" /\ main'.at = "export"
  BY <1>2, <1>5, <1>6 DEF NextStage
<1>17. FlowOK'
  <2>1. \A v : Ended(v)' <=> Ended(v)
    BY <1>6 DEF Ended, Program
  <2> QED BY <1>5, <1>6, <1>16, <2>1 DEF FlowOK, Over
<1>18. ScanOK'
  BY <1>5, <1>16 DEF ScanOK
<1>19. LastsOK'
  BY <1>0, <1>12, LastsStep
<1> QED BY <1>15, <1>17, <1>18, <1>19

(* The counters are there when they are written to, so nothing raises.       *)
LEMMA HeldMainRaises ==
  ASSUME RecordInv, HeldOK, MainRaises
  PROVE  HeldOK'
<1>0. /\ ticks' = ticks /\ loaded' = loaded /\ backup' = backup /\ raised' = raised
      /\ ticks \in Nat
  BY DEF MainRaises, saving, HeldOK
<1> SUFFICES ASSUME Lasting, FlowOK, ValuesHeld
             PROVE  FALSE
  BY <1>0 DEF HeldOK, Lasting
<1> DEFINE i == main.pc + 1
<1>1. PICK w : w = WritesAt(main.at)[i] /\ Raises(w)
  BY DEF MainRaises
<1>2. main.pc \in Nat
  BY DEF RecordInv, TaskOK
<1>3. i \in 1..HowMany(main.at)
  <2>1. HowMany(main.at) \in Nat
    BY DEF HowMany
  <2> QED BY <1>2, <2>1, WritesAtAre DEF MainRaises
<1>4. TaskWrite(main.at, i, w)
  BY <1>1, <1>3, WritesAtAre
<1>5. main.at \in {"open", "close"}
  BY <1>3 DEF HowMany, FlowOK, Over
<1>6. main.at = "close" => Opened(5)
  BY DEF Opened
<1>7. main.at = "open" /\ i = 10 => Opened(5)
  BY <1>2 DEF Opened
<1>8. w.cmd = "list" =>
        \/ main.at = "open" /\ i = 10 /\ w.key = ChildCases
        \/ main.at = "close" /\ w.key = ChildCases
  <2>1. /\ FirstInfo.cmd # "list" /\ FirstRecord.cmd # "list" /\ FirstStatuses.cmd # "list"
        /\ FirstLists.cmd # "list" /\ FirstCounters.cmd # "list" /\ FirstCases.cmd # "list"
        /\ FirstOfCase.cmd # "list"
    BY DEF FirstInfo, FirstRecord, FirstStatuses, FirstLists, FirstCounters, FirstCases, FirstOfCase,
       Sets, SetsAll, PushesAll
  <2>2. /\ \A what : Tells(what).cmd # "list"
        /\ \A fields : InList(fields).key = ChildCases
        /\ \A k, fields : Update(k, fields).cmd # "list" /\ Increment(k, fields).cmd # "list"
    BY DEF Tells, Pushes, InList, Update, Increment
  <2> HIDE DEF i
  <2>3. CASE main.at = "open"
    BY <1>4, <2>1, <2>2, <2>3 DEF TaskWrite
  <2>4. CASE main.at = "close"
    BY <1>4, <2>1, <2>2, <2>4 DEF TaskWrite
  <2> QED BY <1>5, <2>3, <2>4
<1>9. loaded
  BY DEF Lasting
<1> HIDE DEF i
<1> QED BY <1>1, <1>6, <1>7, <1>8, <1>9, NotRaising DEF ValuesHeld

(* The task goes on once all visits have ended.                              *)
LEMMA HeldStepsEnd ==
  ASSUME HeldOK, StepsEnd
  PROVE  HeldOK'
<1>0. /\ ticks' = ticks /\ loaded' = loaded /\ backup' = backup /\ ticks \in Nat /\ db' = db
      /\ UNCHANGED <<visit, outcome, raised>>
  BY DEF StepsEnd, saving, HeldOK
<1> SUFFICES ASSUME Lasting, FlowOK, LastsOK, ValuesHeld, ScanOK
             PROVE  FlowOK' /\ LastsOK' /\ ValuesHeld' /\ ScanOK'
  BY <1>0 DEF HeldOK, Lasting
<1>1. /\ main.at = "steps" /\ main'.at = "close" /\ main'.pc = 0
      /\ \A v \in Visits : Ended(v)
  BY DEF StepsEnd, Lasting
<1>2. FlowOK'
  BY <1>0, <1>1 DEF FlowOK, Ended, Program
<1>3. ValuesHeld'
  <2>1. Spared({})
    BY <1>0 DEF Spared, ValueKept
  <2>2. \A i : Opened(i)' /\ Opened(i)
    BY <1>1 DEF Opened
  <2>3. \A i \in {2, 5, 6} : ~ClosedBy(i)'
    BY <1>1 DEF ClosedBy, Over
  <2> QED BY <1>0, <2>1, <2>2, <2>3, ValuesKept
<1>4. LastsOK' /\ ScanOK'
  BY <1>0, <1>1 DEF LastsOK, ScanOK
<1> QED BY <1>2, <1>3, <1>4


(* A visit runs only while the task waits for its visits.                    *)
LEMMA RunsInSteps ==
  ASSUME RecordInv, FlowOK, NEW v \in Visits, Runs(v)
  PROVE  main.at = "steps"
<1> SUFFICES ASSUME main.at # "steps"
             PROVE  FALSE
  OBVIOUS
<1>1. ~Ended(v) /\ (Begun(v) \/ MayBegin(v))
  BY DEF Runs
<1>2. main.at = "open" /\ \A u \in Visits : visit[u] = 0
  BY <1>1 DEF FlowOK
<1>3. MayBegin(v)
  BY <1>1, <1>2 DEF Begun
<1>4. PICK u \in Visits : visit[u] >= BodyOf[u][outcome[u]]
  BY <1>2, <1>3 DEF MayBegin
<1>5. BodyOf[u][outcome[u]] \in Nat /\ BodyOf[u][outcome[u]] > 0
  BY VisitsAre
<1> QED BY <1>2, <1>4, <1>5

(* A write of a visit is the next of its program.                            *)
LEMMA HeldVisitWrites ==
  ASSUME RecordInv, HeldOK, NEW v \in Visits, VisitWrites(v)
  PROVE  HeldOK'
<1>0. /\ ticks' = ticks /\ loaded' = loaded /\ backup' = backup /\ raised' = raised
      /\ ticks \in Nat
  BY DEF VisitWrites, HeldOK
<1> SUFFICES ASSUME Lasting, FlowOK, LastsOK, ValuesHeld, ScanOK
             PROVE  FlowOK' /\ LastsOK' /\ ValuesHeld' /\ ScanOK'
  BY <1>0 DEF HeldOK, Lasting
<1>1. PICK s : s = Program(v)[visit[v] + 1] /\ db' = Written(s.write)
  BY DEF VisitWrites
<1>2. PICK w : w = s.write
  OBVIOUS
<1>3. PICK i : i = visit[v] + 1
  OBVIOUS
<1>4. /\ visit' = [visit EXCEPT ![v] = visit[v] + 1] /\ Runs(v)
      /\ UNCHANGED <<main, outcome, raised>>
  BY DEF VisitWrites
<1>5. main.at = "steps" /\ ~Ended(v)
  BY <1>4, RunsInSteps DEF Runs
<1>6. /\ outcome \in [Visits -> Outcome] /\ visit \in [Visits -> Nat]
      /\ visit[v] <= Len(Program(v))
  BY DEF RecordInv, TaskOK
<1>7. /\ visit[v] \in Nat /\ outcome[v] \in Outcome /\ PartsAre(v, outcome[v])
      /\ Program(v) = ProgramOf[v][outcome[v]] /\ Len(Program(v)) \in Nat
  BY VisitsAre
<1>8. i \in 1..Len(ProgramOf[v][outcome[v]])
  BY <1>3, <1>5, <1>6, <1>7 DEF Ended
<1>9. VisitWrite(v, outcome[v], i, w)
  <2>1. StretchIs(v, outcome[v], i, s)
    BY <1>1, <1>3, <1>7, <1>8, ProgramIs
  <2> QED BY <1>2, <2>1 DEF StretchIs
<1>10. visit'[v] = i /\ \A u \in Visits : u # v => visit'[u] = visit[u]
  BY <1>3, <1>4, <1>6
<1>11. VisitStep(v, i, w)
  BY <1>1, <1>2, <1>3, <1>4, <1>5, <1>7, <1>8, <1>9, <1>10 DEF VisitStep
<1>12. /\ TaskHeld /\ CountersHeld
       /\ \A u \in Visits : Tracked(u) => StatusHeld(u) /\ CaseHeld(u)
       /\ \A u \in Visits : DetailHeld(u)
  BY DEF ValuesHeld
<1>13. Opened(5)
  BY <1>5 DEF Opened
<1>14. VisitValue(v, i) /\ LastsKept
  BY <1>11, <1>12, <1>13, HasCounters, VisitValueIs
<1>15. DOMAIN db \subseteq DOMAIN db'
  <2>1. WriteOK(w)
    BY <1>7, <1>9, VisitWriteOK
  <2> QED BY <1>1, <1>2, <2>1, WriteEffect
<1>16. ValuesHeld'
  <2>1. \A u \in Visits : outcome[u] \in Outcome /\ BodyOf[u][outcome[u]] \in Nat /\ visit[u] \in Nat
    BY VisitsAre
  <2>2. TaskHeld' /\ CountersHeld'
    BY <1>11, <1>12, <1>14, <2>1, VisitTask, VisitCounters
  <2>3. ASSUME NEW u \in Visits, Tracked(u)
        PROVE  StatusHeld(u)' /\ CaseHeld(u)'
    BY <1>11, <1>12, <1>14, <2>3, VisitStatus, VisitCase
  <2>4. ASSUME NEW u \in Visits
        PROVE  DetailHeld(u)'
    BY <1>11, <1>12, <1>14, <1>15, VisitDetail
  <2> QED BY <2>2, <2>3, <2>4 DEF ValuesHeld
<1>17. FlowOK' /\ ScanOK'
  BY <1>4, <1>5 DEF FlowOK, ScanOK
<1>18. LastsOK'
  BY <1>0, <1>14, LastsStep
<1> QED BY <1>16, <1>17, <1>18

(* Of a visit that an exception ends nothing is claimed.                     *)
LEMMA HeldRaised ==
  ASSUME HeldOK, NEW v \in Visits, VisitRaises(v) \/ ChildrenUnmade(v)
  PROVE  HeldOK'
<1>1. v \in raised' /\ ticks' = ticks
  BY DEF VisitRaises, ChildrenUnmade
<1> QED BY <1>1 DEF HeldOK, Lasting

(* A message reaches a list, and no value.                                   *)
LEMMA HeldArrives ==
  ASSUME RecordInv, HeldOK, NEW m \in flying, Arrives(m)
  PROVE  HeldOK'
<1>1. UNCHANGED <<main, visit, raised, outcome, left, gathered, ticks, loaded, backup>>
  BY DEF Arrives
<1>2. PICK v \in Visits : \E i \in 1..visit[v] : VisitMessage(v, outcome[v], i, m)
  BY DEF RecordInv, TaskOK, SentBy
<1>3. MessageOK(m)
  BY <1>2, VisitMessageOK
<1>4. m.key \in Lists
  BY <1>3, ListKeys DEF MessageOK
<1>5. CASE db' = db
  <2>1. Spared({}) /\ LastsKept
    BY <1>5 DEF Spared, ValueKept, LastsKept
  <2> QED BY <1>1, <2>1, HeldSame DEF Lasting
<1>6. ASSUME NEW val, NEW ttl, db' = Put(db, m.key, val, ttl),
             ttl \in {Week, Hour} \/ (m.key \in DOMAIN db /\ ttl = db[m.key].ttl)
      PROVE  HeldOK'
  <2>1. Spared({m.key}) /\ LastsKept
    BY <1>6, PutIs DEF Becomes
  <2>2. Spared({})
    BY <1>4, <2>1 DEF Spared
  <2> QED BY <1>1, <2>1, <2>2, HeldSame DEF Lasting
<1>7. db' = db \/ db' = Push(db, m.key, m.entry) \/ db' = PrintValue(db, m.key, m.entry)
  BY DEF Arrives
<1>8. CASE db' = Push(db, m.key, m.entry)
  BY <1>6, <1>8 DEF Push
<1>9. CASE db' = PrintValue(db, m.key, m.entry) /\ Repeats(db, m.key, m.entry)
  <2>1. m.key \in DOMAIN db
    BY <1>9 DEF Repeats, Elements, Exists
  <2> QED BY <1>6, <1>9, <2>1 DEF PrintValue
<1>10. CASE db' = PrintValue(db, m.key, m.entry) /\ ~Repeats(db, m.key, m.entry)
  BY <1>8, <1>10 DEF PrintValue
<1> QED BY <1>5, <1>7, <1>8, <1>9, <1>10

(* The export.                                                               *)
LEMMA HeldExportBegins ==
  ASSUME RecordInv, HeldOK, ExportBegins
  PROVE  HeldOK'
<1>0. /\ ticks' = ticks /\ loaded' = loaded /\ backup' = backup /\ ticks \in Nat /\ db' = db
      /\ UNCHANGED <<visit, outcome, raised, gathered>>
  BY DEF ExportBegins, HeldOK
<1> SUFFICES ASSUME Lasting, FlowOK, LastsOK, ValuesHeld, ScanOK
             PROVE  FlowOK' /\ LastsOK' /\ ValuesHeld' /\ ScanOK'
  BY <1>0 DEF HeldOK, Lasting
<1>1. main.at = "export" /\ main'.at = "scan" /\ left' = DOMAIN db
  BY DEF ExportBegins
<1>2. FlowOK'
  BY <1>0, <1>1 DEF FlowOK, Ended, Program, Over
<1>3. ValuesHeld'
  <2>1. Spared({})
    BY <1>0 DEF Spared, ValueKept
  <2>2. \A i : Opened(i)' /\ Opened(i) /\ ClosedBy(i)
    BY <1>1 DEF Opened, ClosedBy, Over
  <2> QED BY <1>0, <2>1, <2>2, ValuesKept
<1>4. LastsOK'
  BY <1>0 DEF LastsOK
<1>5. ScanOK'
  <2>1. DOMAIN gathered = {}
    BY <1>1 DEF RecordInv, SavedOK
  <2> QED BY <1>0, <1>1, <2>1 DEF ScanOK
<1> QED BY <1>2, <1>3, <1>4, <1>5

LEMMA HeldExportReads ==
  ASSUME RecordInv, HeldOK, ExportReads
  PROVE  HeldOK'
<1>0. /\ ticks' = ticks /\ loaded' = loaded /\ backup' = backup /\ ticks \in Nat /\ db' = db
      /\ UNCHANGED <<visit, outcome, raised, main>>
  BY DEF ExportReads, HeldOK, writing
<1> SUFFICES ASSUME Lasting, FlowOK, LastsOK, ValuesHeld, ScanOK
             PROVE  FlowOK' /\ LastsOK' /\ ValuesHeld' /\ ScanOK'
  BY <1>0 DEF HeldOK, Lasting
<1>1. FlowOK' /\ LastsOK'
  BY <1>0 DEF FlowOK, LastsOK, Ended, Program
<1>2. ValuesHeld'
  <2>1. Spared({})
    BY <1>0 DEF Spared, ValueKept
  <2>2. \A i : (Opened(i)' <=> Opened(i)) /\ (ClosedBy(i)' <=> ClosedBy(i))
    BY <1>0 DEF Opened, ClosedBy
  <2> QED BY <1>0, <2>1, <2>2, ValuesKept
<1>3. ScanOK'
  <2>1. PICK K : /\ left' = left \ K
                 /\ gathered' = [k \in DOMAIN gathered \cup (K \cap DOMAIN db) |->
                                   IF k \in K THEN db[k] ELSE gathered[k]]
    BY DEF ExportReads
  <2>2. DOMAIN gathered' = DOMAIN gathered \cup (K \cap DOMAIN db)
    BY <2>1
  <2>3. \A k \in DOMAIN gathered' : gathered'[k] = IF k \in K THEN db[k] ELSE gathered[k]
    BY <2>1
  <2>4. main.at = "scan"
    BY DEF ExportReads
  <2>5. ASSUME NEW k \in DOMAIN db \ Lists
        PROVE  /\ k \in left' \cup DOMAIN gathered'
               /\ k \in DOMAIN gathered' => gathered'[k].val = db[k].val
    <3>1. k \in left \cup DOMAIN gathered /\ (k \in DOMAIN gathered => gathered[k].val = db[k].val)
      BY <2>4 DEF ScanOK
    <3>2. CASE k \in K
      BY <2>1, <2>2, <2>3, <3>2
    <3>3. CASE k \notin K
      BY <2>1, <2>2, <2>3, <3>1, <3>3
    <3> QED BY <3>2, <3>3
  <2> QED BY <1>0, <2>5 DEF ScanOK
<1> QED BY <1>1, <1>2, <1>3

LEMMA HeldExportOpens ==
  ASSUME RecordInv, HeldOK, ExportOpens
  PROVE  HeldOK'
<1>0. /\ ticks' = ticks /\ loaded' = loaded /\ ticks \in Nat /\ db' = db
      /\ UNCHANGED <<visit, outcome, raised, left, gathered>>
      /\ main.at = "scan" /\ left = {} /\ backup.at # "whole"
  BY DEF ExportOpens, HeldOK, RecordInv, SavedOK
<1> SUFFICES ASSUME Lasting, FlowOK, LastsOK, ValuesHeld, ScanOK
             PROVE  FlowOK' /\ LastsOK' /\ ValuesHeld' /\ ScanOK'
  BY <1>0 DEF HeldOK, Lasting
<1>1. TaskInfo \in DOMAIN gathered
  <2>1. TaskInfo \in DOMAIN db
    BY <1>0 DEF ValuesHeld, TaskHeld, Opened
  <2>2. TaskInfo \notin Lists
    BY KeyKinds, ValueKeys
  <2> QED BY <1>0, <2>1, <2>2 DEF ScanOK
<1>2. main'.at = "write"
  BY <1>1 DEF ExportOpens
<1>3. FlowOK'
  BY <1>0, <1>2 DEF FlowOK, Ended, Program, Over
<1>4. ValuesHeld'
  <2>1. Spared({})
    BY <1>0 DEF Spared, ValueKept
  <2>2. \A i : Opened(i)' /\ Opened(i) /\ ClosedBy(i)
    BY <1>0, <1>2 DEF Opened, ClosedBy, Over
  <2> QED BY <1>0, <2>1, <2>2, ValuesKept
<1>5. LastsOK' /\ ScanOK'
  BY <1>0, <1>2 DEF LastsOK, ScanOK
<1> QED BY <1>3, <1>4, <1>5

LEMMA HeldExportWrites ==
  ASSUME HeldOK, ExportWrites
  PROVE  HeldOK'
<1>1. ticks' \in Nat /\ backup'.at = "whole"
  BY DEF ExportWrites, HeldOK
<1> QED BY <1>1 DEF HeldOK, Lasting

LEMMA HeldCloses ==
  ASSUME HeldOK, Closes
  PROVE  HeldOK'
<1>1. /\ ticks' = ticks /\ loaded' = loaded /\ backup' = backup /\ raised' = raised
      /\ main.at = "close_pool"
  BY DEF Closes, saving
<1>2. ~Lasting
  BY <1>1 DEF HeldOK, FlowOK, Over
<1>3. ~Lasting'
  BY <1>1, <1>2 DEF Lasting
<1> QED BY <1>1, <1>3 DEF HeldOK

(* A tick within the hour ends no key.                                       *)
LEMMA HeldTick ==
  ASSUME HeldOK, Tick
  PROVE  HeldOK'
<1>0. /\ ticks' = ticks + 1 /\ loaded' = loaded /\ backup' = backup /\ ticks \in Nat
      /\ UNCHANGED <<visit, outcome, raised, left, gathered, main>> /\ db' = Elapsed(db)
  BY DEF Tick, HeldOK, saving
<1> SUFFICES ASSUME Lasting, Lasting', FlowOK, LastsOK, ValuesHeld
             PROVE  FlowOK' /\ LastsOK' /\ ValuesHeld' /\ ScanOK'
  BY <1>0, ExpiryAssumption DEF HeldOK, Lasting
<1>1. main.at = "steps"
  BY DEF Tick, FlowOK, Over
<1>2. ASSUME NEW k \in DOMAIN db
      PROVE  /\ k \in DOMAIN db' /\ {"val", "ttl"} \subseteq DOMAIN db'[k]
             /\ db'[k].val = db[k].val /\ db'[k].ttl = db[k].ttl - 1
             /\ db[k].ttl \in Int /\ db[k].ttl >= Hour - ticks
  <2>1. {"val", "ttl"} \subseteq DOMAIN db[k] /\ db[k].ttl \in Int /\ db[k].ttl >= Hour - ticks
    BY DEF LastsOK
  <2>2. db[k].ttl > 1
    BY <1>0, <2>1, ExpiryAssumption DEF Lasting
  <2>3. k \in DOMAIN db' /\ db'[k] = [db[k] EXCEPT !.ttl = db[k].ttl - 1]
    BY <1>0, <2>2 DEF Elapsed
  <2> QED BY <2>1, <2>3
<1>3. DOMAIN db' \subseteq DOMAIN db
  BY <1>0 DEF Elapsed
<1>4. LastsOK'
  <2> SUFFICES ASSUME NEW k \in DOMAIN db'
               PROVE  /\ {"val", "ttl"} \subseteq DOMAIN db'[k] /\ db'[k].ttl \in Int
                      /\ db'[k].ttl >= Hour - ticks'
    BY DEF LastsOK
  <2> QED BY <1>0, <1>2, <1>3, ExpiryAssumption
<1>5. ValuesHeld'
  <2>1. Spared({})
    BY <1>2, <1>3 DEF Spared, ValueKept
  <2>2. \A i : (Opened(i)' <=> Opened(i)) /\ (ClosedBy(i)' <=> ClosedBy(i))
    BY <1>0 DEF Opened, ClosedBy
  <2> QED BY <1>0, <2>1, <2>2, ValuesKept
<1>6. FlowOK' /\ ScanOK'
  BY <1>0, <1>1 DEF FlowOK, ScanOK, Ended, Program
<1> QED BY <1>4, <1>5, <1>6

LEMMA HeldRedisRestarts ==
  ASSUME HeldOK, RedisRestarts
  PROVE  HeldOK'
<1>1. ~loaded' /\ ticks' = ticks
  BY DEF RedisRestarts
<1> QED BY <1>1 DEF HeldOK, Lasting

(* A request is served from the store; or from a backup that is whole.       *)
LEMMA HeldStill ==
  ASSUME HeldOK, UNCHANGED recording
  PROVE  HeldOK'
<1>1. UNCHANGED <<db, main, visit, raised, outcome, left, gathered, ticks, loaded, backup>>
  BY DEF recording, writing, saving
<1>2. Spared({}) /\ LastsKept
  BY <1>1 DEF Spared, ValueKept, LastsKept
<1> QED BY <1>1, <1>2, HeldSame DEF Lasting

LEMMA HeldImports ==
  ASSUME RecordInv, HeldOK, ImportDeletes \/ ImportSets
  PROVE  HeldOK'
<1>1. backup' = backup /\ ticks' = ticks /\ backup.at = "whole"
  BY DEF ImportDeletes, ImportSets, Importing, RecordInv, ImportOK, saving
<1> QED BY <1>1 DEF HeldOK, Lasting

LEMMA HeldReader ==
  ASSUME RecordInv, HeldOK, Reader
  PROVE  HeldOK'
<1>1. CASE ImportDeletes \/ ImportSets
  BY <1>1, HeldImports
<1>2. CASE ~(ImportDeletes \/ ImportSets)
  <2>1. UNCHANGED recording
    BY <1>2 DEF Reader, AsksChunk, AsksValues, AsksRestore, ImportEnds
  <2> QED BY <2>1, HeldStill
<1> QED BY <1>1, <1>2

LEMMA HeldAtFirst ==
  ASSUME Init
  PROVE  HeldOK
<1>1. /\ DOMAIN db = {} /\ ticks = 0 /\ raised = {} /\ main.at = "open" /\ main.pc = 0
      /\ \A v \in Visits : visit[v] = 0
  BY DEF Init, RecordingInit
<1>2. FlowOK /\ LastsOK /\ ScanOK
  BY <1>1 DEF FlowOK, LastsOK, ScanOK
<1>3. ~Opened(1) /\ ~Opened(2) /\ ~Opened(3) /\ ~Opened(5) /\ ~Opened(6) /\ \A i : ~ClosedBy(i)
  BY <1>1 DEF Opened, ClosedBy, Over
<1>4. TaskHeld /\ CountersHeld
  BY <1>1, <1>3 DEF TaskHeld, CountersHeld
<1>5. ASSUME NEW v \in Visits
      PROVE  StatusHeld(v) /\ CaseHeld(v) /\ DetailHeld(v)
  <2>1. StatusHeld(v) /\ CaseHeld(v)
    BY <1>3 DEF StatusHeld, CaseHeld
  <2>2. RecordInv
    BY InitHolds
  <2>3. FirstOf(v, outcome[v]) \in {1, 2}
    BY <2>2, VisitsAre DEF PartsAre
  <2> QED BY <1>1, <2>1, <2>3 DEF DetailHeld
<1>6. ValuesHeld
  BY <1>4, <1>5 DEF ValuesHeld
<1> QED BY <1>1, <1>2, <1>6 DEF HeldOK

LEMMA HeldNext ==
  ASSUME RecordInv, HeldOK, [Next]_vars
  PROVE  HeldOK'
<1>1. CASE Writer
  BY <1>1, HeldMainWrites, HeldMainRaises, HeldStepsEnd, HeldVisitWrites, HeldRaised,
     HeldArrives, HeldExportBegins, HeldExportReads, HeldExportOpens, HeldExportWrites, HeldCloses
     DEF Writer
<1>2. CASE Reader
  BY <1>2, HeldReader
<1>3. CASE Surroundings
  BY <1>3, HeldTick, HeldRedisRestarts DEF Surroundings
<1>4. CASE UNCHANGED vars
  BY <1>4, HeldStill DEF vars
<1> QED BY <1>1, <1>2, <1>3, <1>4 DEF Next

-----------------------------------------------------------------------------
(* What the export has read when it writes the backup.                        *)

LEMMA GatheredIsAwaited ==
  ASSUME RecordInv, FlowOK, ValuesHeld, ScanOK, main.at = "write"
  PROVE  HoldsWhatWasAwaited(gathered)
<1>1. ASSUME NEW k \in DOMAIN db, k \notin Lists
      PROVE  k \in DOMAIN gathered /\ gathered[k].val = db[k].val
  <2>1. left = {}
    BY DEF RecordInv, SavedOK
  <2> QED BY <1>1, <2>1 DEF ScanOK
<1>2. \A v \in Visits : Ended(v)
  BY DEF FlowOK
<1>3. \A i : Opened(i) /\ ClosedBy(i)
  BY DEF Opened, ClosedBy, Over
<1>4. \A k \in {TaskInfo, RecordInfo} : k \in DOMAIN gathered /\ gathered[k].val.status = "end"
  <2>1. /\ TaskInfo \in DOMAIN db /\ db[TaskInfo].val.status = "end"
        /\ RecordInfo \in DOMAIN db /\ db[RecordInfo].val.status = "end"
    BY <1>3 DEF ValuesHeld, TaskHeld
  <2>2. TaskInfo \notin Lists /\ RecordInfo \notin Lists
    BY KeyKinds, ValueKeys
  <2> QED BY <1>1, <2>1, <2>2
<1>5. /\ ChildCases \in DOMAIN gathered
      /\ gathered[ChildCases].val[1] =
           [status |-> "end", done_step_count |-> Ends("success"),
            failed_step_count |-> Ends("error"), skipped_step_count |-> Ends("skipped")]
  <2>1. ChildCases \in DOMAIN db /\ db[ChildCases].val = <<Counters("end")>>
    BY <1>3 DEF ValuesHeld, CountersHeld
  <2>2. ChildCases \in DOMAIN gathered /\ gathered[ChildCases].val = <<Counters("end")>>
    BY <1>1, <2>1, KeyKinds, ValueKeys
  <2>3. gathered[ChildCases].val[1] = Counters("end")
    BY <2>2
  <2>4. ASSUME NEW status
        PROVE  Cardinality(Past(status)) = Ends(status)
    <3>1. \A v \in Visits : visit[v] > BodyOf[v][outcome[v]]
      BY <1>2, VisitsAre DEF Ended
    <3>2. Past(status) = {v \in Visits : StatusOf(outcome[v]) = status}
      BY <3>1 DEF Past
    <3> QED BY <3>2 DEF Ends
  <2> QED BY <2>2, <2>3, <2>4 DEF Counters
<1>6. ASSUME NEW v \in Visits, Tracked(v)
      PROVE  /\ Status(StepOf[v]) \in DOMAIN gathered /\ CaseStatus \in DOMAIN gathered
             /\ LET tracked == {u \in Visits : Tracked(u) /\ StepOf[u] = StepOf[v]}
                    shown == gathered[Status(StepOf[v])].val
                IN /\ "start" \in DOMAIN shown
                   /\ \E u \in tracked : shown.end = u /\ shown.status = StatusOf(outcome[u])
                   /\ \E u \in tracked : gathered[CaseStatus].val[StepOf[v]] = StatusOf(outcome[u])
  <2> DEFINE k == Status(StepOf[v])
  <2>1. StatusHeld(v) /\ CaseHeld(v)
    BY <1>6 DEF ValuesHeld
  <2>2. k \notin Lists /\ CaseStatus \notin Lists
    BY KeyKinds, ValueKeys
  <2>3. visit[v] > 0 /\ Ended(v)
    BY <1>2, VisitsAre DEF Ended
  <2>4. /\ k \in DOMAIN db /\ "start" \in DOMAIN db[k].val
        /\ \E u \in Peers(v) : db[k].val.end = u /\ db[k].val.status = StatusOf(outcome[u])
    BY <1>3, <2>1, <2>3 DEF StatusHeld
  <2>5. \A u \in Peers(v) : ToldOf(u)
    <3> SUFFICES ASSUME NEW u \in Peers(v)
                 PROVE  ToldOf(u)
      OBVIOUS
    <3>1. u \in Visits /\ Tracked(u)
      BY DEF Peers
    <3>2. visit[u] = BodyOf[u][outcome[u]] + 3 /\ BodyOf[u][outcome[u]] \in Nat
      BY <1>2, <3>1, VisitsAre DEF Ended
    <3> QED BY <3>2 DEF ToldOf
  <2>6. /\ CaseStatus \in DOMAIN db
        /\ \E u \in Peers(v) : db[CaseStatus].val[StepOf[v]] = StatusOf(outcome[u])
    BY <1>3, <2>1, <2>5 DEF CaseHeld
  <2>7. /\ k \in DOMAIN gathered /\ gathered[k].val = db[k].val
        /\ CaseStatus \in DOMAIN gathered /\ gathered[CaseStatus].val = db[CaseStatus].val
    BY <1>1, <2>2, <2>4, <2>6
  <2> QED BY <2>4, <2>6, <2>7 DEF Peers
<1>7. ASSUME NEW v \in Visits, KindOf[v] = "interface", ~Skipped(outcome[v])
      PROVE  Detail(v) \in DOMAIN gathered
  <2>1. Ended(v) /\ DetailHeld(v)
    BY <1>2 DEF ValuesHeld
  <2>2. visit[v] > FirstOf(v, outcome[v])
    BY <2>1, VisitsAre DEF Ended, PartsAre
  <2>3. Detail(v) \notin Lists
    BY KeyKinds, ValueKeys
  <2> QED BY <1>1, <1>7, <2>1, <2>2, <2>3 DEF DetailHeld
<1> QED BY <1>4, <1>5, <1>6, <1>7 DEF HoldsWhatWasAwaited

(* The backup is written once, and is not touched after that.                *)
LEMMA SavedStep ==
  ASSUME RecordInv, HeldOK, AwaitedIsSaved, [Next]_vars
  PROVE  AwaitedIsSaved'
<1> SUFFICES ASSUME backup'.at = "whole", loaded', raised' = {}, backup'.ticks < Hour
             PROVE  HoldsWhatWasAwaited(backup.keys)'
  BY DEF AwaitedIsSaved
<1>1. CASE ExportWrites
  <2>1. /\ backup' = [at |-> "whole", keys |-> gathered, ticks |-> ticks]
        /\ main.at = "write" /\ UNCHANGED <<outcome, loaded, raised>>
    BY <1>1 DEF ExportWrites
  <2>2. Lasting
    BY <2>1 DEF Lasting, RecordInv, SavedOK
  <2>3. HoldsWhatWasAwaited(gathered)
    BY <2>1, <2>2, GatheredIsAwaited DEF HeldOK
  <2>4. backup'.keys = gathered
    BY <2>1
  <2>5. \A saved : HoldsWhatWasAwaited(saved)' <=> HoldsWhatWasAwaited(saved)
    BY <2>1 DEF HoldsWhatWasAwaited, Ends
  <2> QED BY <2>3, <2>4, <2>5
<1>2. CASE ~ExportWrites
  <2>1. /\ outcome' = outcome /\ (loaded' => loaded) /\ (raised' = {} => raised = {})
        /\ backup' = backup \/ backup' = [at |-> "torn"]
    <3>1. CASE Writer
      BY <1>2, <3>1 DEF Writer, MainWrites, MainRaises, StepsEnd, VisitWrites, VisitRaises,
         ChildrenUnmade, Arrives,
         ExportBegins, ExportReads, ExportOpens, Closes, writing, saving
    <3>2. CASE Reader
      BY <3>2 DEF Reader, AsksChunk, AsksValues, AsksRestore, ImportDeletes, ImportSets,
         ImportEnds, recording, writing, saving
    <3>3. CASE Surroundings
      BY <3>3 DEF Surroundings, Tick, RedisRestarts, saving
    <3>4. CASE UNCHANGED vars
      BY <3>4 DEF vars, recording, writing, saving
    <3> QED BY <3>1, <3>2, <3>3, <3>4 DEF Next
  <2>2. backup' = backup
    BY <2>1
  <2>3. HoldsWhatWasAwaited(backup.keys)
    BY <2>1, <2>2 DEF AwaitedIsSaved
  <2> QED BY <2>1, <2>2, <2>3 DEF HoldsWhatWasAwaited, Ends
<1> QED BY <1>1, <1>2

(* A backup that was written within the hour that update_fields.lua leaves a *)
(* key, by a redis that has had its scripts all along, of a task none of     *)
(* whose steps an exception of a write or of make_child_node has ended       *)
(* (step_exec.py), holds everything the coroutines of the task waited to     *)
(* write: every step ended with the status of one of its executions, which   *)
(* may run concurrently, the counters of the child case, the details of      *)
(* every interface, and the end of the task; whatever the order of the       *)
(* visits, and of the export among the messages nobody waits for.            *)
THEOREM AwaitedIsSavedAlways == Spec => []AwaitedIsSaved
<1> DEFINE IInv == RecordInv /\ HeldOK /\ AwaitedIsSaved
<1>1. Init => IInv
  <2>1. Init => backup.at # "whole"
    BY DEF Init, RecordingInit
  <2> QED BY <2>1, InitHolds, HeldAtFirst DEF AwaitedIsSaved
<1>2. IInv /\ [Next]_vars => IInv'
  BY NextStep, HeldNext, SavedStep DEF Keeps
<1> QED BY <1>1, <1>2, PTL DEF Spec
=============================================================================
