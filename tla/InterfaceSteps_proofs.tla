----------------------- MODULE InterfaceSteps_proofs -----------------------
(***************************************************************************)
(* Proofs about InterfaceSteps, for every number of parents, every order   *)
(* of interfaces and assertions under each of them, and every script.      *)
(***************************************************************************)
EXTENDS InterfaceSteps, TLAPS

-----------------------------------------------------------------------------
(* The inductive invariant.                                                  *)

Places == {"idle", "pre", "start", "connected", "redirected", "finish", "stored",
           "exception", "after", "asked", "done"}
Times == {"start_time_at", "request_start", "conn_create_start_at", "conn_create_end_at",
          "dns_start_at"}
Infos ==
  [by : [Parts -> Steps \cup {"cache"}], prefixes : Nat,
   body : {"nothing", "text", "tree", "fields", "form", "refused"}]
Requests ==
  [at : Places, info : Infos, urlCovered : BOOLEAN, covers : SUBSET Parts,
   todo : Seq(Operations), times : SUBSET Times, hasRaise : BOOLEAN,
   answered : {"not sent", "ok", "failed"}]

TypeOK ==
  /\ cache \in [DOMAIN BodyTypeOf -> Infos]
  /\ run \in [Steps -> Requests]
  /\ last \in [Parents -> Steps \cup {NoStep}]
  /\ ok \in [Parents -> BOOLEAN]
  /\ DOMAIN details \subseteq Steps /\ DOMAIN judged \subseteq Steps

(* Nobody writes to the interfaces of the cache.                             *)
CacheKept ==
  \A f \in DOMAIN BodyTypeOf :
    /\ \A part \in Parts : cache[f].by[part] = "cache"
    /\ cache[f].prefixes = 0

(* What the script of s has covered of its copy so far, and the prefix.      *)
Covers(s, info, urlCovered, covers) ==
  /\ \A part \in Parts : info.by[part] = IF part \in covers THEN s ELSE "cache"
  /\ "url" \in covers => urlCovered
  /\ info.prefixes = IF urlCovered /\ "url" \notin covers THEN 1 ELSE 0

Own(s, r) == Covers(s, r.info, r.urlCovered, r.covers)

(* The request that leaves: as SentIsOwn has it.                             *)
Sends(s, info, covers) ==
  /\ \A part \in Parts :
       info.by[part] =
         IF part \in covers \ (IF TypeOf(s) = "none" THEN {"body"} ELSE {})
           THEN s ELSE "cache"
  /\ info.prefixes = IF "url" \in covers THEN 0 ELSE 1

Built(s, r) == Sends(s, r.info, r.covers)

(* One request: which times its hooks have noted, how it was answered.       *)
RequestInv(s, r) ==
  /\ s \notin Senders => r.at \in {"idle", "asked", "done"} /\ r.answered = "not sent"
  /\ r.at = "idle" => r.covers = {} /\ ~r.urlCovered
  /\ r.at \in {"idle", "pre", "asked"} => r.times = {}
  /\ r.at = "pre" => Own(s, r)
  /\ (s \in Senders /\ r.times # {}) => Built(s, r)
  /\ r.at \in {"start", "connected", "redirected"} => "start_time_at" \in r.times
  /\ r.at \in {"connected", "redirected"} =>
       {"request_start", "conn_create_start_at", "conn_create_end_at"} \subseteq r.times
  /\ r.at \in {"idle", "pre", "start", "connected", "redirected", "finish", "asked"} =>
       r.answered = "not sent" /\ ~r.hasRaise
  /\ r.at \in {"stored", "after"} => r.answered = "ok"
  /\ r.at = "exception" => r.answered = IF r.hasRaise THEN "ok" ELSE "failed"

RequestsInv == \A s \in Steps : RequestInv(s, run[s])

(* An answer is in redis from the moment the step knows of it.               *)
StoredFirst ==
  \A s \in Steps : run[s].answered = "ok" => s \in DOMAIN details /\ details[s] = "response"

OneAtATime ==
  \A s \in Steps : ~At(s, "idle") => \A t \in Before(s) : At(t, "done")

(* A step whose request the variables of its parent tell of.                 *)
Told(r) ==
  /\ r.answered # "not sent"
  /\ r.at \in {"after", "done"} \/ (r.at = "exception" /\ r.hasRaise)

Settled(s) == Told(run[s])

Under(p) == {s \in Steps : ParentOf(s) = p}

Latest(p, t) ==
  /\ t \in Under(p) /\ Settled(t)
  /\ \A u \in Under(p) : Settled(u) => PlaceOf(u) <= PlaceOf(t)

(* interface_last_node and its result: the last that was answered, and       *)
(* whether it is the last that was sent.                                     *)
LastInv(p) ==
  /\ last[p] = NoStep => \A u \in Under(p) : Settled(u) => run[u].answered = "failed"
  /\ last[p] # NoStep =>
       last[p] \in Under(p) /\ Settled(last[p]) /\ run[last[p]].answered = "ok"
  /\ ok[p] => last[p] # NoStep /\ Latest(p, last[p])
  /\ ~ok[p] /\ last[p] # NoStep =>
       \E f \in Steps : Latest(p, f) /\ run[f].answered = "failed"

LastsInv == \A p \in Parents : LastInv(p)

(* The last request before assertion a, whose steps are all over.            *)
LastBefore(a, t) ==
  /\ t \in Before(a) /\ Sent(t)
  /\ \A u \in Before(a) : Sent(u) => PlaceOf(u) <= PlaceOf(t)

RightOf(a, what) ==
  \/ what = "none" /\ \A t \in Before(a) : run[t].answered # "ok"
  \/ /\ what = "failed"
     /\ \E t \in Before(a) : run[t].answered = "ok"
     /\ \E f \in Steps : LastBefore(a, f) /\ run[f].answered = "failed"
  \/ what \in Steps /\ LastBefore(a, what) /\ run[what].answered = "ok"

JudgedInv ==
  \A a \in DOMAIN judged : ~At(a, "idle") /\ RightOf(a, judged[a])

IInv ==
  /\ TypeOK /\ CacheKept /\ RequestsInv /\ StoredFirst
  /\ OneAtATime /\ LastsInv /\ JudgedInv

-----------------------------------------------------------------------------
(* The order of the steps under a parent.                                    *)

LEMMA Placed ==
  ASSUME NEW p \in Parents, NEW i \in DOMAIN Queue[p]
  PROVE  /\ Queue[p][i] \in Steps
         /\ ParentOf(Queue[p][i]) = p /\ PlaceOf(Queue[p][i]) = i
<1>1. Queue[p] \in Seq(Steps) /\ DOMAIN Queue[p] = 1..Len(Queue[p])
  BY QueueAssumption
<1>2. ParentOf(Queue[p][i]) = p
  BY QueueAssumption DEF ParentOf
<1>3. PlaceOf(Queue[p][i]) = i
  BY <1>2, QueueAssumption DEF PlaceOf
<1> QED BY <1>1, <1>2, <1>3

(* A step has a place, its own, and those before it are those at a smaller.  *)
LEMMA Order ==
  ASSUME NEW s \in Steps
  PROVE  /\ ParentOf(s) \in Parents /\ PlaceOf(s) \in Nat
         /\ Before(s) = {t \in Steps : ParentOf(t) = ParentOf(s) /\ PlaceOf(t) < PlaceOf(s)}
         /\ \A t \in Steps : ParentOf(t) = ParentOf(s) /\ PlaceOf(t) = PlaceOf(s) => t = s
<1>0. PICK p \in Parents : \E i \in DOMAIN Queue[p] : Queue[p][i] = s
  BY QueueAssumption
<1>1. PICK i \in DOMAIN Queue[p] : Queue[p][i] = s
  BY <1>0
<1>2. ParentOf(s) = p /\ PlaceOf(s) = i
  BY <1>1, Placed
<1>3. DOMAIN Queue[p] = 1..Len(Queue[p]) /\ Len(Queue[p]) \in Nat /\ i \in Nat
  BY <1>1, QueueAssumption
<1>4. ASSUME NEW t \in Steps, ParentOf(t) = p
      PROVE  PlaceOf(t) \in DOMAIN Queue[p] /\ Queue[p][PlaceOf(t)] = t
  <2>1. PICK q \in Parents : \E j \in DOMAIN Queue[q] : Queue[q][j] = t
    BY QueueAssumption
  <2> QED BY <2>1, <1>4, Placed
<1>5. Before(s) = {Queue[p][j] : j \in 1..(i - 1)}
  BY <1>2 DEF Before
<1>6. ASSUME NEW j \in 1..(i - 1)
      PROVE  /\ Queue[p][j] \in Steps
             /\ ParentOf(Queue[p][j]) = p /\ PlaceOf(Queue[p][j]) < i
  BY <1>1, <1>3, Placed
<1>7. ASSUME NEW t \in Steps, ParentOf(t) = p, PlaceOf(t) < i
      PROVE  t \in {Queue[p][j] : j \in 1..(i - 1)}
  BY <1>3, <1>4, <1>7
<1> QED BY <1>1, <1>2, <1>3, <1>4, <1>5, <1>6, <1>7

-----------------------------------------------------------------------------
(* What a step of s may do to the others: nothing.                           *)

(* s, which is not over, whose turn has come, becomes the request r.         *)
Moves(s, r) ==
  /\ s \in Steps /\ r \in Requests /\ r.at # "idle"
  /\ run' = [run EXCEPT ![s] = r]
  /\ ~At(s, "done") /\ \A t \in Before(s) : At(t, "done")

LEMMA Moved ==
  ASSUME IInv, NEW s, NEW r, Moves(s, r)
  PROVE  /\ run' \in [Steps -> Requests] /\ run'[s] = r
         /\ \A t \in Steps \ {s} : run'[t] = run[t]
         /\ \A u \in Under(ParentOf(s)) : ~At(u, "idle") => u = s \/ u \in Before(s)
         /\ OneAtATime'
<1>1. run' \in [Steps -> Requests] /\ run'[s] = r /\ \A t \in Steps \ {s} : run'[t] = run[t]
  BY DEF IInv, TypeOK, Moves
<1>2. ASSUME NEW u \in Under(ParentOf(s)), ~At(u, "idle"), u # s, u \notin Before(s)
      PROVE  FALSE
  <2>1. s \in Before(u)
    BY <1>2, Order DEF Moves, Under
  <2> QED BY <2>1, <1>2 DEF IInv, OneAtATime, Moves, Under
<1>3. ASSUME NEW u \in Steps, ~At(u, "idle")', NEW t \in Before(u)
      PROVE  At(t, "done")'
  <2>1. t \in Steps /\ s \notin Before(s)
    BY Order DEF Moves
  <2>2. CASE u = s
    BY <1>1, <1>3, <2>1, <2>2 DEF Moves, At
  <2>3. CASE u # s
    <3>1. At(t, "done")
      BY <1>1, <1>3, <2>3 DEF IInv, OneAtATime, At
    <3> QED BY <1>1, <2>1, <3>1 DEF Moves, At
  <2> QED BY <2>2, <2>3
<1> QED BY <1>1, <1>2, <1>3 DEF OneAtATime

(* An assertion that has read looks back on steps that are over.             *)
LEMMA JudgedKept ==
  ASSUME IInv, NEW s, NEW r, Moves(s, r),
         NEW a \in Steps, NEW what, ~At(a, "idle"), RightOf(a, what)
  PROVE  ~At(a, "idle")' /\ RightOf(a, what)'
<1>1. \A t \in Before(a) : t \in Steps /\ t # s /\ run'[t] = run[t]
  BY Moved, Order DEF IInv, OneAtATime, Moves, At
<1>2. ~At(a, "idle")'
  BY Moved DEF At, Moves
<1>3. ASSUME NEW f, LastBefore(a, f)
      PROVE  LastBefore(a, f)' /\ run'[f] = run[f]
  BY <1>1, <1>3 DEF LastBefore, Sent
<1> QED BY <1>1, <1>2, <1>3 DEF RightOf

LEMMA JudgedStays ==
  ASSUME IInv, NEW s, NEW r, Moves(s, r), UNCHANGED judged
  PROVE  JudgedInv'
<1>1. \A a \in DOMAIN judged : a \in Steps /\ ~At(a, "idle") /\ RightOf(a, judged[a])
  BY DEF IInv, TypeOK, JudgedInv
<1>2. ASSUME NEW a \in DOMAIN judged, NEW what, what = judged[a]
      PROVE  ~At(a, "idle")' /\ RightOf(a, what)'
  BY <1>1, <1>2, JudgedKept
<1> QED BY <1>2 DEF JudgedInv

(* What the parents tell of stays true as long as they tell the same, and s  *)
(* does not come to be, or cease to be, one of those they tell of.           *)
LEMMA LastKept ==
  ASSUME IInv, NEW s, NEW r, Moves(s, r), NEW p \in Parents,
         last'[p] = last[p], ok'[p] = ok[p],
         \/ p # ParentOf(s)
         \/ Told(r) = Told(run[s]) /\ (Told(r) => r.answered = run[s].answered)
  PROVE  LastInv(p)'
<1>1. \A u \in Under(p) : /\ Settled(u)' = Settled(u)
                          /\ Settled(u) => run'[u].answered = run[u].answered
  BY Moved DEF Under, Settled, Moves
<1>2. LastInv(p)
  BY DEF IInv, LastsInv
<1>3. \A t : Latest(p, t)' = Latest(p, t)
  BY <1>1 DEF Latest
<1>4. \A t \in Steps : Latest(p, t) => t \in Under(p) /\ Settled(t)
  BY DEF Latest
<1> QED BY <1>1, <1>2, <1>3, <1>4 DEF LastInv

(* The last of a parent to move is the last it tells of.                     *)
LEMMA MovedIsLatest ==
  ASSUME IInv, NEW s, NEW r, Moves(s, r), Told(r)
  PROVE  Latest(ParentOf(s), s)'
<1>1. s \in Under(ParentOf(s)) /\ Settled(s)'
  BY Moved DEF Under, Settled, Moves
<1>2. ASSUME NEW u \in Under(ParentOf(s)), Settled(u)'
      PROVE  PlaceOf(u) <= PlaceOf(s)
  <2>1. CASE u = s
    BY <2>1, Order DEF Moves
  <2>2. CASE u # s
    <3>1. run'[u] = run[u]
      BY <2>2, Moved DEF Under
    <3>2. ~At(u, "idle")
      BY <3>1, <1>2 DEF Settled, Told, At
    <3>3. u \in Before(s)
      BY <3>2, <2>2, Moved
    <3> QED BY <3>3, Order DEF Moves
  <2> QED BY <2>1, <2>2
<1> QED BY <1>1, <1>2 DEF Latest

-----------------------------------------------------------------------------
(* The operations on a request.                                              *)

LEMMA GeneratedType ==
  ASSUME NEW type \in BodyTypes, NEW body \in {"nothing", "text", "tree", "fields", "form", "refused"}
  PROVE  /\ Generated(type, body) \in {"nothing", "text", "form", "refused"}
         /\ Generated(type, body) = "nothing" <=> type = "none"
BY DEF Generated, BodyTypes

(* Whatever a script calls, the request stays a request whose covers are     *)
(* those of its step, with the prefix in its url at most once.               *)
LEMMA OperateOwn ==
  ASSUME NEW s \in Senders, NEW op, NEW r \in Requests, Own(s, r)
  PROVE  /\ Operate(s, op, r) \in Requests /\ Own(s, Operate(s, op, r))
         /\ Operate(s, op, r).at = r.at /\ Operate(s, op, r).times = r.times
         /\ Operate(s, op, r).answered = r.answered /\ Operate(s, op, r).hasRaise = r.hasRaise
         /\ Operate(s, op, r).todo = r.todo
<1> DEFINE q == Operate(s, op, r)
<1>1. s \in Steps /\ TypeOf(s) \in BodyTypes
  BY InterfaceAssumption DEF Senders, TypeOf
<1>2. r.info \in Infos /\ r.urlCovered \in BOOLEAN /\ r.covers \in SUBSET Parts
  BY DEF Requests
<1>3. CASE op = "generate_body" \/ (op = "update_body_file" /\ TypeOf(s) = "form-data")
  <2> DEFINE info == [r.info EXCEPT !.body = Generated(TypeOf(s), @)]
  <2>1. info \in Infos
    BY <1>1, <1>2, GeneratedType DEF Infos, Covered, Parts
  <2>2. q = [r EXCEPT !.info = info]
    BY <1>3 DEF Operate
  <2>3. Covers(s, info, r.urlCovered, r.covers)
    BY <1>2, <1>3 DEF Own, Covers, Infos, Covered, Parts
  <2> HIDE DEF q, info
  <2>4. /\ q \in Requests /\ q.info = info /\ q.urlCovered = r.urlCovered /\ q.covers = r.covers
        /\ q.at = r.at /\ q.times = r.times /\ q.todo = r.todo
        /\ q.answered = r.answered /\ q.hasRaise = r.hasRaise
    BY <1>2, <2>1, <2>2 DEF Requests
  <2> QED BY <2>3, <2>4 DEF q, Own
<1>4. CASE op \in {"cover_body_text", "cover_body_form"}
  <2> DEFINE info == [Covered(s, r.info, "body") EXCEPT
                        !.body = IF op = "cover_body_text" THEN "text" ELSE "form"]
             covers == r.covers \cup {"body"}
  <2>1. info \in Infos /\ covers \in SUBSET Parts
    BY <1>1, <1>2 DEF Infos, Covered, Parts
  <2>2. q = [r EXCEPT !.covers = covers, !.info = info]
    BY <1>4 DEF Operate
  <2>3. Covers(s, info, r.urlCovered, covers)
    BY <1>2, <1>4 DEF Own, Covers, Infos, Covered, Parts
  <2> HIDE DEF q, info, covers
  <2>4. /\ q \in Requests /\ q.info = info /\ q.urlCovered = r.urlCovered /\ q.covers = covers
        /\ q.at = r.at /\ q.times = r.times /\ q.todo = r.todo
        /\ q.answered = r.answered /\ q.hasRaise = r.hasRaise
    BY <1>2, <2>1, <2>2 DEF Requests
  <2> QED BY <2>3, <2>4 DEF q, Own
<1>5. CASE op = "cover_body_none"
  <2> DEFINE info == [r.info EXCEPT !.body = "refused"]
  <2>1. info \in Infos
    BY <1>1, <1>2 DEF Infos, Covered, Parts
  <2>2. q = [r EXCEPT !.info = info]
    BY <1>5 DEF Operate
  <2>3. Covers(s, info, r.urlCovered, r.covers)
    BY <1>2, <1>5 DEF Own, Covers, Infos, Covered, Parts
  <2> HIDE DEF q, info
  <2>4. /\ q \in Requests /\ q.info = info /\ q.urlCovered = r.urlCovered /\ q.covers = r.covers
        /\ q.at = r.at /\ q.times = r.times /\ q.todo = r.todo
        /\ q.answered = r.answered /\ q.hasRaise = r.hasRaise
    BY <1>2, <2>1, <2>2 DEF Requests
  <2> QED BY <2>3, <2>4 DEF q, Own
<1>6. CASE op = "generate_url" /\ ~r.urlCovered
  <2> DEFINE info == [r.info EXCEPT !.prefixes = @ + 1]
  <2>1. info \in Infos
    BY <1>1, <1>2 DEF Infos, Covered, Parts
  <2>2. q = [r EXCEPT !.urlCovered = TRUE, !.info = info]
    BY <1>6 DEF Operate
  <2>3. Covers(s, info, TRUE, r.covers)
    BY <1>2, <1>6 DEF Own, Covers, Infos, Covered, Parts
  <2> HIDE DEF q, info
  <2>4. /\ q \in Requests /\ q.info = info /\ q.urlCovered = TRUE /\ q.covers = r.covers
        /\ q.at = r.at /\ q.times = r.times /\ q.todo = r.todo
        /\ q.answered = r.answered /\ q.hasRaise = r.hasRaise
    BY <1>2, <2>1, <2>2 DEF Requests
  <2> QED BY <2>3, <2>4 DEF q, Own
<1>7. CASE op = "cover_url"
  <2> DEFINE info == [Covered(s, r.info, "url") EXCEPT !.prefixes = 0]
             covers == r.covers \cup {"url"}
  <2>1. info \in Infos /\ covers \in SUBSET Parts
    BY <1>1, <1>2 DEF Infos, Covered, Parts
  <2>2. q = [r EXCEPT !.urlCovered = TRUE, !.covers = covers, !.info = info]
    BY <1>7 DEF Operate
  <2>3. Covers(s, info, TRUE, covers)
    BY <1>2, <1>7 DEF Own, Covers, Infos, Covered, Parts
  <2> HIDE DEF q, info, covers
  <2>4. /\ q \in Requests /\ q.info = info /\ q.urlCovered = TRUE /\ q.covers = covers
        /\ q.at = r.at /\ q.times = r.times /\ q.todo = r.todo
        /\ q.answered = r.answered /\ q.hasRaise = r.hasRaise
    BY <1>2, <2>1, <2>2 DEF Requests
  <2> QED BY <2>3, <2>4 DEF q, Own
<1>8. CASE op \in {"cover_params", "cover_headers"}
  <2> DEFINE part == IF op = "cover_params" THEN "params" ELSE "headers"
             info == Covered(s, r.info, part)
             covers == r.covers \cup {part}
  <2>1. info \in Infos /\ covers \in SUBSET Parts
    BY <1>1, <1>2 DEF Infos, Covered, Parts
  <2>2. q = [r EXCEPT !.covers = covers, !.info = info]
    BY <1>8 DEF Operate
  <2>3. Covers(s, info, r.urlCovered, covers)
    BY <1>2, <1>8 DEF Own, Covers, Infos, Covered, Parts
  <2> HIDE DEF q, info, part, covers
  <2>4. /\ q \in Requests /\ q.info = info /\ q.urlCovered = r.urlCovered /\ q.covers = covers
        /\ q.at = r.at /\ q.times = r.times /\ q.todo = r.todo
        /\ q.answered = r.answered /\ q.hasRaise = r.hasRaise
    BY <1>2, <2>1, <2>2 DEF Requests
  <2> QED BY <2>3, <2>4 DEF q, Own
<1>9. CASE q = r
  BY <1>9
<1> QED BY <1>3, <1>4, <1>5, <1>6, <1>7, <1>8, <1>9 DEF Operate
-----------------------------------------------------------------------------
(* The hooks of a request.                                                   *)

Hooks == {"request_start", "conn_create_start", "dns_start", "dns_end", "conn_create_end",
          "chunk_sent", "chunk_received", "redirect", "request_end"}

(* Hooks that run one after another: first a, then b.                        *)
LEMMA HooksInTurn ==
  ASSUME NEW times \in SUBSET Times, NEW a \in Seq(Hooks), NEW b \in Seq(Hooks)
  PROVE  LET then == Known(times, a, Len(a))
         IN  /\ a \o b \in Seq(Hooks) /\ then \in SUBSET Times /\ times \subseteq then
             /\ Known(times, a \o b, Len(a \o b)) = Known(then, b, Len(b))
             /\ HooksRaise(times, a \o b) <=> HooksRaise(times, a) \/ HooksRaise(then, b)
<1> DEFINE then == Known(times, a, Len(a))
<1>1. /\ Len(a) \in Nat /\ Len(b) \in Nat
      /\ Len(a \o b) = Len(a) + Len(b) /\ a \o b \in Seq(Hooks)
      /\ DOMAIN a = 1..Len(a) /\ DOMAIN b = 1..Len(b) /\ DOMAIN (a \o b) = 1..(Len(a) + Len(b))
      /\ \A i \in 1..Len(a) : (a \o b)[i] = a[i]
      /\ \A i \in 1..Len(b) : (a \o b)[Len(a) + i] = b[i]
  OBVIOUS
<1>2. ASSUME NEW i \in 0..Len(a)
      PROVE  Known(times, a \o b, i) = Known(times, a, i)
  BY <1>1 DEF Known
<1>3. ASSUME NEW i \in 0..Len(b)
      PROVE  Known(times, a \o b, Len(a) + i) = Known(then, b, i)
  <2>1. ASSUME NEW x, x \in Known(times, a \o b, Len(a) + i)
        PROVE  x \in Known(then, b, i)
    <3>1. ASSUME NEW j \in 1..(Len(a) + i), x \in Notes((a \o b)[j])
          PROVE  x \in Known(then, b, i)
      <4>1. CASE j <= Len(a)
        BY <1>1, <3>1, <4>1 DEF Known
      <4>2. CASE j > Len(a)
        <5>1. j - Len(a) \in 1..i /\ (a \o b)[j] = b[j - Len(a)]
          BY <1>1, <4>2
        <5> QED BY <3>1, <5>1 DEF Known
      <4> QED BY <1>1, <4>1, <4>2
    <3>2. CASE x \in times
      BY <3>2 DEF Known
    <3> QED BY <2>1, <3>1, <3>2 DEF Known
  <2>2. ASSUME NEW x, x \in Known(then, b, i)
        PROVE  x \in Known(times, a \o b, Len(a) + i)
    <3>1. CASE x \in times
      BY <3>1 DEF Known
    <3>2. ASSUME NEW j \in 1..Len(a), x \in Notes(a[j])
          PROVE  x \in Known(times, a \o b, Len(a) + i)
      <4>1. j \in 1..(Len(a) + i) /\ (a \o b)[j] = a[j]
        BY <1>1
      <4> QED BY <3>2, <4>1 DEF Known
    <3>3. ASSUME NEW j \in 1..i, x \in Notes(b[j])
          PROVE  x \in Known(times, a \o b, Len(a) + i)
      <4>1. Len(a) + j \in 1..(Len(a) + i) /\ (a \o b)[Len(a) + j] = b[j]
        BY <1>1
      <4> QED BY <3>3, <4>1 DEF Known
    <3> QED BY <2>2, <3>1, <3>2, <3>3 DEF Known
  <2> QED BY <2>1, <2>2
<1>4. then \in SUBSET Times /\ times \subseteq then
  BY DEF Known, Notes, Times
<1>5. Known(times, a \o b, Len(a \o b)) = Known(then, b, Len(b))
  BY <1>1, <1>3
<1>6. HooksRaise(times, a \o b) => HooksRaise(times, a) \/ HooksRaise(then, b)
  <2> SUFFICES ASSUME NEW i \in 1..(Len(a) + Len(b)),
                      ~(Reads((a \o b)[i]) \subseteq Known(times, a \o b, i - 1))
               PROVE  HooksRaise(times, a) \/ HooksRaise(then, b)
    BY <1>1 DEF HooksRaise
  <2>1. CASE i <= Len(a)
    <3>1. i - 1 \in 0..Len(a) /\ i \in 1..Len(a)
      BY <2>1
    <3> QED BY <1>1, <1>2, <3>1 DEF HooksRaise
  <2>2. CASE i > Len(a)
    <3>1. /\ i - Len(a) \in 1..Len(b) /\ (i - Len(a)) - 1 \in 0..Len(b)
          /\ i = Len(a) + (i - Len(a)) /\ i - 1 = Len(a) + ((i - Len(a)) - 1)
      BY <1>1, <2>2
    <3>2. Known(times, a \o b, i - 1) = Known(then, b, (i - Len(a)) - 1)
      BY <1>3, <3>1
    <3>3. (a \o b)[i] = b[i - Len(a)]
      BY <1>1, <3>1
    <3> QED BY <1>1, <3>1, <3>2, <3>3 DEF HooksRaise
  <2> QED BY <1>1, <2>1, <2>2
<1>7. ASSUME HooksRaise(times, a)
      PROVE  HooksRaise(times, a \o b)
  <2>1. PICK i \in 1..Len(a) : ~(Reads(a[i]) \subseteq Known(times, a, i - 1))
    BY <1>1, <1>7 DEF HooksRaise
  <2>2. i - 1 \in 0..Len(a) /\ i \in 1..(Len(a) + Len(b)) /\ (a \o b)[i] = a[i]
    BY <1>1
  <2> QED BY <1>1, <1>2, <2>1, <2>2 DEF HooksRaise
<1>8. ASSUME HooksRaise(then, b)
      PROVE  HooksRaise(times, a \o b)
  <2>1. PICK i \in 1..Len(b) : ~(Reads(b[i]) \subseteq Known(then, b, i - 1))
    BY <1>1, <1>8 DEF HooksRaise
  <2>2. /\ i - 1 \in 0..Len(b) /\ Len(a) + i \in 1..(Len(a) + Len(b))
        /\ (a \o b)[Len(a) + i] = b[i] /\ (Len(a) + i) - 1 = Len(a) + (i - 1)
    BY <1>1
  <2> QED BY <1>1, <1>3, <2>1, <2>2 DEF HooksRaise
<1> QED BY <1>1, <1>4, <1>5, <1>6, <1>7, <1>8

(* One hook.                                                                 *)
LEMMA OneHook ==
  ASSUME NEW times \in SUBSET Times, NEW hook \in Hooks
  PROVE  /\ <<hook>> \in Seq(Hooks)
         /\ HooksRaise(times, <<hook>>) <=> ~(Reads(hook) \subseteq times)
         /\ Known(times, <<hook>>, Len(<<hook>>)) = times \cup Notes(hook)
<1> DEFINE hooks == <<hook>>
<1>1. hooks \in Seq(Hooks)
  OBVIOUS
<1>2. Len(hooks) = 1
  OBVIOUS
<1>3. hooks[1] = hook
  OBVIOUS
<1> HIDE DEF hooks
<1>4. DOMAIN hooks = {1}
  BY <1>1, <1>2
<1>5. Known(times, hooks, 1 - 1) = times
  BY DEF Known
<1>6. Known(times, hooks, 1) = times \cup Notes(hook)
  <2>1. 1..1 = {1}
    OBVIOUS
  <2> QED BY <1>3, <2>1 DEF Known
<1>7. HooksRaise(times, hooks) <=> ~(Reads(hooks[1]) \subseteq Known(times, hooks, 1 - 1))
  BY <1>4 DEF HooksRaise
<1>8. HooksRaise(times, hooks) <=> ~(Reads(hook) \subseteq times)
  BY <1>3, <1>5, <1>7
<1> QED BY <1>1, <1>2, <1>6, <1>8 DEF hooks

(* Hooks that find all the times they read, and what is known after them.    *)
Fine(times, hooks, then) ==
  /\ hooks \in Seq(Hooks) /\ then \in SUBSET Times
  /\ ~HooksRaise(times, hooks) /\ Known(times, hooks, Len(hooks)) = then

LEMMA FineInTurn ==
  ASSUME NEW times \in SUBSET Times, NEW a, NEW b, NEW then, NEW finally,
         Fine(times, a, then), Fine(then, b, finally)
  PROVE  Fine(times, a \o b, finally)
BY HooksInTurn DEF Fine

LEMMA FineHook ==
  ASSUME NEW times \in SUBSET Times, NEW hook \in Hooks, Reads(hook) \subseteq times
  PROVE  Fine(times, <<hook>>, times \cup Notes(hook))
<1>1. Notes(hook) \subseteq Times
  BY DEF Notes, Times
<1> QED BY <1>1, OneHook DEF Fine
LEMMA PairIsConcat ==
  ASSUME NEW S, NEW a \in S, NEW b \in S
  PROVE  <<a>> \o <<b>> = <<a, b>>
<1> DEFINE p == <<a>> \o <<b>>
           q == <<a, b>>
<1>1. <<a>> \in Seq(S) /\ <<b>> \in Seq(S)
  OBVIOUS
<1>2. Len(<<a>>) = 1 /\ Len(<<b>>) = 1 /\ <<a>>[1] = a /\ <<b>>[1] = b
  OBVIOUS
<1>3. p \in Seq(S) /\ Len(p) = 2 /\ p[1] = a /\ p[2] = b
  BY <1>1, <1>2
<1>4. q \in Seq(S)
  OBVIOUS
<1>5. Len(q) = 2 /\ q[1] = a /\ q[2] = b
  OBVIOUS
<1> HIDE DEF p, q
<1>6. p = q
  BY <1>3, <1>4, <1>5
<1> QED BY <1>6 DEF p, q

LEMMA FineNone ==
  ASSUME NEW times \in SUBSET Times
  PROVE  Fine(times, <<>>, times)
<1>1. <<>> \in Seq(Hooks) /\ Len(<<>>) = 0 /\ DOMAIN <<>> = {}
  OBVIOUS
<1>2. Known(times, <<>>, 0) = times
  BY DEF Known
<1>3. ~HooksRaise(times, <<>>)
  BY <1>1 DEF HooksRaise
<1> QED BY <1>1, <1>2, <1>3 DEF Fine

LEMMA FinePair ==
  ASSUME NEW times \in SUBSET Times, NEW a \in Hooks, NEW b \in Hooks,
         Reads(a) \subseteq times, Reads(b) \subseteq times \cup Notes(a)
  PROVE  Fine(times, <<a, b>>, (times \cup Notes(a)) \cup Notes(b))
<1>1. Fine(times, <<a>>, times \cup Notes(a))
  BY FineHook
<1>2. times \cup Notes(a) \in SUBSET Times
  BY <1>1 DEF Fine
<1>3. Fine(times \cup Notes(a), <<b>>, (times \cup Notes(a)) \cup Notes(b))
  BY <1>2, FineHook
<1>4. Fine(times, <<a>> \o <<b>>, (times \cup Notes(a)) \cup Notes(b))
  BY <1>1, <1>3, FineInTurn
<1>5. <<a>> \o <<b>> = <<a, b>>
  BY PairIsConcat
<1> QED BY <1>4, <1>5

(* A connection, once the request has begun.                                 *)
LEMMA FineConnecting ==
  ASSUME NEW times \in SUBSET Times, "request_start" \in times, NEW dns \in BOOLEAN
  PROVE  \E then \in SUBSET Times :
           /\ Fine(times, Connecting(dns), then)
           /\ times \cup {"conn_create_start_at", "conn_create_end_at"} \subseteq then
<1> DEFINE lookup == IF dns THEN <<"dns_start", "dns_end">> ELSE <<>>
           t1 == times \cup Notes("conn_create_start")
           t2 == IF dns THEN (t1 \cup Notes("dns_start")) \cup Notes("dns_end") ELSE t1
           t3 == t2 \cup Notes("conn_create_end")
<1>1. /\ Reads("conn_create_start") = {"request_start"}
      /\ Notes("conn_create_start") = {"conn_create_start_at"}
      /\ Reads("dns_start") = {"request_start"} /\ Notes("dns_start") = {"dns_start_at"}
      /\ Reads("dns_end") = {"dns_start_at"}
      /\ Reads("conn_create_end") = {"conn_create_start_at"}
      /\ Notes("conn_create_end") = {"conn_create_end_at"}
  BY DEF Reads, Notes
<1>2. {"conn_create_start", "dns_start", "dns_end", "conn_create_end"} \subseteq Hooks
  BY DEF Hooks
<1>3. t1 \in SUBSET Times
  BY <1>1 DEF Times
<1>4. Fine(times, <<"conn_create_start">>, t1)
  BY <1>1, <1>2, FineHook
<1>5. Fine(t1, lookup, t2)
  <2>1. CASE dns
    BY <1>1, <1>2, <1>3, <2>1, FinePair
  <2>2. CASE ~dns
    BY <1>3, <2>2, FineNone
  <2> QED BY <2>1, <2>2
<1>6. t2 \in SUBSET Times /\ "conn_create_start_at" \in t2 /\ t1 \subseteq t2
  <2>1. t2 \in SUBSET Times
    BY <1>5 DEF Fine
  <2> QED BY <1>1, <2>1
<1>7. Fine(t2, <<"conn_create_end">>, t3)
  BY <1>1, <1>2, <1>6, FineHook
<1> HIDE DEF lookup, t2
<1>8. Fine(times, <<"conn_create_start">> \o lookup, t2)
  BY <1>4, <1>5, FineInTurn
<1>9. Fine(times, <<"conn_create_start">> \o lookup \o <<"conn_create_end">>, t3)
  BY <1>7, <1>8, FineInTurn
<1>10. Fine(times, Connecting(dns), t3)
  BY <1>9 DEF Connecting, lookup
<1>11. t3 \in SUBSET Times /\ times \cup {"conn_create_start_at", "conn_create_end_at"} \subseteq t3
  BY <1>1, <1>6, <1>9 DEF Fine
<1> QED BY <1>10, <1>11

(* No hook misses a time, at whichever stage.                                *)
Connection == {"request_start", "conn_create_start_at", "conn_create_end_at"}

LEMMA StagesFine ==
  ASSUME NEW times \in SUBSET Times
  PROVE  /\ \A dns \in BOOLEAN : \E then \in SUBSET Times :
              /\ Fine(times, <<"request_start">> \o Connecting(dns), then)
              /\ times \cup Connection \subseteq then
         /\ Connection \cup {"start_time_at"} \subseteq times =>
              /\ Fine(times, <<"chunk_received", "request_end">>, times)
              /\ Fine(times, <<"chunk_sent">>, times)
              /\ Fine(times, <<"redirect">>, times)
              /\ \A dns \in BOOLEAN : \E then \in SUBSET Times :
                   Fine(times, Connecting(dns), then) /\ times \subseteq then
<1>1. ASSUME NEW dns \in BOOLEAN
      PROVE  \E then \in SUBSET Times :
               /\ Fine(times, <<"request_start">> \o Connecting(dns), then)
               /\ times \cup Connection \subseteq then
  <2>1. "request_start" \in Hooks /\ Reads("request_start") = {} /\ Notes("request_start") = {"request_start"}
    BY DEF Hooks, Reads, Notes
  <2>2. Fine(times, <<"request_start">>, times \cup {"request_start"})
    BY <2>1, FineHook
  <2>3. times \cup {"request_start"} \in SUBSET Times
    BY DEF Times
  <2>4. PICK then \in SUBSET Times :
          /\ Fine(times \cup {"request_start"}, Connecting(dns), then)
          /\ (times \cup {"request_start"}) \cup {"conn_create_start_at", "conn_create_end_at"} \subseteq then
    BY <2>3, FineConnecting
  <2>5. Fine(times, <<"request_start">> \o Connecting(dns), then)
    BY <2>2, <2>3, <2>4, FineInTurn
  <2> QED BY <2>4, <2>5 DEF Connection
<1>2. ASSUME Connection \cup {"start_time_at"} \subseteq times
      PROVE  /\ Fine(times, <<"chunk_received", "request_end">>, times)
             /\ Fine(times, <<"chunk_sent">>, times)
             /\ Fine(times, <<"redirect">>, times)
  <2>1. /\ Reads("chunk_received") \subseteq times /\ Notes("chunk_received") = {}
        /\ Reads("request_end") \subseteq times /\ Notes("request_end") = {}
        /\ Reads("chunk_sent") \subseteq times /\ Notes("chunk_sent") = {}
        /\ Reads("redirect") \subseteq times /\ Notes("redirect") = {}
    BY <1>2 DEF Reads, Notes, Connection
  <2>2. {"chunk_received", "request_end", "chunk_sent", "redirect"} \subseteq Hooks
    BY DEF Hooks
  <2>3. times \cup {} = times /\ (times \cup {}) \cup {} = times
    OBVIOUS
  <2>4. Fine(times, <<"chunk_sent">>, times) /\ Fine(times, <<"redirect">>, times)
    BY <2>1, <2>2, <2>3, FineHook
  <2>5. Fine(times, <<"chunk_received", "request_end">>, times)
    BY <2>1, <2>2, <2>3, FinePair
  <2> QED BY <2>4, <2>5
<1>3. ASSUME Connection \cup {"start_time_at"} \subseteq times, NEW dns \in BOOLEAN
      PROVE  \E then \in SUBSET Times : Fine(times, Connecting(dns), then) /\ times \subseteq then
  BY <1>3, FineConnecting DEF Connection
<1> QED BY <1>1, <1>2, <1>3

-----------------------------------------------------------------------------
(* Each action keeps the invariant.                                          *)

(* What a step does that leaves its parent as it was.                        *)
LEMMA Quiet ==
  ASSUME IInv, NEW s, NEW r, Moves(s, r), RequestInv(s, r),
         UNCHANGED <<cache, details, last, ok, judged>>,
         Told(r) = Told(run[s]), Told(r) => r.answered = run[s].answered,
         r.answered = "ok" => run[s].answered = "ok"
  PROVE  IInv'
<1>1. TypeOK' /\ OneAtATime' /\ CacheKept'
  BY Moved DEF IInv, TypeOK, CacheKept
<1>2. RequestsInv'
  BY Moved DEF IInv, RequestsInv, Moves
<1>3. StoredFirst'
  BY Moved DEF IInv, StoredFirst, Moves
<1>4. LastsInv'
  BY LastKept DEF LastsInv
<1>5. JudgedInv'
  BY JudgedStays
<1> QED BY <1>1, <1>2, <1>3, <1>4, <1>5 DEF IInv

(* A step that is neither to begin nor over has its turn.                    *)
LEMMA Active ==
  ASSUME IInv, NEW s \in Steps, NEW r \in Requests, r.at # "idle",
         run' = [run EXCEPT ![s] = r],
         Turn(s) \/ ~(At(s, "idle") \/ At(s, "done"))
  PROVE  Moves(s, r)
BY DEF IInv, OneAtATime, Moves, Turn, At

(* A step that ends before it has sent anything.                             *)
LEMMA LeavesQuietly ==
  ASSUME IInv, NEW s \in Steps, Leaves(s), run[s].answered = "not sent",
         Turn(s) \/ At(s, "pre") \/ At(s, "asked"),
         UNCHANGED <<cache, details, last, ok, judged>>
  PROVE  IInv'
<1> DEFINE r == [run[s] EXCEPT !.at = "done"]
<1>1. run[s] \in Requests /\ RequestInv(s, run[s])
  BY DEF IInv, TypeOK, RequestsInv
<1>2. r \in Requests /\ r.at = "done" /\ r.times = {} /\ r.answered = "not sent"
  BY <1>1 DEF Requests, RequestInv, Places, At, Turn
<1>3. run' = [run EXCEPT ![s] = r]
  BY DEF Leaves
<1> HIDE DEF r
<1>4. RequestInv(s, r)
  BY <1>2 DEF RequestInv
<1>5. Moves(s, r)
  BY <1>2, <1>3, Active DEF At, Turn
<1>6. Told(r) = FALSE /\ Told(run[s]) = FALSE
  BY <1>2 DEF Told
<1> QED BY <1>2, <1>4, <1>5, <1>6, Quiet

LEMMA FetchesKeeps ==
  ASSUME IInv, NEW s \in Steps, Fetches(s)
  PROVE  IInv'
<1>1. run[s] \in Requests /\ RequestInv(s, run[s])
  BY DEF IInv, TypeOK, RequestsInv
<1>2. run[s].at = "idle" /\ run[s].answered = "not sent"
  BY <1>1 DEF Fetches, Turn, At, RequestInv
<1>3. ASSUME NEW script \in ScriptsOf[InterfaceOf[s]],
             run' = [run EXCEPT ![s] = [@ EXCEPT !.at = "pre", !.todo = script,
                                                 !.info = cache[InterfaceOf[s]]]]
      PROVE  IInv'
  <2> DEFINE info == cache[InterfaceOf[s]]
             r == [run[s] EXCEPT !.at = "pre", !.todo = script, !.info = info]
  <2>1. /\ info \in Infos /\ script \in Seq(Operations) /\ info.prefixes = 0
        /\ \A part \in Parts : info.by[part] = "cache"
    BY InterfaceAssumption DEF Fetches, IInv, TypeOK, CacheKept
  <2> HIDE DEF info
  <2>2. /\ r \in Requests /\ r.at = "pre" /\ r.info = info /\ r.times = {}
        /\ r.covers = {} /\ r.urlCovered = FALSE /\ r.answered = "not sent" /\ ~r.hasRaise
    BY <1>1, <1>2, <2>1 DEF Requests, RequestInv, Places
  <2>3. run' = [run EXCEPT ![s] = r]
    BY <1>3 DEF info
  <2> HIDE DEF r
  <2>4. RequestInv(s, r)
    BY <2>1, <2>2 DEF RequestInv, Own, Covers, Fetches
  <2>5. Moves(s, r)
    BY <2>2, <2>3, Active DEF Fetches
  <2>6. Told(r) = FALSE /\ Told(run[s]) = FALSE
    BY <1>2, <2>2 DEF Told
  <2> QED BY <2>2, <2>4, <2>5, <2>6, Quiet DEF Fetches
<1>4. CASE Leaves(s)
  BY <1>2, <1>4, LeavesQuietly DEF Fetches
<1> QED BY <1>3, <1>4 DEF Fetches

LEMMA PreActsKeeps ==
  ASSUME IInv, NEW s \in Steps, PreActs(s)
  PROVE  IInv'
<1>1. run[s] \in Requests /\ RequestInv(s, run[s])
  BY DEF IInv, TypeOK, RequestsInv
<1>2. /\ run[s].at = "pre" /\ run[s].answered = "not sent" /\ run[s].times = {} /\ ~run[s].hasRaise
      /\ s \in Senders /\ Own(s, run[s])
  BY <1>1 DEF PreActs, At, RequestInv
<1> DEFINE q == Operate(s, Head(run[s].todo), run[s])
           r == [q EXCEPT !.todo = Tail(@)]
<1>3. /\ q \in Requests /\ Own(s, q) /\ q.at = "pre" /\ q.times = {} /\ q.answered = "not sent"
      /\ q.hasRaise = run[s].hasRaise /\ q.todo = run[s].todo
  <2>1. run[s] \in Requests /\ s \in Senders /\ Own(s, run[s])
    BY <1>1, <1>2
  <2>2. /\ q \in Requests /\ Own(s, q) /\ q.at = run[s].at /\ q.times = run[s].times
        /\ q.answered = run[s].answered /\ q.hasRaise = run[s].hasRaise /\ q.todo = run[s].todo
    BY <2>1, OperateOwn
  <2> QED BY <1>2, <2>2
<1>4. CASE run' = [run EXCEPT ![s] = r]
  <2> HIDE DEF q
  <2>1. Tail(q.todo) \in Seq(Operations)
    <3>1. q.todo \in Seq(Operations) /\ q.todo # <<>>
      BY <1>1, <1>3 DEF Requests, PreActs
    <3> QED BY <3>1
  <2>2. /\ r \in Requests /\ r.info = q.info /\ r.urlCovered = q.urlCovered /\ r.covers = q.covers
        /\ r.at = "pre" /\ r.times = {} /\ r.answered = "not sent" /\ r.hasRaise = q.hasRaise
    BY <1>3, <2>1 DEF Requests
  <2> HIDE DEF r
  <2>3. RequestInv(s, r)
    BY <1>2, <1>3, <2>2 DEF RequestInv, Own
  <2>4. Moves(s, r)
    BY <1>2, <1>4, <2>2, Active DEF At
  <2>5. Told(r) = FALSE /\ Told(run[s]) = FALSE
    BY <1>2, <2>2 DEF Told
  <2> QED BY <2>2, <2>3, <2>4, <2>5, Quiet DEF PreActs
<1>5. CASE Leaves(s)
  BY <1>2, <1>5, LeavesQuietly DEF PreActs
<1> QED BY <1>4, <1>5 DEF PreActs

LEMMA BuildsKeeps ==
  ASSUME IInv, NEW s \in Steps, Builds(s)
  PROVE  IInv'
<1>1. run[s] \in Requests /\ RequestInv(s, run[s])
  BY DEF IInv, TypeOK, RequestsInv
<1>2. /\ run[s].at = "pre" /\ run[s].answered = "not sent" /\ run[s].times = {} /\ ~run[s].hasRaise
      /\ s \in Senders /\ Own(s, run[s])
  BY <1>1 DEF Builds, At, RequestInv
<1> DEFINE body == Generated(TypeOf(s), run[s].info.body)
           by == [run[s].info.by EXCEPT !["body"] = IF body = "nothing" THEN "cache" ELSE @]
           info == [run[s].info EXCEPT !.body = body, !.by = by,
                                       !.prefixes = IF run[s].urlCovered THEN @ ELSE @ + 1]
           r == [run[s] EXCEPT !.at = "start", !.times = {"start_time_at"}, !.info = info]
<1>3. TypeOf(s) \in BodyTypes /\ run[s].info \in Infos
  BY <1>1, <1>2, InterfaceAssumption DEF TypeOf, Requests, Senders
<1>4. /\ body \in {"nothing", "text", "form", "refused"} /\ (body = "nothing" <=> TypeOf(s) = "none")
  BY <1>3, GeneratedType DEF Infos
<1>5. CASE run' = [run EXCEPT ![s] = r]
  <2> HIDE DEF body
  <2>a. /\ run[s].info.by \in [Parts -> Steps \cup {"cache"}] /\ run[s].info.prefixes \in Nat
        /\ "body" \in Parts
    BY <1>3 DEF Infos, Parts
  <2>b. /\ by \in [Parts -> Steps \cup {"cache"}]
        /\ \A part \in Parts :
             by[part] = IF part = "body" /\ body = "nothing" THEN "cache" ELSE run[s].info.by[part]
    BY <2>a
  <2> HIDE DEF by
  <2>1. /\ info \in Infos /\ info.by = by
        /\ info.prefixes = IF run[s].urlCovered THEN run[s].info.prefixes
                           ELSE run[s].info.prefixes + 1
    <3> DEFINE n == IF run[s].urlCovered THEN run[s].info.prefixes ELSE run[s].info.prefixes + 1
    <3>1. n \in Nat
      BY <2>a
    <3>2. info = [run[s].info EXCEPT !.body = body, !.by = by, !.prefixes = n]
      OBVIOUS
    <3> HIDE DEF n, info
    <3>3. info \in Infos
      BY <1>3, <1>4, <2>b, <3>1, <3>2 DEF Infos
    <3>4. info.by = by /\ info.prefixes = n
      BY <1>3, <3>2 DEF Infos
    <3> QED BY <3>3, <3>4 DEF n
  <2> HIDE DEF info
  <2>2. /\ r \in Requests /\ r.info = info /\ r.covers = run[s].covers
        /\ r.at = "start" /\ r.times = {"start_time_at"} /\ r.answered = "not sent" /\ ~r.hasRaise
    BY <1>1, <1>2, <2>1 DEF Requests, Places, Times
  <2>c. Sends(s, info, run[s].covers)
    <3>1. \A part \in Parts :
            info.by[part] = IF part \in run[s].covers /\ ~(part = "body" /\ TypeOf(s) = "none")
                              THEN s ELSE "cache"
      BY <1>2, <1>4, <2>1, <2>b DEF Own, Covers
    <3>2. run[s].urlCovered \in BOOLEAN
      BY <1>1 DEF Requests
    <3>3. info.prefixes = IF "url" \in run[s].covers THEN 0 ELSE 1
      <4>1. CASE run[s].urlCovered
        BY <1>2, <2>1, <4>1 DEF Own, Covers
      <4>2. CASE ~run[s].urlCovered
        <5>1. run[s].info.prefixes = 0 /\ "url" \notin run[s].covers
          BY <1>2, <4>2 DEF Own, Covers
        <5>2. info.prefixes = run[s].info.prefixes + 1
          BY <2>1, <4>2
        <5> QED BY <5>1, <5>2
      <4> QED BY <3>2, <4>1, <4>2
    <3> QED BY <3>1, <3>3 DEF Sends
  <2>3. Built(s, r)
    BY <2>2, <2>c DEF Built
  <2> HIDE DEF r
  <2>4. RequestInv(s, r)
    BY <1>2, <2>2, <2>3 DEF RequestInv
  <2>5. Moves(s, r)
    BY <1>2, <1>5, <2>2, Active DEF At
  <2>6. Told(r) = FALSE /\ Told(run[s]) = FALSE
    BY <1>2, <2>2 DEF Told
  <2> QED BY <2>2, <2>4, <2>5, <2>6, Quiet DEF Builds
<1>6. CASE Leaves(s)
  BY <1>2, <1>6, LeavesQuietly DEF Builds
<1> QED BY <1>5, <1>6 DEF Builds

(* A stage that goes on, since none of its hooks raises.                     *)
LEMMA GoesKeeps ==
  ASSUME IInv, NEW s \in Steps, run[s].at \in {"start", "connected", "redirected"},
         NEW hooks, NEW next \in {"connected", "redirected", "finish"}, Goes(s, hooks, next),
         NEW then \in SUBSET Times, Fine(run[s].times, hooks, then),
         run[s].times \subseteq then, Connection \subseteq then,
         UNCHANGED <<cache, details, last, ok, judged>>
  PROVE  IInv'
<1> DEFINE r == [run[s] EXCEPT !.at = next, !.times = then]
<1>1. run[s] \in Requests /\ RequestInv(s, run[s])
  BY DEF IInv, TypeOK, RequestsInv
<1>2. /\ run[s].answered = "not sent" /\ "start_time_at" \in run[s].times /\ ~run[s].hasRaise
      /\ s \in Senders
  BY <1>1 DEF RequestInv
<1>3. Built(s, run[s])
  BY <1>1, <1>2 DEF RequestInv
<1>4. /\ r \in Requests /\ r.info = run[s].info /\ r.covers = run[s].covers /\ r.at = next
      /\ r.times = then /\ r.answered = "not sent" /\ ~r.hasRaise
  BY <1>1, <1>2 DEF Requests, Places
<1>5. run' = [run EXCEPT ![s] = r]
  BY DEF Goes, Fine
<1> HIDE DEF r
<1>6. RequestInv(s, r)
  <2>1. Built(s, r)
    BY <1>3, <1>4 DEF Built
  <2> QED BY <1>2, <1>4, <2>1 DEF RequestInv, Connection
<1>7. Moves(s, r)
  BY <1>4, <1>5, Active DEF At
<1>8. Told(r) = FALSE /\ Told(run[s]) = FALSE
  BY <1>2, <1>4 DEF Told
<1> QED BY <1>4, <1>6, <1>7, <1>8, Quiet

LEMMA NetworkFailsKeeps ==
  ASSUME IInv, NEW s \in Steps, run[s].at \in {"start", "connected", "redirected"},
         NetworkFails(s), UNCHANGED <<cache, details, last, ok, judged>>
  PROVE  IInv'
<1> DEFINE r == [run[s] EXCEPT !.at = "exception", !.answered = "failed"]
<1>1. run[s] \in Requests /\ RequestInv(s, run[s])
  BY DEF IInv, TypeOK, RequestsInv
<1>2. /\ run[s].answered = "not sent" /\ ~run[s].hasRaise /\ s \in Senders
      /\ "start_time_at" \in run[s].times
  BY <1>1 DEF RequestInv
<1>3. /\ r \in Requests /\ r.info = run[s].info /\ r.covers = run[s].covers /\ r.at = "exception"
      /\ r.times = run[s].times /\ r.answered = "failed" /\ ~r.hasRaise
  BY <1>1, <1>2 DEF Requests, Places
<1>4. run' = [run EXCEPT ![s] = r]
  BY <1>1 DEF NetworkFails, IInv, TypeOK
<1> HIDE DEF r
<1>5. RequestInv(s, r)
  <2>1. Built(s, r)
    BY <1>1, <1>2, <1>3 DEF RequestInv, Built
  <2> QED BY <1>2, <1>3, <2>1 DEF RequestInv
<1>6. Moves(s, r)
  BY <1>3, <1>4, Active DEF At
<1>7. Told(r) = FALSE /\ Told(run[s]) = FALSE
  BY <1>2, <1>3 DEF Told
<1> QED BY <1>3, <1>5, <1>6, <1>7, Quiet

LEMMA ConnectsKeeps ==
  ASSUME IInv, NEW s \in Steps, Connects(s)
  PROVE  IInv'
<1>1. run[s].times \in SUBSET Times /\ run[s].at = "start"
  BY DEF IInv, TypeOK, Requests, Connects, At
<1>2. ASSUME NEW dns \in BOOLEAN, Goes(s, <<"request_start">> \o Connecting(dns), "connected")
      PROVE  IInv'
  <2>1. PICK then \in SUBSET Times :
          /\ Fine(run[s].times, <<"request_start">> \o Connecting(dns), then)
          /\ run[s].times \cup Connection \subseteq then
    BY <1>1, StagesFine
  <2> QED BY <1>1, <1>2, <2>1, GoesKeeps DEF Connects
<1>3. CASE NetworkFails(s)
  BY <1>1, <1>3, NetworkFailsKeeps DEF Connects
<1> QED BY <1>2, <1>3 DEF Connects

LEMMA ExchangesKeeps ==
  ASSUME IInv, NEW s \in Steps, Exchanges(s) \/ FollowsRedirect(s)
  PROVE  IInv'
<1> DEFINE times == run[s].times
           body == IF run[s].info.body = "nothing" THEN <<>> ELSE <<"chunk_sent">>
           end == <<"chunk_received", "request_end">>
<1>1. /\ times \in SUBSET Times /\ Connection \cup {"start_time_at"} \subseteq times
      /\ run[s].at \in {"connected", "redirected"}
      /\ UNCHANGED <<cache, details, last, ok, judged>>
  BY DEF IInv, TypeOK, Requests, Exchanges, FollowsRedirect, At, RequestsInv, RequestInv, Connection
<1> HIDE DEF times
<1>2. Fine(times, body, times)
  BY <1>1, StagesFine, FineNone
<1> HIDE DEF body
<1>3. Fine(times, end, times)
  BY <1>1, StagesFine
<1> HIDE DEF end
<1>4. ASSUME Exchanges(s), NEW dns \in BOOLEAN,
             Goes(s, body \o <<"redirect">> \o Connecting(dns), "redirected")
      PROVE  IInv'
  <2>1. PICK then \in SUBSET Times : Fine(times, Connecting(dns), then) /\ times \subseteq then
    BY <1>1, StagesFine
  <2>2. Fine(times, body \o <<"redirect">>, times)
    BY <1>1, <1>2, StagesFine, FineInTurn
  <2>3. Fine(times, body \o <<"redirect">> \o Connecting(dns), then)
    BY <1>1, <2>1, <2>2, FineInTurn
  <2>4. Connection \subseteq then
    BY <1>1, <2>1
  <2> QED BY <1>1, <1>4, <2>1, <2>3, <2>4, GoesKeeps DEF times
<1>5. ASSUME Goes(s, body \o end, "finish")
      PROVE  IInv'
  <2>1. Fine(times, body \o end, times)
    BY <1>1, <1>2, <1>3, FineInTurn
  <2> QED BY <1>1, <1>5, <2>1, GoesKeeps DEF times
<1>6. ASSUME Goes(s, end, "finish")
      PROVE  IInv'
  BY <1>1, <1>3, <1>6, GoesKeeps DEF times
<1>7. CASE NetworkFails(s)
  BY <1>1, <1>7, NetworkFailsKeeps
<1> QED BY <1>4, <1>5, <1>6, <1>7 DEF Exchanges, FollowsRedirect, body, end

LEMMA FinishesKeeps ==
  ASSUME IInv, NEW s \in Steps, Finishes(s)
  PROVE  IInv'
<1>1. run[s] \in Requests /\ RequestInv(s, run[s]) /\ run[s].at = "finish"
  BY DEF IInv, TypeOK, RequestsInv, Finishes, At
<1>2. s \in Senders /\ run[s].answered = "not sent"
  BY <1>1 DEF RequestInv
<1>3. PICK raising \in BOOLEAN :
        run' = [run EXCEPT ![s] = [@ EXCEPT !.at = "stored", !.hasRaise = raising, !.answered = "ok"]]
  BY DEF Finishes
<1> DEFINE r == [run[s] EXCEPT !.at = "stored", !.hasRaise = raising, !.answered = "ok"]
<1>4. /\ r \in Requests /\ r.info = run[s].info /\ r.covers = run[s].covers /\ r.at = "stored"
      /\ r.times = run[s].times /\ r.answered = "ok"
  BY <1>1 DEF Requests, Places
<1>5. run' = [run EXCEPT ![s] = r]
  BY <1>3
<1> HIDE DEF r
<1>6. RequestInv(s, r)
  <2>1. run[s].times # {} => Built(s, r)
    BY <1>1, <1>2, <1>4 DEF RequestInv, Built
  <2> QED BY <1>2, <1>4, <2>1 DEF RequestInv
<1>7. Moves(s, r)
  BY <1>1, <1>4, <1>5, Active DEF At
<1>8. Told(r) = FALSE /\ Told(run[s]) = FALSE
  BY <1>2, <1>4 DEF Told
<1>9. /\ DOMAIN details' = DOMAIN details \cup {s} /\ details'[s] = "response"
      /\ \A t \in DOMAIN details \ {s} : details'[t] = details[t]
      /\ UNCHANGED <<cache, last, ok, judged>>
  BY DEF Finishes
<1>10. TypeOK' /\ OneAtATime' /\ CacheKept'
  BY <1>7, <1>9, Moved DEF IInv, TypeOK, CacheKept
<1>11. RequestsInv'
  BY <1>6, <1>7, Moved DEF IInv, RequestsInv
<1>12. StoredFirst'
  BY <1>7, <1>9, Moved DEF IInv, StoredFirst
<1>13. LastsInv'
  BY <1>7, <1>8, <1>9, LastKept DEF LastsInv
<1>14. JudgedInv'
  BY <1>7, <1>9, JudgedStays
<1> QED BY <1>10, <1>11, <1>12, <1>13, <1>14 DEF IInv

LEMMA PointsKeeps ==
  ASSUME IInv, NEW s \in Steps, Points(s)
  PROVE  IInv'
<1> DEFINE p == ParentOf(s)
           r == [run[s] EXCEPT !.at = IF run[s].hasRaise THEN "exception" ELSE "after"]
<1>1. run[s] \in Requests /\ RequestInv(s, run[s]) /\ run[s].at = "stored"
  BY DEF IInv, TypeOK, RequestsInv, Points, At
<1>2. s \in Senders /\ run[s].answered = "ok"
  BY <1>1 DEF RequestInv
<1>3. /\ r \in Requests /\ r.info = run[s].info /\ r.covers = run[s].covers
      /\ r.at = (IF run[s].hasRaise THEN "exception" ELSE "after") /\ r.hasRaise = run[s].hasRaise
      /\ r.times = run[s].times /\ r.answered = "ok"
  BY <1>1, <1>2 DEF Requests, Places
<1>4. run' = [run EXCEPT ![s] = r]
  BY DEF Points
<1> HIDE DEF r
<1>5. RequestInv(s, r)
  <2>1. run[s].times # {} => Built(s, r)
    BY <1>1, <1>2, <1>3 DEF RequestInv, Built
  <2> QED BY <1>2, <1>3, <2>1 DEF RequestInv
<1>6. Moves(s, r)
  BY <1>1, <1>3, <1>4, Active DEF At
<1>7. Told(r)
  BY <1>3 DEF Told
<1>8. p \in Parents
  BY Order
<1>9. /\ last' = [last EXCEPT ![p] = s] /\ ok' = [ok EXCEPT ![p] = TRUE]
      /\ last'[p] = s /\ ok'[p] = TRUE
      /\ UNCHANGED <<cache, details, judged>>
  BY <1>8 DEF Points, IInv, TypeOK
<1> HIDE DEF p
<1>10. TypeOK' /\ OneAtATime' /\ CacheKept'
  BY <1>6, <1>8, <1>9, Moved DEF IInv, TypeOK, CacheKept
<1>11. RequestsInv'
  BY <1>5, <1>6, Moved DEF IInv, RequestsInv
<1>12. StoredFirst'
  BY <1>2, <1>6, <1>9, Moved DEF IInv, StoredFirst
<1>13. LastsInv'
  <2>1. ASSUME NEW q \in Parents, q # p
        PROVE  LastInv(q)'
    <3>1. last'[q] = last[q] /\ ok'[q] = ok[q]
      BY <1>9, <2>1 DEF IInv, TypeOK
    <3> QED BY <1>6, <2>1, <3>1, LastKept DEF p
  <2>2. LastInv(p)'
    <3>1. Latest(p, s)'
      BY <1>6, <1>7, MovedIsLatest DEF p
    <3>2. run'[s].answered = "ok" /\ s # NoStep
      BY <1>3, <1>6, Moved, QueueAssumption
    <3>3. s \in Under(p) /\ Settled(s)'
      BY <3>1 DEF Latest
    <3> QED BY <1>9, <3>1, <3>2, <3>3 DEF LastInv
  <2> QED BY <2>1, <2>2 DEF LastsInv
<1>14. JudgedInv'
  BY <1>6, <1>9, JudgedStays
<1> QED BY <1>10, <1>11, <1>12, <1>13, <1>14 DEF IInv

LEMMA ExceptionCallbackKeeps ==
  ASSUME IInv, NEW s \in Steps, ExceptionCallback(s)
  PROVE  IInv'
<1> DEFINE p == ParentOf(s)
           r == [run[s] EXCEPT !.at = "done"]
<1>1. run[s] \in Requests /\ RequestInv(s, run[s]) /\ run[s].at = "exception"
  BY DEF IInv, TypeOK, RequestsInv, ExceptionCallback, At
<1>2. s \in Senders /\ run[s].answered = IF run[s].hasRaise THEN "ok" ELSE "failed"
  BY <1>1 DEF RequestInv
<1>3. /\ r \in Requests /\ r.info = run[s].info /\ r.covers = run[s].covers /\ r.at = "done"
      /\ r.hasRaise = run[s].hasRaise /\ r.times = run[s].times /\ r.answered = run[s].answered
  BY <1>1 DEF Requests, Places
<1>4. run' = [run EXCEPT ![s] = r]
  BY DEF ExceptionCallback, Leaves
<1> HIDE DEF r
<1>5. RequestInv(s, r)
  <2>1. run[s].times # {} => Built(s, r)
    BY <1>1, <1>2, <1>3 DEF RequestInv, Built
  <2> QED BY <1>2, <1>3, <2>1 DEF RequestInv
<1>6. Moves(s, r)
  BY <1>1, <1>3, <1>4, Active DEF At
<1>7. Told(r)
  BY <1>2, <1>3 DEF Told
<1>8. CASE run[s].hasRaise
  <2>1. Told(run[s])
    BY <1>1, <1>2, <1>8 DEF Told
  <2>2. UNCHANGED <<cache, details, last, ok, judged>>
    BY <1>8 DEF ExceptionCallback
  <2>3. Told(r) = Told(run[s])
    BY <1>1, <1>2, <1>3, <1>8 DEF Told
  <2> QED BY <1>3, <1>5, <1>6, <2>2, <2>3, Quiet
<1>9. CASE ~run[s].hasRaise
  <2>1. p \in Parents
    BY Order
  <2>2. /\ DOMAIN details' = DOMAIN details \cup {s}
        /\ \A t \in DOMAIN details \ {s} : details'[t] = details[t]
        /\ ok' = [ok EXCEPT ![p] = FALSE] /\ ok'[p] = FALSE
        /\ UNCHANGED <<cache, last, judged>>
    BY <1>9, <2>1 DEF ExceptionCallback, IInv, TypeOK
  <2> HIDE DEF p
  <2>3. TypeOK' /\ OneAtATime' /\ CacheKept'
    BY <1>6, <2>1, <2>2, Moved DEF IInv, TypeOK, CacheKept
  <2>4. RequestsInv'
    BY <1>5, <1>6, Moved DEF IInv, RequestsInv
  <2>5. r.answered = "failed"
    BY <1>2, <1>3, <1>9
  <2>6. StoredFirst'
    BY <1>6, <2>2, <2>5, Moved DEF IInv, StoredFirst
  <2>7. LastsInv'
    <3>1. ASSUME NEW q \in Parents, q # p
          PROVE  LastInv(q)'
      <4>1. last'[q] = last[q] /\ ok'[q] = ok[q]
        BY <2>2, <3>1 DEF IInv, TypeOK
      <4> QED BY <1>6, <3>1, <4>1, LastKept DEF p
    <3>2. LastInv(p)'
      <4>1. Latest(p, s)' /\ s \in Steps
        BY <1>6, <1>7, MovedIsLatest DEF p
      <4>2. run'[s] = r /\ \A u \in Steps \ {s} : run'[u] = run[u]
        BY <1>6, Moved
      <4>3. ~Settled(s)
        BY <1>1, <1>9 DEF Settled, Told
      <4>4. last'[p] = last[p] /\ LastInv(p)
        BY <2>1, <2>2 DEF IInv, LastsInv
      <4>5. \A u \in Under(p) : u # s => Settled(u)' = Settled(u)
        BY <4>2 DEF Settled, Under
      <4>6. last'[p] = NoStep => \A u \in Under(p) : Settled(u)' => run'[u].answered = "failed"
        <5>1. ASSUME last'[p] = NoStep, NEW u \in Under(p), Settled(u)'
              PROVE  run'[u].answered = "failed"
          <6>1. CASE u = s
            BY <2>5, <4>2, <6>1
          <6>2. CASE u # s
            BY <4>2, <4>4, <4>5, <5>1, <6>2 DEF LastInv, Under
          <6> QED BY <6>1, <6>2
        <5> QED BY <5>1
      <4>7. last'[p] # NoStep => /\ last'[p] \in Under(p) /\ Settled(last[p])'
                                 /\ run'[last[p]].answered = "ok"
        BY <4>2, <4>3, <4>4, <4>5 DEF LastInv, Under
      <4>8. run'[s].answered = "failed"
        BY <2>5, <4>2
      <4> QED BY <2>2, <4>1, <4>4, <4>6, <4>7, <4>8 DEF LastInv
    <3> QED BY <3>1, <3>2 DEF LastsInv
  <2>8. JudgedInv'
    BY <1>6, <2>2, JudgedStays
  <2> QED BY <2>3, <2>4, <2>6, <2>7, <2>8 DEF IInv
<1> QED BY <1>8, <1>9

LEMMA AfterActsKeeps ==
  ASSUME IInv, NEW s \in Steps, AfterActs(s)
  PROVE  IInv'
<1> DEFINE r == [run[s] EXCEPT !.at = "done"]
<1>1. run[s] \in Requests /\ RequestInv(s, run[s]) /\ run[s].at = "after"
  BY DEF IInv, TypeOK, RequestsInv, AfterActs, At
<1>2. s \in Senders /\ run[s].answered = "ok"
  BY <1>1 DEF RequestInv
<1>3. /\ r \in Requests /\ r.info = run[s].info /\ r.covers = run[s].covers /\ r.at = "done"
      /\ r.times = run[s].times /\ r.answered = "ok"
  BY <1>1, <1>2 DEF Requests, Places
<1>4. run' = [run EXCEPT ![s] = r]
  BY DEF AfterActs, Leaves
<1> HIDE DEF r
<1>5. RequestInv(s, r)
  <2>1. run[s].times # {} => Built(s, r)
    BY <1>1, <1>2, <1>3 DEF RequestInv, Built
  <2> QED BY <1>2, <1>3, <2>1 DEF RequestInv
<1>6. Moves(s, r)
  BY <1>1, <1>3, <1>4, Active DEF At
<1>7. Told(r) = TRUE /\ Told(run[s]) = TRUE
  BY <1>1, <1>2, <1>3 DEF Told
<1> QED BY <1>2, <1>3, <1>5, <1>6, <1>7, Quiet DEF AfterActs

(* An assertion reads what its parent tells of: the steps before it are all  *)
(* over, and those after it have not begun.                                  *)
LEMMA AsksRight ==
  ASSUME IInv, NEW s \in Steps, Turn(s)
  PROVE  LET p == ParentOf(s)
         IN  /\ last[p] = NoStep => RightOf(s, "none")
             /\ last[p] # NoStep /\ ~ok[p] => RightOf(s, "failed")
             /\ last[p] # NoStep /\ ok[p] => RightOf(s, last[p]) /\ last[p] \in Steps
<1> DEFINE p == ParentOf(s)
<1>1. p \in Parents /\ LastInv(p)
  BY Order DEF IInv, LastsInv
<1>2. ASSUME NEW u \in Under(p), Settled(u)
      PROVE  u \in Before(s)
  <2>1. u \in Steps /\ ~At(u, "idle") /\ At(s, "idle") /\ u # s
    BY <1>2 DEF Under, Settled, Told, At, Turn
  <2>2. s \notin Before(u)
    BY <2>1 DEF IInv, OneAtATime, At
  <2>3. ParentOf(u) = p
    BY <1>2 DEF Under
  <2> QED BY <2>1, <2>2, <2>3, Order
<1>3. ASSUME NEW u \in Before(s), Sent(u)
      PROVE  u \in Under(p) /\ Settled(u)
  BY <1>3, Order DEF Turn, At, Sent, Settled, Told, Under
<1>4. ASSUME NEW t, Latest(p, t)
      PROVE  LastBefore(s, t)
  <2>1. t \in Before(s) /\ Sent(t)
    BY <1>2, <1>4 DEF Latest, Settled, Told, Sent
  <2> QED BY <1>3, <1>4, <2>1 DEF Latest, LastBefore
<1>5. \A t \in Before(s) : run[t].answered = "ok" => Sent(t)
  BY DEF Sent
<1>6. CASE last[p] = NoStep
  BY <1>1, <1>3, <1>5, <1>6 DEF LastInv, RightOf
<1>7. CASE last[p] # NoStep /\ ~ok[p]
  <2>1. \E t \in Before(s) : run[t].answered = "ok"
    BY <1>1, <1>2, <1>7 DEF LastInv
  <2>2. \E f \in Steps : LastBefore(s, f) /\ run[f].answered = "failed"
    BY <1>1, <1>4, <1>7 DEF LastInv
  <2> QED BY <1>7, <2>1, <2>2 DEF RightOf
<1>8. CASE last[p] # NoStep /\ ok[p]
  BY <1>1, <1>4, <1>8 DEF LastInv, RightOf, Under
<1> QED BY <1>6, <1>7, <1>8

LEMMA AsksKeeps ==
  ASSUME IInv, NEW s \in Steps, Asks(s)
  PROVE  IInv'
<1> DEFINE p == ParentOf(s)
<1>1. run[s] \in Requests /\ RequestInv(s, run[s]) /\ run[s].at = "idle"
  BY DEF IInv, TypeOK, RequestsInv, Asks, Turn, At
<1>2. run[s].answered = "not sent" /\ run[s].times = {}
  BY <1>1 DEF RequestInv
<1>3. PICK at \in {"asked", "done"}, what \in Steps \cup {"none", "failed"} :
        /\ run' = [run EXCEPT ![s].at = at]
        /\ Remembers(s, what) /\ RightOf(s, what)
  BY AsksRight DEF Asks, Leaves
<1> DEFINE r == [run[s] EXCEPT !.at = at]
<1>4. r \in Requests /\ r.at = at /\ r.times = {} /\ r.answered = "not sent" /\ r.hasRaise = run[s].hasRaise
  BY <1>1, <1>2 DEF Requests, Places
<1>5. run' = [run EXCEPT ![s] = r]
  BY <1>3
<1> HIDE DEF r
<1>6. RequestInv(s, r)
  BY <1>1, <1>4 DEF RequestInv, Asks
<1>7. Moves(s, r)
  BY <1>4, <1>5, Active DEF Asks
<1>8. Told(r) = FALSE /\ Told(run[s]) = FALSE
  BY <1>2, <1>4 DEF Told
<1>9. /\ DOMAIN judged' = DOMAIN judged \cup {s} /\ judged'[s] = what
      /\ \A a \in DOMAIN judged \ {s} : judged'[a] = judged[a]
      /\ UNCHANGED <<cache, details, last, ok>>
  BY <1>3 DEF Asks, Remembers
<1>10. TypeOK' /\ OneAtATime' /\ CacheKept'
  BY <1>7, <1>9, Moved DEF IInv, TypeOK, CacheKept
<1>11. RequestsInv'
  BY <1>6, <1>7, Moved DEF IInv, RequestsInv
<1>12. StoredFirst'
  <2>1. run'[s].answered # "ok" /\ \A t \in Steps \ {s} : run'[t] = run[t]
    BY <1>4, <1>7, Moved
  <2>2. details' = details
    BY <1>9
  <2> QED BY <2>1, <2>2 DEF IInv, StoredFirst
<1>13. LastsInv'
  BY <1>7, <1>8, <1>9, LastKept DEF LastsInv
<1>14. JudgedInv'
  <2>1. \A t \in Before(s) : t # s /\ t \in Steps
    BY Order
  <2>2. \A t \in Before(s) : run'[t] = run[t]
    BY <1>7, <2>1, Moved
  <2>3. ASSUME NEW f, LastBefore(s, f)
        PROVE  LastBefore(s, f)' /\ run'[f] = run[f]
    BY <2>2, <2>3 DEF LastBefore, Sent
  <2>4. RightOf(s, what)'
    BY <1>3, <2>2, <2>3 DEF RightOf
  <2>5. ~At(s, "idle")'
    BY <1>4, <1>7, Moved DEF At
  <2>6. ASSUME NEW a \in DOMAIN judged, NEW w, w = judged[a]
        PROVE  ~At(a, "idle")' /\ RightOf(a, w)'
    BY <1>7, <2>6, JudgedKept DEF IInv, TypeOK, JudgedInv
  <2> QED BY <1>9, <2>4, <2>5, <2>6 DEF JudgedInv
<1> QED BY <1>10, <1>11, <1>12, <1>13, <1>14 DEF IInv

LEMMA JudgesKeeps ==
  ASSUME IInv, NEW s \in Steps, Judges(s)
  PROVE  IInv'
<1>1. RequestInv(s, run[s]) /\ run[s].at = "asked"
  BY DEF IInv, RequestsInv, Judges, At
<1>2. run[s].answered = "not sent"
  BY <1>1 DEF RequestInv
<1> QED BY <1>2, LeavesQuietly DEF Judges

-----------------------------------------------------------------------------
LEMMA InitInv == Init => IInv
<1> SUFFICES ASSUME Init PROVE IInv
  OBVIOUS
<1>1. ASSUME NEW type \in BodyTypes
      PROVE  /\ Template(type) \in Infos /\ Template(type).prefixes = 0
             /\ \A part \in Parts : Template(type).by[part] = "cache"
  <2>1. Origin(type) \in {"nothing", "text", "tree", "fields"}
    BY DEF BodyTypes, Origin
  <2> QED BY <2>1 DEF Template, Infos
<1>2. Idle \in Requests
  <2>1. Template("none") \in Infos
    BY <1>1 DEF BodyTypes
  <2> QED BY <2>1 DEF Idle, Requests, Places
<1>3. TypeOK /\ CacheKept
  BY <1>1, <1>2, InterfaceAssumption DEF Init, TypeOK, CacheKept
<1>4. \A s \in Steps : RequestInv(s, run[s]) /\ run[s] = Idle
  BY DEF Init, Idle, RequestInv
<1>5. \A s \in Steps : run[s].answered = "not sent" /\ At(s, "idle")
  <2>1. Idle.answered = "not sent" /\ Idle.at = "idle"
    BY DEF Idle
  <2> QED BY <1>4, <2>1 DEF At
<1>6. RequestsInv /\ StoredFirst /\ OneAtATime
  BY <1>4, <1>5 DEF RequestsInv, StoredFirst, OneAtATime
<1>7. LastsInv
  <2>1. \A p \in Parents : last[p] = NoStep /\ ok[p] = FALSE
    BY DEF Init
  <2>2. \A p : \A u \in Under(p) : ~Settled(u)
    BY <1>5 DEF Settled, Told, Under
  <2> QED BY <2>1, <2>2 DEF LastsInv, LastInv
<1>8. JudgedInv
  BY DEF Init, JudgedInv
<1> QED BY <1>3, <1>6, <1>7, <1>8 DEF IInv

LEMMA NextInv == IInv /\ [Next]_vars => IInv'
<1> SUFFICES ASSUME IInv, [Next]_vars PROVE IInv'
  OBVIOUS
<1>1. ASSUME NEW s \in Steps,
             \/ Fetches(s) \/ PreActs(s) \/ Builds(s)
             \/ Connects(s) \/ Exchanges(s) \/ FollowsRedirect(s)
             \/ Finishes(s) \/ Points(s) \/ ExceptionCallback(s) \/ AfterActs(s)
             \/ Asks(s) \/ Judges(s)
      PROVE  IInv'
  BY <1>1, FetchesKeeps, PreActsKeeps, BuildsKeeps, ConnectsKeeps, ExchangesKeeps,
     FinishesKeeps, PointsKeeps, ExceptionCallbackKeeps, AfterActsKeeps, AsksKeeps, JudgesKeeps
<1>2. CASE UNCHANGED vars
  <2>1. TypeOK' /\ CacheKept' /\ RequestsInv' /\ StoredFirst' /\ OneAtATime'
    BY <1>2 DEF vars, IInv, TypeOK, CacheKept, RequestsInv, StoredFirst, OneAtATime, At
  <2>2. LastsInv'
    BY <1>2 DEF vars, IInv, LastsInv, LastInv, Latest, Settled, Sent
  <2>3. JudgedInv'
    BY <1>2 DEF vars, IInv, JudgedInv, RightOf, LastBefore, Sent, At
  <2> QED BY <2>1, <2>2, <2>3 DEF IInv
<1> QED BY <1>1, <1>2 DEF Next

(* The invariant holds in every behaviour.                                   *)
THEOREM Invariant == Spec => []IInv
BY InitInv, NextInv, PTL DEF Spec

(* Every assertion (AssertionExecutor, get_last_interface_response) judges   *)
(* the last request its parent has sent, or refuses when that one failed,    *)
(* for every order of interfaces and assertions and every number of          *)
(* iterations that run interleaved.                                          *)
THEOREM AssertionsJudgeTheLast == Spec => []AssertsTheLast
<1>1. ASSUME NEW a \in Steps, NEW t, LastBefore(a, t)
      PROVE  LastSent(a) = t
  <2>1. \A u \in Before(a) : u \in Steps /\ ParentOf(u) = ParentOf(a) /\ PlaceOf(u) \in Nat
    BY Order
  <2>2. ASSUME NEW u, LastBefore(a, u)
        PROVE  u = t
    BY <1>1, <2>1, <2>2, Order DEF LastBefore
  <2> QED BY <1>1, <2>2 DEF LastSent, LastBefore
<1>2. IInv => AssertsTheLast
  <2> SUFFICES ASSUME IInv, NEW a \in DOMAIN judged
               PROVE  LET answered == {t \in Before(a) : run[t].answered = "ok"}
                      IN CASE judged[a] = "none"   -> answered = {}
                           [] judged[a] = "failed" -> /\ answered # {}
                                                      /\ run[LastSent(a)].answered = "failed"
                           [] OTHER -> /\ \E t \in Before(a) : Sent(t)
                                       /\ judged[a] = LastSent(a)
                                       /\ judged[a] \in answered
                                       /\ judged[a] \in DOMAIN details
                                       /\ details[judged[a]] = "response"
    BY DEF AssertsTheLast
  <2>1. a \in Steps /\ RightOf(a, judged[a])
    BY DEF IInv, TypeOK, JudgedInv
  <2>2. CASE judged[a] = "none"
    BY <2>1, <2>2, QueueAssumption DEF RightOf
  <2>3. CASE judged[a] = "failed"
    BY <1>1, <2>1, <2>3, QueueAssumption DEF RightOf
  <2>4. CASE judged[a] \in Steps
    BY <1>1, <2>1, <2>4, QueueAssumption DEF RightOf, LastBefore, IInv, StoredFirst
  <2> QED BY <2>1, <2>2, <2>3, <2>4 DEF RightOf
<1> QED BY Invariant, <1>2, PTL

(* What a step sends (InterfaceExecutor, ParamsMaker) is the interface of    *)
(* the cache with the covers of its own script and the prefix once, whatever *)
(* the scripts of the steps that send the same interface do meanwhile.       *)
THEOREM RequestsAreOwn == Spec => []SentIsOwn
<1>1. IInv => SentIsOwn
  <2> SUFFICES ASSUME IInv, NEW s \in Senders, run[s].times # {}
               PROVE  Built(s, run[s])
    BY DEF SentIsOwn, Built, Sends
  <2> QED BY DEF IInv, RequestsInv, RequestInv, Senders
<1> QED BY Invariant, <1>1, PTL
=============================================================================
