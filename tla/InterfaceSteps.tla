--------------------------- MODULE InterfaceSteps ---------------------------
(***************************************************************************)
(* Interface and assertion steps (core/payload/node_executor/interface.py, *)
(* interface_utils, assertion.py).  The steps of a parent run one after    *)
(* another; those of different parents, the iterations of a loop, run      *)
(* interleaved, and execute the same interfaces of the task's cache.  A    *)
(* step that fails does not stop the next one here, as under the           *)
(* strategies that go on; those that stop only cut a behaviour short.      *)
(***************************************************************************)
EXTENDS Integers, Sequences, FiniteSets

CONSTANTS
  Queue,       \* [Parents -> Seq(step)]: the children of a parent
  InterfaceOf, \* [steps -> the interface a step sends, or NoInterface: it asserts]
  BodyTypeOf,  \* [interfaces -> body_type]
  ScriptsOf,   \* [interfaces -> set of Seq(operation)]: what its pre-actions do
  Raising,     \* steps with should_raise: one response code counts as a failure
  NoInterface, NoStep

Parents == DOMAIN Queue
Steps == DOMAIN InterfaceOf
Senders == {s \in Steps : InterfaceOf[s] # NoInterface}
ParentOf(s) == CHOOSE p \in Parents : \E i \in DOMAIN Queue[p] : Queue[p][i] = s
PlaceOf(s) == CHOOSE i \in DOMAIN Queue[ParentOf(s)] : Queue[ParentOf(s)][i] = s
Before(s) == {Queue[ParentOf(s)][i] : i \in 1..(PlaceOf(s) - 1)}

(* Every step is once in the list of one parent; the types are those of the  *)
(* body types of an interface, and a script is a list of calls of            *)
(* at.request.                                                                *)
ASSUME QueueAssumption ==
  /\ \A p \in Parents : Queue[p] \in Seq(Steps)
  /\ \A s \in Steps : \E p \in Parents : \E i \in DOMAIN Queue[p] : Queue[p][i] = s
  /\ \A p, q \in Parents : \A i \in DOMAIN Queue[p] : \A j \in DOMAIN Queue[q] :
       Queue[p][i] = Queue[q][j] => p = q /\ i = j
  /\ NoStep \notin Steps /\ {"none", "failed"} \cap Steps = {}

BodyTypes == {"none", "raw", "x-www-form-urlencoded", "json", "form-data"}

Operations ==
  {"generate_body", "update_body_file", "cover_body_text", "cover_body_form",
   "cover_body_none", "generate_url", "cover_url", "cover_params", "cover_headers"}

ASSUME InterfaceAssumption ==
  /\ BodyTypeOf \in [DOMAIN BodyTypeOf -> BodyTypes]
  /\ \A s \in Senders : InterfaceOf[s] \in DOMAIN BodyTypeOf
  /\ \A f \in DOMAIN BodyTypeOf : \A script \in ScriptsOf[f] : script \in Seq(Operations)

VARIABLES
  cache,   \* origin_interface_mapping: the parts of every interface
  run,     \* the coroutine of each step
  details, \* what redis holds of a request: "response" or "error"
  last,    \* interface_last_node of each parent
  ok,      \* interface_last_node_result of each parent
  judged   \* history: what each assertion has read

vars == <<cache, run, details, last, ok, judged>>

-----------------------------------------------------------------------------
(* The request, as far as its origin and the work done on it go: a part      *)
(* comes from the cache or from the script of a step.                        *)

Parts == {"body", "url", "params", "headers"}

(* What a body of each type is in the cache.                                 *)
Origin(type) ==
  CASE type = "none" -> "nothing"
    [] type \in {"raw", "x-www-form-urlencoded"} -> "text"
    [] type = "json" -> "tree"
    [] type = "form-data" -> "fields"

Template(type) ==
  [by |-> [part \in Parts |-> "cache"], prefixes |-> 0, body |-> Origin(type)]

(* ParamsMaker.generate_body; it fails for a body that is not of its type,   *)
(* as a body that has been generated or covered before.                      *)
Generated(type, body) ==
  CASE type = "none" -> "nothing"
    [] type \in {"raw", "x-www-form-urlencoded"} /\ body = "text" -> "text"
    [] type = "json" /\ body = "tree" -> "text"
    [] type = "form-data" /\ body \in {"fields", "form"} -> "form"
    [] OTHER -> "refused"

TypeOf(s) == BodyTypeOf[InterfaceOf[s]]

Covered(s, info, part) == [info EXCEPT !.by[part] = s]

(* One operation of at.request on the request r of s (CoverInterfaceController). *)
Operate(s, op, r) ==
  CASE op = "generate_body" \/ (op = "update_body_file" /\ TypeOf(s) = "form-data") ->
         [r EXCEPT !.info.body = Generated(TypeOf(s), @)]
    [] op \in {"cover_body_text", "cover_body_form"} ->
         [r EXCEPT !.covers = @ \cup {"body"},
                   !.info = [Covered(s, r.info, "body") EXCEPT
                               !.body = IF op = "cover_body_text" THEN "text" ELSE "form"]]
    [] op = "cover_body_none" -> [r EXCEPT !.info.body = "refused"]
    [] op = "generate_url" /\ ~r.urlCovered ->
         [r EXCEPT !.urlCovered = TRUE, !.info.prefixes = @ + 1]
    [] op = "cover_url" ->
         [r EXCEPT !.urlCovered = TRUE, !.covers = @ \cup {"url"},
                   !.info = [Covered(s, r.info, "url") EXCEPT !.prefixes = 0]]
    [] op \in {"cover_params", "cover_headers"} ->
         LET part == IF op = "cover_params" THEN "params" ELSE "headers"
         IN [r EXCEPT !.covers = @ \cup {part}, !.info = Covered(s, r.info, part)]
    [] OTHER -> r

-----------------------------------------------------------------------------
(* The trace hooks of the HTTP client: the times a hook reads, without which *)
(* it raises, and those it notes.                                            *)

Reads(hook) ==
  CASE hook = "request_start"           -> {}
    [] hook \in {"conn_create_start", "dns_start"} -> {"request_start"}
    [] hook = "dns_end"                 -> {"dns_start_at"}
    [] hook \in {"conn_create_end", "chunk_sent"} -> {"conn_create_start_at"}
    [] hook = "chunk_received"          -> {"conn_create_end_at"}
    [] hook = "redirect"                -> {"start_time_at"}
    [] hook = "request_end"             -> {"start_time_at", "request_start"}

Notes(hook) ==
  CASE hook = "request_start"     -> {"request_start"}
    [] hook = "conn_create_start" -> {"conn_create_start_at"}
    [] hook = "conn_create_end"   -> {"conn_create_end_at"}
    [] hook = "dns_start"         -> {"dns_start_at"}
    [] OTHER                      -> {}

(* The times known after the first n of the hooks.                            *)
Known(times, hooks, n) == times \cup UNION {Notes(hooks[i]) : i \in 1..n}

HooksRaise(times, hooks) ==
  \E i \in DOMAIN hooks : ~(Reads(hooks[i]) \subseteq Known(times, hooks, i - 1))

(* HttpClient.get_session: force_close, so that each request, and each       *)
(* redirection, opens a connection of its own.  The address of a host may be *)
(* in the cache.                                                              *)
Connecting(dns) ==
  <<"conn_create_start">> \o (IF dns THEN <<"dns_start", "dns_end">> ELSE <<>>)
  \o <<"conn_create_end">>

-----------------------------------------------------------------------------
Idle == [at |-> "idle", info |-> Template("none"), urlCovered |-> FALSE, covers |-> {},
         todo |-> <<>>, times |-> {}, hasRaise |-> FALSE, answered |-> "not sent"]

Init ==
  /\ cache = [f \in DOMAIN BodyTypeOf |-> Template(BodyTypeOf[f])]
  /\ run = [s \in Steps |-> Idle]
  /\ details = [s \in {} |-> "response"]
  /\ last = [p \in Parents |-> NoStep]
  /\ ok = [p \in Parents |-> FALSE]
  /\ judged = [s \in {} |-> NoStep]

At(s, place) == run[s].at = place
Turn(s) == At(s, "idle") /\ \A t \in Before(s) : At(t, "done")

(* run returns, or leaves with a RuntimeError: the step is over.              *)
Leaves(s) == run' = [run EXCEPT ![s].at = "done"]

(* get_interface_info, its deep copy, and get_server_prefix.                  *)
Fetches(s) ==
  /\ Turn(s) /\ s \in Senders
  /\ \/ \E script \in ScriptsOf[InterfaceOf[s]] :
          run' = [run EXCEPT ![s] = [@ EXCEPT !.at = "pre", !.todo = script,
                                              !.info = cache[InterfaceOf[s]]]]
     \/ Leaves(s)
  /\ UNCHANGED <<cache, details, last, ok, judged>>

(* Seeded fault of PreActs: the script works on the interface of the cache.  *)
PreActs_Shared(s) ==
  /\ At(s, "pre") /\ run[s].todo # <<>>
  /\ LET r == Operate(s, Head(run[s].todo), run[s]) IN
       /\ run' = [run EXCEPT ![s] = [r EXCEPT !.todo = Tail(@)]]
       /\ cache' = [cache EXCEPT ![InterfaceOf[s]] = r.info]
  /\ UNCHANGED <<details, last, ok, judged>>

(* run_pre_actions: one operation of a script; it fails when the body is     *)
(* refused, and may fail otherwise.                                           *)
PreActs(s) ==
  /\ At(s, "pre") /\ run[s].todo # <<>>
  /\ LET r == Operate(s, Head(run[s].todo), run[s]) IN
       \/ /\ r.info.body # "refused"
          /\ run' = [run EXCEPT ![s] = [r EXCEPT !.todo = Tail(@)]]
       \/ Leaves(s)
  /\ UNCHANGED <<cache, details, last, ok, judged>>

(* The parameters, the body and the url with its prefix; or one of them       *)
(* cannot be made.                                                            *)
Builds(s) ==
  /\ At(s, "pre") /\ run[s].todo = <<>>
  /\ LET body == Generated(TypeOf(s), run[s].info.body)
         by == [run[s].info.by EXCEPT !["body"] = IF body = "nothing" THEN "cache" ELSE @]
         info == [run[s].info EXCEPT !.body = body, !.by = by,
                                     !.prefixes = IF run[s].urlCovered THEN @ ELSE @ + 1]
     IN \/ /\ body # "refused"
           /\ run' = [run EXCEPT ![s] = [@ EXCEPT !.at = "start", !.times = {"start_time_at"},
                                                  !.info = info]]
        \/ Leaves(s)
  /\ UNCHANGED <<cache, details, last, ok, judged>>

(* The stages of a request: the hooks run, and what comes next unless one of  *)
(* them raises or the network fails, either of which is an exception of the   *)
(* request (on_request_exception).                                            *)
Goes(s, hooks, next) ==
  LET times == Known(run[s].times, hooks, Len(hooks)) IN
    run' = [run EXCEPT ![s] =
             IF HooksRaise(run[s].times, hooks)
               THEN [@ EXCEPT !.at = "exception", !.answered = "ok"]
               ELSE [@ EXCEPT !.at = next, !.times = times]]

NetworkFails(s) ==
  run' = [run EXCEPT ![s].at = "exception", ![s].answered = "failed"]

Connects(s) ==
  /\ At(s, "start")
  /\ \/ \E dns \in BOOLEAN : Goes(s, <<"request_start">> \o Connecting(dns), "connected")
     \/ NetworkFails(s)
  /\ UNCHANGED <<cache, details, last, ok, judged>>

(* The body is sent, if there is one; the response is another address, or    *)
(* the end of the request, when the hook reads it.                            *)
Exchanges(s) ==
  /\ At(s, "connected")
  /\ LET body == IF run[s].info.body = "nothing" THEN <<>> ELSE <<"chunk_sent">> IN
       \/ \E dns \in BOOLEAN :
            Goes(s, body \o <<"redirect">> \o Connecting(dns), "redirected")
       \/ Goes(s, body \o <<"chunk_received", "request_end">>, "finish")
       \/ NetworkFails(s)
  /\ UNCHANGED <<cache, details, last, ok, judged>>

(* One redirection of a request is a bound.                                   *)
FollowsRedirect(s) ==
  /\ At(s, "redirected")
  /\ \/ Goes(s, <<"chunk_received", "request_end">>, "finish")
     \/ NetworkFails(s)
  /\ UNCHANGED <<cache, details, last, ok, judged>>

(* finish_callback: the details are stored before anything points to them.    *)
Finishes(s) ==
  /\ At(s, "finish")
  /\ \E raising \in IF s \in Raising THEN BOOLEAN ELSE {FALSE} :
       run' = [run EXCEPT ![s] = [@ EXCEPT !.at = "stored", !.hasRaise = raising,
                                           !.answered = "ok"]]
  /\ details' = [t \in DOMAIN details \cup {s} |-> IF t = s THEN "response" ELSE details[t]]
  /\ UNCHANGED <<cache, last, ok, judged>>

Points(s) ==
  /\ At(s, "stored")
  /\ last' = [last EXCEPT ![ParentOf(s)] = s]
  /\ ok' = [ok EXCEPT ![ParentOf(s)] = TRUE]
  /\ run' = [run EXCEPT ![s].at = IF run[s].hasRaise THEN "exception" ELSE "after"]
  /\ UNCHANGED <<cache, details, judged>>

(* Seeded fault of ExceptionCallback: the result is left as it was.           *)
ExceptionCallback_Silent(s) ==
  /\ At(s, "exception")
  /\ Leaves(s)
  /\ details' = IF run[s].hasRaise THEN details
                ELSE [t \in DOMAIN details \cup {s} |-> IF t = s THEN "error" ELSE details[t]]
  /\ UNCHANGED <<cache, last, ok, judged>>

(* on_request_exception and exception_callback, which leaves the customer's  *)
(* own error alone, and the node of an earlier request in its place.          *)
ExceptionCallback(s) ==
  /\ At(s, "exception")
  /\ Leaves(s)
  /\ IF run[s].hasRaise THEN UNCHANGED <<details, ok>>
     ELSE /\ details' = [t \in DOMAIN details \cup {s} |->
                           IF t = s THEN "error" ELSE details[t]]
          /\ ok' = [ok EXCEPT ![ParentOf(s)] = FALSE]
  /\ UNCHANGED <<cache, last, judged>>

(* run_after_actions, and the end of the step, or its failure.                *)
AfterActs(s) ==
  /\ At(s, "after")
  /\ Leaves(s)
  /\ UNCHANGED <<cache, details, last, ok, judged>>

-----------------------------------------------------------------------------
(* An assertion on the last interface (get_last_interface_response).          *)

Remembers(s, what) ==
  judged' = [t \in DOMAIN judged \cup {s} |-> IF t = s THEN what ELSE judged[t]]

(* It refuses when there is none, or when the last has failed; otherwise it   *)
(* asks redis for the response.                                               *)
Asks(s) ==
  /\ Turn(s) /\ s \notin Senders
  /\ LET p == ParentOf(s) IN
       IF last[p] = NoStep THEN Leaves(s) /\ Remembers(s, "none")
       ELSE IF ~ok[p] THEN Leaves(s) /\ Remembers(s, "failed")
       ELSE run' = [run EXCEPT ![s].at = "asked"] /\ Remembers(s, last[p])
  /\ UNCHANGED <<cache, details, last, ok>>

Judges(s) ==
  /\ At(s, "asked")
  /\ Leaves(s)
  /\ UNCHANGED <<cache, details, last, ok, judged>>

Next ==
  \E s \in Steps :
    \/ Fetches(s) \/ PreActs(s) \/ Builds(s)
    \/ Connects(s) \/ Exchanges(s) \/ FollowsRedirect(s)
    \/ Finishes(s) \/ Points(s) \/ ExceptionCallback(s) \/ AfterActs(s)
    \/ Asks(s) \/ Judges(s)

Spec == Init /\ [][Next]_vars

-----------------------------------------------------------------------------
(* Properties.                                                               *)

(* An assertion judges the response of the last request its parent sent, if   *)
(* that was answered, and refuses if it was not: never the response of an     *)
(* earlier one, or one that is not in redis.  A request counts as answered    *)
(* whatever its code; nothing but the network makes it fail, no trace hook    *)
(* does.  An interface that fails before it sends changes nothing.            *)
Sent(s) == run[s].answered # "not sent"

LastSent(s) ==
  CHOOSE t \in Before(s) : Sent(t) /\ \A u \in Before(s) : Sent(u) => PlaceOf(u) <= PlaceOf(t)

AssertsTheLast ==
  \A a \in DOMAIN judged :
    LET answered == {t \in Before(a) : run[t].answered = "ok"}
    IN CASE judged[a] = "none"   -> answered = {}
         [] judged[a] = "failed" -> answered # {} /\ run[LastSent(a)].answered = "failed"
         [] OTHER -> /\ \E t \in Before(a) : Sent(t)
                     /\ judged[a] = LastSent(a)
                     /\ judged[a] \in answered
                     /\ judged[a] \in DOMAIN details /\ details[judged[a]] = "response"

(* What is sent is the interface of the cache with the covers of the step's   *)
(* own script, all of them and no other step's, but for a body where the       *)
(* interface has none; and the prefix of the server is in the url once,       *)
(* unless the script has covered the url.                                     *)
SentIsOwn ==
  \A s \in Senders :
    (run[s].times # {}) =>
      LET r == run[s] IN
        /\ \A part \in Parts :
             r.info.by[part] =
               IF part \in r.covers \ (IF TypeOf(s) = "none" THEN {"body"} ELSE {})
                 THEN s ELSE "cache"
        /\ r.info.prefixes = IF "url" \in r.covers THEN 0 ELSE 1
=============================================================================
