----------------------------- MODULE RedisStore -----------------------------
(***************************************************************************)
(* The redis commands and lua scripts the program writes its record with   *)
(* (core/record/redis_client.py, core/lua_script/script).  A store is a    *)
(* function from the live keys to their value and the time they have left, *)
(* in ticks of the clock.  A value is a record of fields (a JSON object    *)
(* kept in a string) or a sequence of such records (a list).               *)
(***************************************************************************)
EXTENDS Integers, Sequences

CONSTANTS
  Week, \* REDIS_TASK_RECORD_TIMEOUT, also the 604800 of print_value.lua
  Hour  \* the 3600 of update_fields.lua and increment_fields.lua

ASSUME ExpiryAssumption == Hour \in Nat \ {0} /\ Week \in Nat /\ Hour < Week

Exists(db, k) == k \in DOMAIN db

Put(db, k, v, left) ==
  [x \in DOMAIN db \cup {k} |-> IF x = k THEN [val |-> v, ttl |-> left] ELSE db[x]]

(* GET and LRANGE k 0 -1.                                                     *)
Elements(db, k) == IF Exists(db, k) THEN db[k].val ELSE <<>>

(* AsyncRedisClient.set_value; and batch_set_value, one MULTI for all keys.   *)
SetValue(db, k, v) == Put(db, k, v, Week)

BatchSet(db, new) ==
  [x \in DOMAIN db \cup DOMAIN new |->
     IF x \in DOMAIN new THEN [val |-> new[x], ttl |-> Week] ELSE db[x]]

(* append_to_list, batch_create_and_init_lists: RPUSH and EXPIRE in a MULTI.  *)
Push(db, k, e) == Put(db, k, Append(Elements(db, k), e), Week)

BatchPush(db, new) ==
  [x \in DOMAIN db \cup DOMAIN new |->
     IF x \in DOMAIN new
       THEN [val |-> Append(Elements(db, x), new[x]), ttl |-> Week]
       ELSE db[x]]

Merged(old, fields) ==
  [f \in DOMAIN old \cup DOMAIN fields |->
     IF f \in DOMAIN fields THEN fields[f] ELSE old[f]]

(* Seeded fault of UpdateFields: the object is replaced, not merged.         *)
UpdateFields_Replacing(db, k, fields) ==
  IF Exists(db, k) THEN Put(db, k, fields, Hour) ELSE db

(* update_fields.lua: a missing key is left missing, and SET drops the       *)
(* expiry of the key, for which EXPIRE gives an hour.                         *)
UpdateFields(db, k, fields) ==
  IF Exists(db, k) THEN Put(db, k, Merged(db[k].val, fields), Hour) ELSE db

Added(old, fields) ==
  [f \in DOMAIN old \cup DOMAIN fields |->
     IF f \notin DOMAIN fields THEN old[f]
     ELSE fields[f] + (IF f \in DOMAIN old THEN old[f] ELSE 0)]

(* increment_fields.lua.                                                      *)
IncrementFields(db, k, fields) ==
  IF Exists(db, k) THEN Put(db, k, Added(db[k].val, fields), Hour) ELSE db

Counted == {"done_step_count", "failed_step_count", "skipped_step_count"}

(* update_fields_to_list.lua: an error when the element is missing; the step *)
(* counters are added to and the other fields replaced; LSET keeps the       *)
(* expiry.  Lua's index i is i + 1 here.                                      *)
Listed(db, k, i) == Exists(db, k) /\ i + 1 \in 1..Len(db[k].val)

UpdateInList(db, k, i, fields) ==
  LET old == db[k].val[i + 1]
      new == [f \in DOMAIN old \cup DOMAIN fields |->
                IF f \notin DOMAIN fields THEN old[f]
                ELSE IF f \in Counted THEN old[f] + fields[f] ELSE fields[f]]
  IN Put(db, k, [db[k].val EXCEPT ![i + 1] = new], db[k].ttl)

(* print_value.lua: a print that repeats the last entry of the list is       *)
(* counted there, any other is appended.                                      *)
Repeats(db, k, e) ==
  /\ Elements(db, k) # <<>>
  /\ LET last == db[k].val[Len(db[k].val)]
     IN last.type = "action_script_print" /\ last.desc = e.desc

PrintValue(db, k, e) ==
  IF Repeats(db, k, e)
    THEN Put(db, k, [db[k].val EXCEPT ![Len(db[k].val)].times = @ + 1], db[k].ttl)
    ELSE Push(db, k, e)

(* A tick of the clock: a key whose time is up is gone.                       *)
Elapsed(db) ==
  [k \in {x \in DOMAIN db : db[x].ttl > 1} |-> [db[k] EXCEPT !.ttl = @ - 1]]
=============================================================================
