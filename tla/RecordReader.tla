---------------------------- MODULE RecordReader ----------------------------
(***************************************************************************)
(* The server's side of a record: a client follows a list by chunks, reads *)
(* single values and asks for a restore, while the task still writes       *)
(* (server/app/task/record_controller.py, execute.py).  The handlers are   *)
(* coroutines that call redis synchronously, so one request is handled     *)
(* before the next: there is one reader.                                   *)
(***************************************************************************)
EXTENDS Recording

CONSTANTS
  Followed, \* the list the client follows
  Extras,   \* the extra_key of its requests; {} or one key
  Wanted,   \* the sets of keys it asks the values of
  Looks     \* bound: how long the list is when it asks while the task runs

ASSUME FollowedAssumption == Followed \in KeptLists

VARIABLES
  got,      \* what the client has been given of the list; its next index is Len(got)
  reader,   \* the request being handled: [at, keys, extra, rest, now]
  expired   \* history: the keys of the last answer, if it was that they have expired

vars == <<recording, got, reader, expired>>

Idle == [at |-> "idle", keys |-> {}, extra |-> {}, rest |-> {}, now |-> {}]
Init == RecordingInit /\ got = <<>> /\ reader = Idle /\ expired = {}

-----------------------------------------------------------------------------
(* get_json_list_by_chunk.                                                   *)

NothingYet == got = <<>> /\ Elements(db, Followed) = <<>>

(* Seeded fault of Rest: the last entry of the client is given again.        *)
Rest_Overlapping ==
  SubSeq(Elements(db, Followed), IF got = <<>> THEN 1 ELSE Len(got),
         Len(Elements(db, Followed)))

(* LRANGE start_index -1, which is empty beyond the end.                      *)
Rest == SubSeq(Elements(db, Followed), Len(got) + 1, Len(Elements(db, Followed)))

(* The values of the list are used even when the extra key is gone, whose     *)
(* missing value json.loads refuses.                                          *)
ChunkAnswered(extra) ==
  CASE NothingYet -> expired' = {Followed} /\ UNCHANGED got
    [] ~NothingYet /\ ~(extra \subseteq DOMAIN db) ->
         expired' = {} /\ UNCHANGED got
    [] OTHER -> expired' = {} /\ got' = got \o Rest

(* AsyncRedisClient.sync_import_from_file: what is served from the backup    *)
(* begins with reading it, and fails when it is missing, or not yet written. *)
Imports(for, keys, extra) ==
  IF backup.at = "whole"
    THEN /\ reader' = [at |-> for, keys |-> keys, extra |-> extra,
                       rest |-> DOMAIN backup.keys, now |-> {}]
         /\ UNCHANGED expired
    ELSE /\ expired' = {}
         /\ UNCHANGED reader

AsksChunk(extra) ==
  /\ reader.at = "idle"
  /\ Len(Elements(db, Followed)) \in Looks \/ main.at = "closed"
  /\ IF NothingYet THEN Imports("chunk", {Followed}, extra) /\ UNCHANGED got
     ELSE ChunkAnswered(extra) /\ UNCHANGED reader
  /\ UNCHANGED recording

(* get_json_from_redis for one key, get_redis_details_batch for several.     *)
AsksValues(keys) ==
  /\ reader.at = "idle"
  /\ IF keys \subseteq DOMAIN db THEN expired' = {} /\ UNCHANGED reader
     ELSE Imports("values", keys, {})
  /\ UNCHANGED <<recording, got>>

(* POST /restore_record.                                                     *)
AsksRestore ==
  /\ reader.at = "idle" /\ Imports("restore", {}, {})
  /\ UNCHANGED <<recording, got>>

-----------------------------------------------------------------------------
(* The commands of the import are one pipeline and no transaction, so that   *)
(* those of the task come in between.                                        *)

Importing == reader.at # "idle"

(* Seeded fault of ImportDeletes: what is there is not deleted first.        *)
ImportDeletes_Nothing ==
  /\ Importing /\ reader.now = {}
  /\ \E K \in Handled(reader.rest) :
       reader' = [reader EXCEPT !.rest = @ \ K, !.now = K]
  /\ UNCHANGED <<recording, got, expired>>

ImportDeletes ==
  /\ Importing /\ reader.now = {}
  /\ \E K \in Handled(reader.rest) :
       /\ db' = [k \in DOMAIN db \ K |-> db[k]]
       /\ reader' = [reader EXCEPT !.rest = @ \ K, !.now = K]
  /\ UNCHANGED <<loaded, main, visit, raised, outcome, unmade, flying, sent, saving, ticks, got, expired>>

(* Seeded fault of ImportSets: only lists are restored.                      *)
ImportSets_ListsOnly ==
  /\ Importing /\ reader.now # {}
  /\ LET lists == reader.now \cap Lists IN
       db' = [k \in DOMAIN db \cup lists |->
                IF k \in lists THEN [val |-> Elements(db, k) \o backup.keys[k].val,
                                     ttl |-> backup.keys[k].ttl]
                ELSE db[k]]
  /\ reader' = [reader EXCEPT !.now = {}]
  /\ UNCHANGED <<loaded, main, visit, raised, outcome, unmade, flying, sent, saving, ticks, got, expired>>

(* SET or RPUSH, then EXPIRE with the time left when the key was exported.   *)
Restored(k) ==
  LET saved == backup.keys[k]
  IN [val |-> IF k \in Lists THEN Elements(db, k) \o saved.val ELSE saved.val,
      ttl |-> saved.ttl]

ImportSets ==
  /\ Importing /\ reader.now # {}
  /\ db' = [k \in DOMAIN db \cup reader.now |->
             IF k \in reader.now THEN Restored(k) ELSE db[k]]
  /\ reader' = [reader EXCEPT !.now = {}]
  /\ UNCHANGED <<loaded, main, visit, raised, outcome, unmade, flying, sent, saving, ticks, got, expired>>

(* The second query, and the answer.                                          *)
ImportEnds ==
  /\ Importing /\ reader.rest = {} /\ reader.now = {}
  /\ reader' = Idle
  /\ CASE reader.at = "chunk"   -> ChunkAnswered(reader.extra)
       [] reader.at = "values"  ->
            /\ expired' = IF reader.keys \subseteq DOMAIN db THEN {} ELSE reader.keys
            /\ UNCHANGED got
       [] reader.at = "restore" -> expired' = {} /\ UNCHANGED got
  /\ UNCHANGED recording

Reader ==
  \/ \E extra \in Extras : AsksChunk(extra)
  \/ \E keys \in Wanted : AsksValues(keys)
  \/ AsksRestore
  \/ ImportDeletes \/ ImportSets \/ ImportEnds

(* A request takes no time on the scale of the clock.                        *)
Surroundings ==
  /\ Tick \/ RedisRestarts
  /\ reader.at = "idle"
  /\ UNCHANGED <<got, reader, expired>>

Next ==
  \/ Writer /\ UNCHANGED <<got, reader, expired>>
  \/ Reader
  \/ Surroundings

Spec == Init /\ [][Next]_vars

-----------------------------------------------------------------------------
(* Properties.                                                               *)

(* A list restored over itself, a print counted twice, a message sent again: *)
(* nothing is ever in a list twice.  And while the task lives, nothing is    *)
(* lost but by a restore of a backup that was read too early for it, or a    *)
(* print whose script redis has forgotten.                                   *)
MessagesIn(entries) ==
  Cardinality(UNION {{<<i, n>> : n \in 0..entries[i].times} : i \in DOMAIN entries})

EachMessageOnce ==
  \A k \in KeptLists :
    LET there == MessagesIn(Elements(db, k))
        underway == Cardinality({m \in flying : m.key = k})
    IN /\ there + underway <= sent[k]
       /\ (loaded /\ ~late /\ main.at # "closed" /\ k \notin reader.now)
            => there + underway = sent[k]

(* The client's pieces add up: what it has been given is a beginning of the  *)
(* list, while the task runs and after the list has expired and been         *)
(* restored, except that the count of a repeated print may lag, and unless a *)
(* message arrived when the export had passed its list.                      *)
ReaderAgrees ==
  LET list == Elements(db, Followed)
  IN (~late /\ list # <<>>) =>
       /\ Len(got) <= Len(list)
       /\ \A i \in DOMAIN got :
            /\ got[i].type = list[i].type /\ got[i].desc = list[i].desc
            /\ got[i].times <= list[i].times

(* The record that is kept says what the coroutines waited to write: the end *)
(* of every step with the outcome of one of its executions, which may run    *)
(* concurrently, the counters, the details, and the end of the task.         *)
Ends(status) == Cardinality({v \in Visits : StatusOf(outcome[v]) = status})

HoldsWhatWasAwaited(saved) ==
  /\ \A k \in {TaskInfo, RecordInfo} : k \in DOMAIN saved /\ saved[k].val.status = "end"
  /\ ChildCases \in DOMAIN saved
  /\ saved[ChildCases].val[1] =
       [status |-> "end", done_step_count |-> Ends("success"),
        failed_step_count |-> Ends("error"), skipped_step_count |-> Ends("skipped")]
  /\ \A v \in {u \in Visits : Tracked(u)} :
       /\ Status(StepOf[v]) \in DOMAIN saved /\ CaseStatus \in DOMAIN saved
       /\ LET tracked == {u \in Visits : Tracked(u) /\ StepOf[u] = StepOf[v]}
              shown == saved[Status(StepOf[v])].val
          IN /\ "start" \in DOMAIN shown
             /\ \E u \in tracked : shown.end = u /\ shown.status = StatusOf(outcome[u])
             /\ \E u \in tracked : saved[CaseStatus].val[StepOf[v]] = StatusOf(outcome[u])
  /\ \A v \in Visits :
       (KindOf[v] = "interface" /\ ~Skipped(outcome[v])) => Detail(v) \in DOMAIN saved

(* So it is of a task none of whose steps an exception has ended: one whose  *)
(* children cannot be made has a start and never an end, and the exception   *)
(* keeps the steps after it from beginning.                                  *)
AwaitedIsSaved ==
  (backup.at = "whole" /\ loaded /\ raised = {} /\ backup.ticks < Hour)
    => HoldsWhatWasAwaited(backup.keys)

(* What a coroutine waited to tell comes before all that it told later, even *)
(* what it did not wait for: the first message of a list before all others,  *)
(* in a step's own list its details before the messages of the steps after.  *)
Awaited(k, e) ==
  /\ e.desc \in Visits /\ k = Process(StepOf[e.desc])
  /\ \/ e.type = "action_script"
     \/ e.type = "interface" /\ outcome[e.desc] = "success"

ToldAfter(e, v) ==
  \/ e.type = "action_script_print" /\ \A u \in Visits : KindOf[u] = "script" => u = v
  \/ e.desc \in Visits /\ v \in After[e.desc]

AwaitedComesFirst ==
  ~late => \A k \in DOMAIN db \cap KeptLists :
    LET list == db[k].val
    IN \A i, j \in DOMAIN list :
         i < j => /\ list[j] # Waiting
                  /\ ~(Awaited(k, list[j]) /\ ToldAfter(list[i], list[j].desc))

(* "Expired and not recoverable" is said only of what the backup does not    *)
(* hold either.                                                              *)
ExpiredMeansGone ==
  expired # {} => backup.at = "whole" /\ ~(expired \subseteq DOMAIN backup.keys)

(* Not a property of the code: the backup holds everything however long the  *)
(* task ran.                                                                 *)
BackupHoldsEverything ==
  (backup.at = "whole" /\ loaded /\ raised = {}) => HoldsWhatWasAwaited(backup.keys)
=============================================================================
