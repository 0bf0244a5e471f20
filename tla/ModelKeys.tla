----------------------------- MODULE ModelKeys -----------------------------
(***************************************************************************)
(* One platform's models and API keys and the many-to-many table between   *)
(* them (api_key_models): the control-plane requests of                    *)
(* internal/app/provider that create, update and delete them.              *)
(*                                                                         *)
(* The three larger deletes work around a defect of the ORM: they back the *)
(* links up, clear them one owner at a time OUTSIDE the transaction, delete *)
(* the rows inside it, and put the backup back when the transaction fails. *)
(* Between any two of those statements another request, a failing statement *)
(* or the end of the process can come.                                     *)
(*                                                                         *)
(* Each statement outside a transaction is a step; a transaction is one    *)
(* step, as SQLite (the default database) serializes those that write, and *)
(* no foreign key is enforced there.  Appending to an association inserts  *)
(* the associated rows that are missing, ON CONFLICT DO NOTHING.           *)
(***************************************************************************)
EXTENDS Naturals, FiniteSets

CONSTANTS
  Sessions,  \* goroutines serving requests (the batch task worker is one)
  Models,    \* model ids that can be handed out
  Keys,      \* API key ids that can be handed out
  NoKey,     \* the target of requests that are not about one key
  MaxBatch,  \* bound: links one add or update writes
  MaxFaults  \* bound: failing statements and crashes

ASSUME ModelKeysAssumption ==
  /\ MaxBatch \in Nat
  /\ MaxFaults \in Nat
  /\ Models \cap Keys = {}
  /\ NoKey \notin Keys

Links == Models \X Keys

VARIABLES
  platform,  \* does the platform's row exist?
  models,    \* rows of table models
  keys,      \* rows of table api_keys
  links,     \* rows of table api_key_models
  made,      \* ids handed out so far (auto-increment never reuses one)
  job,       \* per session: the request it serves
  faults,    \* failing statements and crashes so far
  deleted,   \* history: rows whose deletion was committed
  contested, \* history: those which another request might still insert then
  wounded    \* history: a request ended leaving links it cleared behind

vars == <<platform, models, keys, links, made, job, faults, deleted, contested, wounded>>

\* target: the models, or keys, a delete is about.  todo: those its loop has
\* yet to visit.  backup: the links it read.  want: the links an add or update
\* is to write.  orphans: the models the orphan scan found.  swept: history, the
\* links its clears removed.
Idle == [op |-> "none", pc |-> "idle", key |-> NoKey, target |-> {}, todo |-> {},
         backup |-> {}, want |-> {}, orphans |-> {}, swept |-> {}]

KeyDelete(s) == job[s].op \in {"deleteKey", "deletePlatform"}

OfModel(m) == {l \in links : l[1] = m}
OfKey(k)   == {l \in links : l[2] = k}

\* What listing an association returns: a join with the other table.
ReadOfModel(m) == {l \in OfModel(m) : l[2] \in keys}

ReadOfKey(k) == {l \in OfKey(k) : l[1] \in models}

Keyless == {m \in models : ReadOfModel(m) = {}}

ModelsIn(S) == {l[1] : l \in S}
KeysIn(S)   == {l[2] : l \in S}

\* A link's end that the delete of s is about.
Owner(s, l) == IF KeyDelete(s) THEN l[2] ELSE l[1]

\* Links that the request of s has backed up and may yet put back.
Backed(s) ==
  {l \in job[s].backup :
     \/ job[s].pc \in {"backup", "clear", "tx"}
     \/ job[s].pc = "restore" /\ Owner(s, l) \in job[s].todo}

\* Rows that the request of s may yet insert: the new ones, the keys an update
\* found, and, at the far end of the links it would put back, rows that were
\* there when it read them.
MayInsert(s) ==
  CASE job[s].op = "addKey"    -> {job[s].key}
    [] job[s].op = "addModels" -> ModelsIn(job[s].want) \cup KeysIn(job[s].want)
    [] job[s].op = "update"    -> KeysIn(job[s].want)
    [] OTHER -> IF KeyDelete(s) THEN ModelsIn(Backed(s)) ELSE KeysIn(Backed(s))

Init ==
  /\ platform = TRUE
  /\ models = {} /\ keys = {} /\ links = {}
  /\ made = {}
  /\ job = [s \in Sessions |-> Idle]
  /\ faults = 0
  /\ deleted = {} /\ contested = {}
  /\ wounded = FALSE

Done(s)      == job' = [job EXCEPT ![s] = Idle]
Goto(s, j)   == job' = [job EXCEPT ![s] = j]
SameHistory  == UNCHANGED <<faults, deleted, contested, wounded>>
SameRows     == UNCHANGED <<platform, models, keys>>

\* History: the request of s deletes these rows.
Deletes(s, rows) ==
  /\ deleted' = deleted \cup rows
  /\ contested' = contested \cup
       {x \in rows : \E o \in Sessions \ {s} : x \in MayInsert(o)}

-----------------------------------------------------------------------------
(* Adding and updating.  All but the batch update check the keys before     *)
(* their transaction.                                                       *)

\* validateAndGetAPIKeys: at least one key, and all of them exist.
Valid(want) == want # {} /\ KeysIn(want) \subseteq keys

BeginAddKey(s, k) ==
  /\ job[s].pc = "idle"
  /\ platform
  /\ k \in Keys \ made
  /\ made' = made \cup {k}
  /\ Goto(s, [Idle EXCEPT !.op = "addKey", !.pc = "write", !.key = k])
  /\ UNCHANGED links /\ SameRows /\ SameHistory

CreateKey(s) ==
  /\ job[s].op = "addKey"
  /\ keys' = keys \cup {job[s].key}
  /\ Done(s)
  /\ UNCHANGED <<platform, models, links, made>> /\ SameHistory

\* AddModelToPlatform and BatchAddModelsToPlatform: want gives every new model
\* the keys it was asked to have, at least one.
BeginAddModels(s, want) ==
  /\ job[s].pc = "idle"
  /\ platform
  /\ Valid(want)
  /\ ModelsIn(want) \cap made = {}
  /\ made' = made \cup ModelsIn(want)
  /\ Goto(s, [Idle EXCEPT !.op = "addModels", !.pc = "write", !.want = want])
  /\ UNCHANGED links /\ SameRows /\ SameHistory

CreateModels(s) ==
  /\ job[s].op = "addModels"
  /\ models' = models \cup ModelsIn(job[s].want)
  /\ keys' = keys \cup KeysIn(job[s].want)
  /\ links' = links \cup job[s].want
  /\ Done(s)
  /\ UNCHANGED <<platform, made>> /\ SameHistory

BeginUpdate(s, want) ==
  /\ job[s].pc = "idle"
  /\ Valid(want)
  /\ \E m \in models : ModelsIn(want) = {m}
  /\ Goto(s, [Idle EXCEPT !.op = "update", !.pc = "write", !.want = want])
  /\ UNCHANGED <<links, made>> /\ SameRows /\ SameHistory

BeginBatchUpdate(s, want) ==
  /\ job[s].pc = "idle"
  /\ platform
  /\ want # {}
  /\ ModelsIn(want) \subseteq models
  /\ Goto(s, [Idle EXCEPT !.op = "batchUpdate", !.pc = "write", !.want = want])
  /\ UNCHANGED <<links, made>> /\ SameRows /\ SameHistory

\* ReplaceModelAPIKeys, for every model in want.
Replace(want) ==
  /\ keys' = keys \cup KeysIn(want)
  /\ links' = {l \in links : l[1] \notin ModelsIn(want)} \cup want

UpdateModel(s) ==
  /\ job[s].op = "update"
  /\ Replace(job[s].want)
  /\ Done(s)
  /\ UNCHANGED <<platform, models, made>> /\ SameHistory

\* Seeded bug: the keys are not looked up in the transaction.
BatchUpdate_blind(s) ==
  /\ job[s].op = "batchUpdate"
  /\ IF ModelsIn(job[s].want) \subseteq models
     THEN Replace(job[s].want)
     ELSE UNCHANGED <<keys, links>>
  /\ Done(s)
  /\ UNCHANGED <<platform, models, made>> /\ SameHistory

\* The batch checks keys and models inside its transaction.
BatchUpdate(s) ==
  /\ job[s].op = "batchUpdate"
  /\ IF KeysIn(job[s].want) \subseteq keys /\ ModelsIn(job[s].want) \subseteq models
     THEN Replace(job[s].want)
     ELSE UNCHANGED <<keys, links>>
  /\ Done(s)
  /\ UNCHANGED <<platform, models, made>> /\ SameHistory

-----------------------------------------------------------------------------
(* The deletes: backup, clear, transaction, restore. *)

\* deleteModelApp does all of it in its transaction.  It clears links only where
\* listing them found a key.
DeleteModel(s, m) ==
  /\ job[s].pc = "idle"
  /\ m \in models
  /\ links' = IF ReadOfModel(m) = {} THEN links ELSE links \ OfModel(m)
  /\ models' = models \ {m}
  /\ Deletes(s, {m})
  /\ UNCHANGED <<platform, keys, made, job, faults, wounded>>

BeginBatchDelete(s, M) ==
  /\ job[s].pc = "idle"
  /\ platform
  /\ M # {} /\ M \subseteq models
  /\ Goto(s, [Idle EXCEPT !.op = "batchDelete", !.pc = "backup", !.target = M,
                          !.todo = M])
  /\ UNCHANGED <<links, made>> /\ SameRows /\ SameHistory

BeginDeleteKey(s, k) ==
  /\ job[s].pc = "idle"
  /\ k \in keys
  /\ Goto(s, [Idle EXCEPT !.op = "deleteKey", !.pc = "backup", !.key = k,
                          !.target = {k}, !.todo = {k}])
  /\ UNCHANGED <<links, made>> /\ SameRows /\ SameHistory

BeginDeletePlatform(s) ==
  /\ job[s].pc = "idle"
  /\ platform
  /\ Goto(s, [Idle EXCEPT !.op = "deletePlatform", !.target = keys, !.todo = keys,
                          !.pc = IF keys = {} THEN "tx" ELSE "backup"])
  /\ UNCHANGED <<links, made>> /\ SameRows /\ SameHistory

\* The loop that lists the links of x; after the last one comes the clear loop,
\* over every model of a batch but only over the keys that have links.
Backup(s, x, found) ==
  /\ job[s].pc = "backup"
  /\ x \in job[s].todo
  /\ LET rest == job[s].todo \ {x}
         back == job[s].backup \cup found
         clear == IF KeyDelete(s) THEN KeysIn(back) ELSE job[s].target
     IN Goto(s, [job[s] EXCEPT !.backup = back,
                   !.todo = IF rest = {} THEN clear ELSE rest,
                   !.pc = IF rest # {} THEN "backup" ELSE IF clear = {} THEN "tx" ELSE "clear"])
  /\ UNCHANGED <<links, made>> /\ SameRows /\ SameHistory

BackupModel(s, m) == job[s].op = "batchDelete" /\ Backup(s, m, ReadOfModel(m))

BackupKey(s, k) == KeyDelete(s) /\ Backup(s, k, ReadOfKey(k))

Clear(s, x, gone) ==
  /\ job[s].pc = "clear"
  /\ x \in job[s].todo
  /\ links' = links \ gone
  /\ Goto(s, [job[s] EXCEPT !.todo = @ \ {x}, !.swept = @ \cup gone,
                            !.pc = IF job[s].todo = {x} THEN "tx" ELSE "clear"])
  /\ UNCHANGED made /\ SameRows /\ SameHistory

ClearModel(s, m) == job[s].op = "batchDelete" /\ Clear(s, m, OfModel(m))

\* Seeded bug: the loop passes over the key without clearing its links.
ClearKey_skips(s, k) == KeyDelete(s) /\ Clear(s, k, {})
ClearKey(s, k) == KeyDelete(s) /\ Clear(s, k, OfKey(k))

DeleteModels(s) ==
  /\ job[s].op = "batchDelete" /\ job[s].pc = "tx"
  /\ models' = models \ job[s].target
  /\ Deletes(s, job[s].target \cap models)
  /\ Done(s)
  /\ UNCHANGED <<platform, keys, links, made, faults, wounded>>

\* The transaction failed: the restore loop follows, if it has anything to do.
\* What the clears removed beyond the backup is lost here.
RolledBack(s) ==
  /\ job[s].pc = "tx"
  /\ IF job[s].backup = {} THEN Done(s)
     ELSE Goto(s, [job[s] EXCEPT !.pc = "restore",
                                 !.todo = {Owner(s, l) : l \in job[s].backup}])
  /\ wounded' = (wounded \/ ~(job[s].swept \subseteq job[s].backup))
  /\ UNCHANGED <<links, made, deleted, contested>> /\ SameRows

\* All models and keys of the platform, then its row, which must be there.
DeletePlatform(s) ==
  /\ job[s].op = "deletePlatform" /\ job[s].pc = "tx"
  /\ \/ /\ platform
        /\ platform' = FALSE /\ models' = {} /\ keys' = {}
        /\ Deletes(s, models \cup keys)
        /\ Done(s)
        /\ UNCHANGED <<links, made, faults, wounded>>
     \/ ~platform /\ RolledBack(s) /\ UNCHANGED faults

\* Seeded bug: models that lost their last key are left behind.
DeleteKeyRow_noScan(s) ==
  /\ job[s].op = "deleteKey" /\ job[s].pc = "tx"
  /\ job[s].key \in keys
  /\ keys' = keys \ {job[s].key}
  /\ Deletes(s, {job[s].key})
  /\ Done(s)
  /\ UNCHANGED <<platform, models, links, made, faults, wounded>>

DeleteKeyRow(s) ==
  /\ job[s].op = "deleteKey" /\ job[s].pc = "tx"
  /\ \/ /\ job[s].key \in keys
        /\ keys' = keys \ {job[s].key}
        /\ Deletes(s, {job[s].key})
        /\ Goto(s, [job[s] EXCEPT !.pc = "scan"])
        /\ UNCHANGED <<platform, models, links, made, faults, wounded>>
     \/ job[s].key \notin keys /\ RolledBack(s) /\ UNCHANGED faults

\* removeOrphanedModels: list the platform's models without a key ...
FindOrphans(s) ==
  /\ job[s].pc = "scan"
  /\ IF Keyless = {} THEN Done(s)
     ELSE Goto(s, [job[s] EXCEPT !.pc = "remove", !.orphans = Keyless])
  /\ UNCHANGED <<links, made>> /\ SameRows /\ SameHistory

\* ... and delete those ids.
RemoveOrphans(s) ==
  /\ job[s].pc = "remove"
  /\ models' = models \ job[s].orphans
  /\ Deletes(s, job[s].orphans \cap models)
  /\ Done(s)
  /\ UNCHANGED <<platform, keys, links, made, faults, wounded>>

Restored(s, x) ==
  IF job[s].todo = {x} THEN Done(s) ELSE Goto(s, [job[s] EXCEPT !.todo = @ \ {x}])

\* AppendModelAPIKeys: links the model to its keys, inserting missing keys.
RestoreModel(s, m) ==
  /\ job[s].op = "batchDelete" /\ job[s].pc = "restore" /\ m \in job[s].todo
  /\ LET back == {l \in job[s].backup : l[1] = m} IN
     /\ links' = links \cup back
     /\ keys' = keys \cup KeysIn(back)
  /\ Restored(s, m)
  /\ UNCHANGED <<platform, models, made>> /\ SameHistory

\* Seeded bug: the loop returns after its first key.
RestoreKey_stops(s, k) ==
  /\ KeyDelete(s) /\ job[s].pc = "restore" /\ k \in job[s].todo
  /\ links' = links \cup {l \in job[s].backup : l[2] = k}
  /\ Done(s)
  /\ UNCHANGED <<platform, models, keys, made>> /\ SameHistory

\* AppendAPIKeyModels: links the key to its models, inserting missing models;
\* the key's own row is not touched.
RestoreKey(s, k) ==
  /\ KeyDelete(s) /\ job[s].pc = "restore" /\ k \in job[s].todo
  /\ LET back == {l \in job[s].backup : l[2] = k} IN
     /\ links' = links \cup back
     /\ models' = models \cup ModelsIn(back)
  /\ Restored(s, k)
  /\ wounded' = (wounded \/ k \notin keys)
  /\ UNCHANGED <<platform, keys, made, faults, deleted, contested>>

-----------------------------------------------------------------------------
(* Failures. *)

\* A statement fails where the request returns its error and does no more.
CallFails(s) ==
  /\ job[s].pc \in {"write", "backup", "clear", "scan", "remove"}
  /\ faults < MaxFaults
  /\ faults' = faults + 1
  /\ wounded' = (wounded \/ job[s].swept # {} \/ job[s].pc \in {"scan", "remove"})
  /\ Done(s)
  /\ UNCHANGED <<links, made, deleted, contested>> /\ SameRows

TxFails(s) ==
  /\ faults < MaxFaults
  /\ faults' = faults + 1
  /\ RolledBack(s)

\* An error of one restore is logged and the loop goes on.
RestoreFails(s, x) ==
  /\ job[s].pc = "restore" /\ x \in job[s].todo
  /\ faults < MaxFaults
  /\ faults' = faults + 1
  /\ wounded' = TRUE
  /\ Restored(s, x)
  /\ UNCHANGED <<links, made, deleted, contested>> /\ SameRows

\* The process ends and starts again.  On every start
\* migrateModelAPIKeysToAssociations links models without a key to all the
\* keys of the platform.
Restart ==
  /\ faults < MaxFaults
  /\ faults' = faults + 1
  /\ job' = [s \in Sessions |-> Idle]
  /\ links' = links \cup (Keyless \X keys)
  /\ wounded' = (keys = {} /\ models # {})
  /\ UNCHANGED <<platform, models, keys, made, deleted, contested>>

-----------------------------------------------------------------------------

Wants == {w \in SUBSET Links : Cardinality(w) <= MaxBatch}

Adding(s) ==
  \/ \E k \in Keys : BeginAddKey(s, k)
  \/ CreateKey(s)
  \/ \E want \in Wants : BeginAddModels(s, want)
  \/ CreateModels(s)
  \/ \E want \in Wants : BeginUpdate(s, want) \/ BeginBatchUpdate(s, want)
  \/ UpdateModel(s)
  \/ BatchUpdate(s)

Deleting(s) ==
  \/ \E m \in Models : DeleteModel(s, m) \/ BackupModel(s, m) \/ ClearModel(s, m)
                       \/ RestoreModel(s, m)
  \/ \E M \in SUBSET Models : BeginBatchDelete(s, M)
  \/ \E k \in Keys : BeginDeleteKey(s, k) \/ BackupKey(s, k) \/ ClearKey(s, k)
                     \/ RestoreKey(s, k)
  \/ BeginDeletePlatform(s)
  \/ DeleteModels(s) \/ DeletePlatform(s) \/ DeleteKeyRow(s)
  \/ FindOrphans(s) \/ RemoveOrphans(s)

Failing(s) ==
  \/ CallFails(s)
  \/ TxFails(s)
  \/ \E x \in Models \cup Keys : RestoreFails(s, x)

Next == (\E s \in Sessions : Adding(s) \/ Deleting(s) \/ Failing(s)) \/ Restart

Spec == Init /\ [][Next]_vars

-----------------------------------------------------------------------------
(* Properties *)

Ops == {"none", "addKey", "addModels", "update", "batchUpdate", "batchDelete",
        "deleteKey", "deletePlatform"}
Pcs == {"idle", "write", "backup", "clear", "tx", "restore", "scan", "remove"}
Ids == Models \cup Keys

JobType ==
  {j \in [op : Ops, pc : Pcs, key : Keys \cup {NoKey}, target : SUBSET Ids,
          todo : SUBSET Ids, backup : SUBSET Links, want : SUBSET Links,
          orphans : SUBSET Models, swept : SUBSET Links] :
     j.op = "addKey" => j.key \in Keys}

\* Types of the tables and of the requests in flight.
TypeOK ==
  /\ platform \in BOOLEAN
  /\ models \subseteq Models
  /\ keys \subseteq Keys
  /\ links \subseteq Links
  /\ made \subseteq Ids
  /\ job \in [Sessions -> JobType]
  /\ faults \in Nat
  /\ deleted \subseteq Ids /\ contested \subseteq Ids
  /\ wounded \in BOOLEAN

\* One request at a time, whichever statement of it fails and whenever the
\* process ends: api_key_models never names a model or a key that is gone, and
\* a deleted platform leaves neither behind (service.go:50).
TablesAgree ==
  /\ links \subseteq models \X keys
  /\ ~platform => models = {} /\ keys = {}

\* A row whose deletion was committed is back only if, at the commit, another
\* request was in flight that had found the row and might still insert it: an
\* add or update that had validated the key, or a delete that had backed up a
\* link to it and may have to put it back.  Nothing that begins later brings it
\* back, nor does the request that deleted it.
DeletedStaysDeleted == deleted \cap (models \cup keys) \subseteq contested

\* One request at a time, what the clears of a delete remove is in its backup:
\* the backup reads the links through a join, the clears remove rows.
ClearedIsBackedUp ==
  \A s \in Sessions :
    job[s].pc \in {"clear", "tx", "restore"} => job[s].swept \subseteq job[s].backup

\* A delete whose transaction failed and whose restore loop met no error
\* returns with every link back that it cleared.
FailedDeleteRestores ==
  [][\A s \in Sessions :
       job[s].pc = "restore" /\ job'[s].pc = "idle" /\ ~wounded' /\ faults' = faults
         => job[s].swept \subseteq links']_vars

\* Did the request of s take a key from model m, and is it yet to restore it, to
\* delete m or to look for models left without one?
Holds(s, m) ==
  \/ job[s].pc \in {"clear", "tx"} /\ \E l \in job[s].swept : l[1] = m
  \/ job[s].pc = "restore" /\ \E l \in job[s].backup : l[1] = m /\ Owner(s, l) \in job[s].todo
  \/ job[s].pc = "scan"
  \/ job[s].pc = "remove" /\ m \in job[s].orphans

\* A model needs a key (utils.go:76).  Whatever requests interleave, a model
\* without one lost it to a request in flight that is about to restore it, to
\* delete the model or to look for such models, unless a request ended leaving
\* links it had cleared behind.
KeylessAreHeld ==
  wounded \/ \A m \in Keyless : \E s \in Sessions : Holds(s, m)
=============================================================================
