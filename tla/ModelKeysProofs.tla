--------------------------- MODULE ModelKeysProofs ---------------------------
(***************************************************************************)
(* ModelKeys for any sessions, models, keys and any number of failures.    *)
(***************************************************************************)
EXTENDS ModelKeys, TLAPS

-----------------------------------------------------------------------------
(* Types. *)

\* What one step may do: replace the request of s, and change the tables.
LEMMA TypeHelper ==
  ASSUME TypeOK, NEW s \in Sessions, NEW w \in JobType, Goto(s, w),
         platform' \in BOOLEAN, models' \subseteq Models, keys' \subseteq Keys,
         links' \subseteq Links, made' \subseteq Ids, faults' \in Nat,
         deleted' \subseteq Ids, contested' \subseteq Ids, wounded' \in BOOLEAN
  PROVE  TypeOK'
BY DEF TypeOK, Goto

DeleteOps == {"batchDelete", "deleteKey", "deletePlatform"}

\* What is deleted is recorded, and may be contested.
LEMMA DeletesTyped ==
  ASSUME TypeOK, NEW s, NEW rows \in SUBSET Ids, Deletes(s, rows)
  PROVE  deleted' \subseteq Ids /\ contested' \subseteq Ids
BY DEF TypeOK, Deletes

LEMMA IdleTyped == Idle \in JobType
BY DEF Idle, JobType, Ops, Pcs

LEMMA LinkEnds ==
  ASSUME NEW S \in SUBSET Links
  PROVE  /\ ModelsIn(S) \subseteq Models
         /\ KeysIn(S) \subseteq Keys
         /\ \A s : {Owner(s, l) : l \in S} \subseteq Ids
BY DEF Links, ModelsIn, KeysIn, Owner, Ids

LEMMA Subsets ==
  ASSUME TypeOK, NEW m, NEW k
  PROVE  /\ OfModel(m) \subseteq links /\ OfKey(k) \subseteq links
         /\ ReadOfModel(m) \subseteq links /\ ReadOfKey(k) \subseteq links
         /\ Keyless \subseteq Models
BY DEF TypeOK, OfModel, OfKey, ReadOfModel, ReadOfKey, Keyless

LEMMA RolledBackTyped ==
  ASSUME TypeOK, NEW s \in Sessions, RolledBack(s), faults' \in Nat
  PROVE  TypeOK'
<1> DEFINE r == [job[s] EXCEPT !.pc = "restore", !.todo = {Owner(s, l) : l \in job[s].backup}]
<1>1. job[s] \in JobType
  BY DEF TypeOK
<1>2. {Owner(s, l) : l \in job[s].backup} \subseteq Ids
  BY <1>1, LinkEnds DEF JobType
<1>3. r \in JobType
  BY <1>1, <1>2 DEF JobType, Ops, Pcs
<1>4. PICK w \in JobType : Goto(s, w)
  BY <1>3, IdleTyped DEF RolledBack, Done, Goto
<1>5. wounded' \in BOOLEAN
  BY DEF RolledBack, TypeOK
<1> QED BY <1>4, <1>5, TypeHelper DEF RolledBack, SameRows, TypeOK

LEMMA AddingTyped == ASSUME TypeOK, NEW s \in Sessions, Adding(s) PROVE TypeOK'
<1>0. job[s] \in JobType
  BY DEF TypeOK
<1>1. ASSUME NEW k \in Keys, BeginAddKey(s, k) PROVE TypeOK'
  <2>1. [Idle EXCEPT !.op = "addKey", !.pc = "write", !.key = k] \in JobType
    BY IdleTyped DEF Idle, JobType, Ops, Pcs
  <2> QED BY <1>1, <2>1, TypeHelper DEF BeginAddKey, SameRows, SameHistory, TypeOK, Ids
<1>2. ASSUME CreateKey(s) PROVE TypeOK'
  <2>1. job[s].key \in Keys
    BY <1>0, <1>2 DEF JobType, CreateKey
  <2> QED BY <1>2, <2>1, IdleTyped, TypeHelper DEF CreateKey, Done, Goto, SameHistory, TypeOK
<1>3. ASSUME NEW want \in Wants, BeginAddModels(s, want) PROVE TypeOK'
  <2>1. want \in SUBSET Links
    BY DEF Wants
  <2>2. [Idle EXCEPT !.op = "addModels", !.pc = "write", !.want = want] \in JobType
    BY <2>1, IdleTyped DEF Idle, JobType, Ops, Pcs
  <2> QED BY <1>3, <2>1, <2>2, LinkEnds, TypeHelper DEF BeginAddModels, SameRows, SameHistory, TypeOK, Ids
<1>4. ASSUME CreateModels(s) PROVE TypeOK'
  <2>1. job[s].want \in SUBSET Links
    BY <1>0 DEF JobType
  <2> QED BY <1>4, <2>1, LinkEnds, IdleTyped, TypeHelper DEF CreateModels, Done, Goto, SameHistory, TypeOK
<1>5. ASSUME NEW want \in Wants, BeginUpdate(s, want) PROVE TypeOK'
  <2>1. [Idle EXCEPT !.op = "update", !.pc = "write", !.want = want] \in JobType
    BY IdleTyped DEF Idle, JobType, Ops, Pcs, Wants
  <2> QED BY <1>5, <2>1, TypeHelper DEF BeginUpdate, SameRows, SameHistory, TypeOK
<1>6. ASSUME NEW want \in Wants, BeginBatchUpdate(s, want) PROVE TypeOK'
  <2>1. [Idle EXCEPT !.op = "batchUpdate", !.pc = "write", !.want = want] \in JobType
    BY IdleTyped DEF Idle, JobType, Ops, Pcs, Wants
  <2> QED BY <1>6, <2>1, TypeHelper DEF BeginBatchUpdate, SameRows, SameHistory, TypeOK
<1>7. ASSUME UpdateModel(s) PROVE TypeOK'
  <2>1. job[s].want \in SUBSET Links
    BY <1>0 DEF JobType
  <2> QED BY <1>7, <2>1, LinkEnds, IdleTyped, TypeHelper
          DEF UpdateModel, Replace, Done, Goto, SameHistory, TypeOK
<1>8. ASSUME BatchUpdate(s) PROVE TypeOK'
  <2>1. job[s].want \in SUBSET Links
    BY <1>0 DEF JobType
  <2> QED BY <1>8, <2>1, LinkEnds, IdleTyped, TypeHelper
          DEF BatchUpdate, Replace, Done, Goto, SameHistory, TypeOK
<1> QED BY <1>1, <1>2, <1>3, <1>4, <1>5, <1>6, <1>7, <1>8 DEF Adding

LEMMA BackupTyped ==
  ASSUME TypeOK, NEW s \in Sessions, NEW x, NEW found \in SUBSET Links, Backup(s, x, found)
  PROVE  TypeOK'
<1> DEFINE rest == job[s].todo \ {x}
           back == job[s].backup \cup found
           clear == IF KeyDelete(s) THEN KeysIn(back) ELSE job[s].target
           todo == IF rest = {} THEN clear ELSE rest
           pc == IF rest # {} THEN "backup" ELSE IF clear = {} THEN "tx" ELSE "clear"
<1>1. job[s] \in JobType
  BY DEF TypeOK
<1>2. back \in SUBSET Links
  BY <1>1 DEF JobType
<1>3. clear \in SUBSET Ids
  BY <1>1, <1>2, LinkEnds DEF JobType, Ids
<1>4. todo \in SUBSET Ids /\ pc \in Pcs
  BY <1>1, <1>3 DEF JobType, Pcs
<1>5. Goto(s, [job[s] EXCEPT !.backup = back, !.todo = todo, !.pc = pc])
  BY DEF Backup
<1> HIDE DEF back, clear, todo, pc
<1>6. [job[s] EXCEPT !.backup = back, !.todo = todo, !.pc = pc] \in JobType
  BY <1>1, <1>2, <1>4 DEF JobType
<1> QED BY <1>5, <1>6, TypeHelper DEF Backup, SameRows, SameHistory, TypeOK

LEMMA ClearTyped ==
  ASSUME TypeOK, NEW s \in Sessions, NEW x, NEW gone \in SUBSET Links, Clear(s, x, gone)
  PROVE  TypeOK'
<1>1. job[s] \in JobType
  BY DEF TypeOK
<1>2. [job[s] EXCEPT !.todo = @ \ {x}, !.swept = @ \cup gone,
                     !.pc = IF job[s].todo = {x} THEN "tx" ELSE "clear"] \in JobType
  BY <1>1 DEF JobType, Ops, Pcs
<1> QED BY <1>2, TypeHelper DEF Clear, SameRows, SameHistory, TypeOK

LEMMA RestoredTyped ==
  ASSUME TypeOK, NEW s \in Sessions, NEW x, Restored(s, x)
  PROVE  \E w \in JobType : Goto(s, w)
<1>1. job[s] \in JobType
  BY DEF TypeOK
<1>2. [job[s] EXCEPT !.todo = @ \ {x}] \in JobType
  BY <1>1 DEF JobType
<1> QED BY <1>2, IdleTyped DEF Restored, Done, Goto

LEMMA DeletingTyped == ASSUME TypeOK, NEW s \in Sessions, Deleting(s) PROVE TypeOK'
<1>0. job[s] \in JobType
  BY DEF TypeOK
<1>1. ASSUME NEW m \in Models, DeleteModel(s, m) PROVE TypeOK'
  <2>1. deleted' \subseteq Ids /\ contested' \subseteq Ids
    BY <1>1, DeletesTyped DEF DeleteModel, Ids
  <2> QED BY <1>1, <2>1 DEF DeleteModel, TypeOK
<1>2. ASSUME NEW m \in Models, BackupModel(s, m) PROVE TypeOK'
  <2>1. ReadOfModel(m) \in SUBSET Links
    BY Subsets DEF TypeOK
  <2> QED BY <1>2, <2>1, BackupTyped DEF BackupModel
<1>3. ASSUME NEW m \in Models, ClearModel(s, m) PROVE TypeOK'
  <2>1. OfModel(m) \in SUBSET Links
    BY Subsets DEF TypeOK
  <2> QED BY <1>3, <2>1, ClearTyped DEF ClearModel
<1>4. ASSUME NEW m \in Models, RestoreModel(s, m) PROVE TypeOK'
  <2>1. PICK w \in JobType : Goto(s, w)
    BY <1>4, RestoredTyped DEF RestoreModel
  <2> DEFINE back == {l \in job[s].backup : l[1] = m}
  <2>2. back \in SUBSET Links
    BY <1>0 DEF JobType
  <2>3. links' = links \cup back /\ keys' = keys \cup KeysIn(back)
    BY <1>4 DEF RestoreModel
  <2> HIDE DEF back
  <2> QED BY <1>4, <2>1, <2>2, <2>3, LinkEnds, TypeHelper DEF RestoreModel, SameHistory, TypeOK
<1>5. ASSUME NEW M \in SUBSET Models, BeginBatchDelete(s, M) PROVE TypeOK'
  <2>1. [Idle EXCEPT !.op = "batchDelete", !.pc = "backup", !.target = M, !.todo = M] \in JobType
    BY IdleTyped DEF Idle, JobType, Ops, Pcs, Ids
  <2> QED BY <1>5, <2>1, TypeHelper DEF BeginBatchDelete, SameRows, SameHistory, TypeOK
<1>6. ASSUME NEW k \in Keys, BeginDeleteKey(s, k) PROVE TypeOK'
  <2>1. [Idle EXCEPT !.op = "deleteKey", !.pc = "backup", !.key = k,
                     !.target = {k}, !.todo = {k}] \in JobType
    BY IdleTyped DEF Idle, JobType, Ops, Pcs, Ids
  <2> QED BY <1>6, <2>1, TypeHelper DEF BeginDeleteKey, SameRows, SameHistory, TypeOK
<1>7. ASSUME NEW k \in Keys, BackupKey(s, k) PROVE TypeOK'
  <2>1. ReadOfKey(k) \in SUBSET Links
    BY Subsets DEF TypeOK
  <2> QED BY <1>7, <2>1, BackupTyped DEF BackupKey
<1>8. ASSUME NEW k \in Keys, ClearKey(s, k) PROVE TypeOK'
  <2>1. OfKey(k) \in SUBSET Links
    BY Subsets DEF TypeOK
  <2> QED BY <1>8, <2>1, ClearTyped DEF ClearKey
<1>9. ASSUME NEW k \in Keys, RestoreKey(s, k) PROVE TypeOK'
  <2>1. PICK w \in JobType : Goto(s, w)
    BY <1>9, RestoredTyped DEF RestoreKey
  <2> DEFINE back == {l \in job[s].backup : l[2] = k}
  <2>2. back \in SUBSET Links
    BY <1>0 DEF JobType
  <2>3. links' = links \cup back /\ models' = models \cup ModelsIn(back)
    BY <1>9 DEF RestoreKey
  <2> HIDE DEF back
  <2>4. wounded' \in BOOLEAN
    BY <1>9 DEF RestoreKey, TypeOK
  <2> QED BY <1>9, <2>1, <2>2, <2>3, <2>4, LinkEnds, TypeHelper DEF RestoreKey, TypeOK
<1>10. ASSUME BeginDeletePlatform(s) PROVE TypeOK'
  <2>1. [Idle EXCEPT !.op = "deletePlatform", !.target = keys, !.todo = keys,
                     !.pc = IF keys = {} THEN "tx" ELSE "backup"] \in JobType
    BY IdleTyped DEF Idle, JobType, Ops, Pcs, Ids, TypeOK
  <2> QED BY <1>10, <2>1, TypeHelper DEF BeginDeletePlatform, SameRows, SameHistory, TypeOK
<1>11. ASSUME DeleteModels(s) PROVE TypeOK'
  <2>1. job[s].target \cap models \subseteq Ids
    BY <1>0 DEF JobType
  <2>2. deleted' \subseteq Ids /\ contested' \subseteq Ids
    BY <1>11, <2>1, DeletesTyped DEF DeleteModels
  <2> QED BY <1>11, <2>2, IdleTyped, TypeHelper DEF DeleteModels, Done, Goto, TypeOK
<1>12. ASSUME DeletePlatform(s) PROVE TypeOK'
  <2>1. CASE platform
    <3>1. models \cup keys \subseteq Ids
      BY DEF TypeOK, Ids
    <3>2. deleted' \subseteq Ids /\ contested' \subseteq Ids
      BY <1>12, <2>1, <3>1, DeletesTyped DEF DeletePlatform
    <3> QED BY <1>12, <2>1, <3>2, IdleTyped, TypeHelper DEF DeletePlatform, Done, Goto, TypeOK
  <2>2. CASE ~platform
    BY <1>12, <2>2, RolledBackTyped DEF DeletePlatform, TypeOK
  <2> QED BY <2>1, <2>2
<1>13. ASSUME DeleteKeyRow(s) PROVE TypeOK'
  <2>1. CASE job[s].key \in keys
    <3>1. [job[s] EXCEPT !.pc = "scan"] \in JobType
      BY <1>0 DEF JobType, Pcs
    <3>2. {job[s].key} \subseteq Ids
      BY <2>1 DEF TypeOK, Ids
    <3>3. Deletes(s, {job[s].key})
      BY <1>13, <2>1 DEF DeleteKeyRow, RolledBack
    <3>4. deleted' \subseteq Ids /\ contested' \subseteq Ids
      BY <3>2, <3>3, DeletesTyped
    <3> QED BY <1>13, <2>1, <3>1, <3>4, TypeHelper DEF DeleteKeyRow, TypeOK
  <2>2. CASE job[s].key \notin keys
    BY <1>13, <2>2, RolledBackTyped DEF DeleteKeyRow, TypeOK
  <2> QED BY <2>1, <2>2
<1>14. ASSUME FindOrphans(s) PROVE TypeOK'
  <2>1. [job[s] EXCEPT !.pc = "remove", !.orphans = Keyless] \in JobType
    BY <1>0, Subsets DEF JobType, Pcs
  <2>2. PICK w \in JobType : Goto(s, w)
    BY <1>14, <2>1, IdleTyped DEF FindOrphans, Done, Goto
  <2> QED BY <1>14, <2>2, TypeHelper DEF FindOrphans, SameRows, SameHistory, TypeOK
<1>15. ASSUME RemoveOrphans(s) PROVE TypeOK'
  <2>1. job[s].orphans \cap models \subseteq Ids
    BY <1>0 DEF JobType, Ids
  <2>2. deleted' \subseteq Ids /\ contested' \subseteq Ids
    BY <1>15, <2>1, DeletesTyped DEF RemoveOrphans
  <2> QED BY <1>15, <2>2, IdleTyped, TypeHelper DEF RemoveOrphans, Done, Goto, TypeOK
<1> QED BY <1>1, <1>2, <1>3, <1>4, <1>5, <1>6, <1>7, <1>8, <1>9, <1>10,
           <1>11, <1>12, <1>13, <1>14, <1>15 DEF Deleting

LEMMA FailingTyped == ASSUME TypeOK, NEW s \in Sessions, Failing(s) PROVE TypeOK'
<1>1. ASSUME CallFails(s) PROVE TypeOK'
  <2>1. wounded' \in BOOLEAN /\ faults' \in Nat
    BY <1>1 DEF CallFails, TypeOK
  <2> QED BY <1>1, <2>1, IdleTyped, TypeHelper DEF CallFails, Done, Goto, SameRows, TypeOK
<1>2. ASSUME TxFails(s) PROVE TypeOK'
  BY <1>2, RolledBackTyped DEF TxFails, TypeOK
<1>3. ASSUME NEW x \in Models \cup Keys, RestoreFails(s, x) PROVE TypeOK'
  <2>1. PICK w \in JobType : Goto(s, w)
    BY <1>3, RestoredTyped DEF RestoreFails
  <2> QED BY <1>3, <2>1, TypeHelper DEF RestoreFails, SameRows, TypeOK
<1> QED BY <1>1, <1>2, <1>3 DEF Failing

LEMMA TypeStep == TypeOK /\ [Next]_vars => TypeOK'
<1> SUFFICES ASSUME TypeOK, [Next]_vars PROVE TypeOK'
  OBVIOUS
<1>1. ASSUME Restart PROVE TypeOK'
  <2>1. Keyless \X keys \subseteq Links
    BY Subsets DEF TypeOK, Links
  <2> QED BY <1>1, <2>1, IdleTyped DEF Restart, TypeOK
<1>2. ASSUME UNCHANGED vars PROVE TypeOK'
  BY <1>2 DEF vars, TypeOK
<1> QED BY <1>1, <1>2, AddingTyped, DeletingTyped, FailingTyped DEF Next

LEMMA TypeInit == ASSUME Init PROVE TypeOK
<1>1. job \in [Sessions -> JobType]
  BY IdleTyped DEF Init
<1>2. platform \in BOOLEAN /\ wounded \in BOOLEAN
  BY DEF Init
<1> QED BY <1>1, <1>2 DEF Init, TypeOK

\* TypeOK of the tables and of the requests in flight: no step writes a row, a
\* link or an id outside its table's domain.
THEOREM TypeCorrect == Spec => []TypeOK
BY TypeInit, TypeStep, PTL DEF Spec

-----------------------------------------------------------------------------
(* Models without a key.                                                    *)

\* What KeylessAreHeld needs besides: only adds and updates are written in one
\* step, and a batch delete visits, and so sweeps, its own models only.
Phase(j) ==
  /\ j.op \in {"addKey", "addModels", "update", "batchUpdate"} => j.pc = "write"
  /\ j.op = "batchDelete" /\ j.pc \in {"backup", "clear", "tx"} =>
       j.todo \subseteq j.target /\ ModelsIn(j.swept) \subseteq j.target

Phases == \A s \in Sessions : Phase(job[s])

LEMMA PhaseHelper ==
  ASSUME TypeOK, Phases, NEW s \in Sessions, NEW w, Goto(s, w), Phase(w)
  PROVE  Phases'
BY DEF TypeOK, Phases, Phase, Goto

LEMMA IdlePhase == Phase(Idle)
BY DEF Phase, Idle

LEMMA RolledBackPhase ==
  ASSUME TypeOK, Phases, NEW s \in Sessions, RolledBack(s)
  PROVE  Phases'
<1> DEFINE r == [job[s] EXCEPT !.pc = "restore", !.todo = {Owner(s, l) : l \in job[s].backup}]
<1>1. job[s] \in JobType /\ Phase(job[s]) /\ job[s].pc = "tx"
  BY DEF TypeOK, Phases, RolledBack
<1>2. Phase(r)
  BY <1>1 DEF JobType, Phase
<1> HIDE DEF r
<1>3. PICK w : Goto(s, w) /\ Phase(w)
  BY <1>2, IdlePhase DEF RolledBack, Done, Goto, r
<1> QED BY <1>3, PhaseHelper

LEMMA RestoredPhase ==
  ASSUME TypeOK, Phases, NEW s \in Sessions, NEW x, Restored(s, x), job[s].pc = "restore"
  PROVE  Phases'
<1>1. job[s] \in JobType /\ Phase(job[s])
  BY DEF TypeOK, Phases
<1>2. Phase([job[s] EXCEPT !.todo = @ \ {x}])
  BY <1>1 DEF JobType, Phase
<1> QED BY <1>2, IdlePhase, PhaseHelper DEF Restored, Done, Goto

LEMMA BackupPhase ==
  ASSUME TypeOK, Phases, NEW s \in Sessions, NEW x, NEW found, Backup(s, x, found)
  PROVE  Phases'
<1> DEFINE rest == job[s].todo \ {x}
           back == job[s].backup \cup found
           clear == IF KeyDelete(s) THEN KeysIn(back) ELSE job[s].target
           todo == IF rest = {} THEN clear ELSE rest
           pc == IF rest # {} THEN "backup" ELSE IF clear = {} THEN "tx" ELSE "clear"
           w == [job[s] EXCEPT !.backup = back, !.todo = todo, !.pc = pc]
<1>1. job[s] \in JobType /\ Phase(job[s]) /\ job[s].pc = "backup"
  BY DEF TypeOK, Phases, Backup
<1>2. job[s].op = "batchDelete" => todo \subseteq job[s].target
  BY <1>1 DEF Phase, KeyDelete
<1>3. Goto(s, w)
  BY DEF Backup
<1> HIDE DEF back, clear, todo, pc
<1>4. /\ w.op = job[s].op /\ w.target = job[s].target /\ w.swept = job[s].swept
      /\ w.todo = todo
  BY <1>1 DEF JobType
<1>5. Phase(w)
  BY <1>1, <1>2, <1>4 DEF Phase
<1> QED BY <1>3, <1>5, PhaseHelper

LEMMA ClearPhase ==
  ASSUME TypeOK, Phases, NEW s \in Sessions, NEW x, NEW gone, Clear(s, x, gone),
         job[s].op = "batchDelete" => ModelsIn(gone) \subseteq {x}
  PROVE  Phases'
<1> DEFINE w == [job[s] EXCEPT !.todo = @ \ {x}, !.swept = @ \cup gone,
                               !.pc = IF job[s].todo = {x} THEN "tx" ELSE "clear"]
<1>1. job[s] \in JobType /\ Phase(job[s]) /\ job[s].pc = "clear" /\ x \in job[s].todo
  BY DEF TypeOK, Phases, Clear
<1>2. Goto(s, w)
  BY DEF Clear
<1>3. /\ w.op = job[s].op /\ w.target = job[s].target /\ w.swept = job[s].swept \cup gone
      /\ w.todo = job[s].todo \ {x}
  BY <1>1 DEF JobType
<1> HIDE DEF w
<1>4. ModelsIn(w.swept) = ModelsIn(job[s].swept) \cup ModelsIn(gone)
  BY <1>3 DEF ModelsIn
<1>5. Phase(w)
  BY <1>1, <1>3, <1>4 DEF Phase
<1> QED BY <1>2, <1>5, PhaseHelper

LEMMA PhaseStep == TypeOK /\ Phases /\ [Next]_vars => Phases'
<1> SUFFICES ASSUME TypeOK, Phases, [Next]_vars PROVE Phases'
  OBVIOUS
<1>1. ASSUME NEW s \in Sessions, Adding(s) PROVE Phases'
  <2>1. /\ \A k : Phase([Idle EXCEPT !.op = "addKey", !.pc = "write", !.key = k])
        /\ \A op, want : Phase([Idle EXCEPT !.op = op, !.pc = "write", !.want = want])
    BY DEF Phase, Idle
  <2> QED BY <1>1, <2>1, IdlePhase, PhaseHelper
          DEF Adding, BeginAddKey, CreateKey, BeginAddModels, CreateModels, BeginUpdate,
              BeginBatchUpdate, UpdateModel, BatchUpdate, Done, Goto
<1>2. ASSUME NEW s \in Sessions, Deleting(s) PROVE Phases'
  <2>0. job[s] \in JobType /\ Phase(job[s])
    BY DEF TypeOK, Phases
  <2>1. CASE \E m \in Models : DeleteModel(s, m)
    BY <2>1 DEF DeleteModel, Phases
  <2>2. CASE \/ \E m \in Models : BackupModel(s, m)
             \/ \E k \in Keys : BackupKey(s, k)
    BY <2>2, BackupPhase DEF BackupModel, BackupKey
  <2>3. ASSUME NEW m \in Models, ClearModel(s, m) PROVE Phases'
    BY <2>3, ClearPhase DEF ClearModel, OfModel, ModelsIn
  <2>4. ASSUME NEW k \in Keys, ClearKey(s, k) PROVE Phases'
    BY <2>4, ClearPhase DEF ClearKey, KeyDelete
  <2>5. CASE \/ \E m \in Models : RestoreModel(s, m)
             \/ \E k \in Keys : RestoreKey(s, k)
    BY <2>5, RestoredPhase DEF RestoreModel, RestoreKey
  <2>6. ASSUME NEW M \in SUBSET Models, BeginBatchDelete(s, M) PROVE Phases'
    <3>1. Phase([Idle EXCEPT !.op = "batchDelete", !.pc = "backup", !.target = M, !.todo = M])
      BY DEF Phase, Idle, ModelsIn
    <3> QED BY <2>6, <3>1, PhaseHelper DEF BeginBatchDelete
  <2>7. ASSUME NEW k \in Keys, BeginDeleteKey(s, k) PROVE Phases'
    <3>1. Phase([Idle EXCEPT !.op = "deleteKey", !.pc = "backup", !.key = k,
                             !.target = {k}, !.todo = {k}])
      BY DEF Phase, Idle
    <3> QED BY <2>7, <3>1, PhaseHelper DEF BeginDeleteKey
  <2>8. CASE BeginDeletePlatform(s)
    <3>1. Phase([Idle EXCEPT !.op = "deletePlatform", !.target = keys, !.todo = keys,
                             !.pc = IF keys = {} THEN "tx" ELSE "backup"])
      BY DEF Phase, Idle
    <3> QED BY <2>8, <3>1, PhaseHelper DEF BeginDeletePlatform
  <2>9. CASE DeleteModels(s) \/ RemoveOrphans(s)
    BY <2>9, IdlePhase, PhaseHelper DEF DeleteModels, RemoveOrphans, Done, Goto
  <2>10. CASE DeletePlatform(s)
    BY <2>10, IdlePhase, PhaseHelper, RolledBackPhase DEF DeletePlatform, Done, Goto
  <2>11. CASE DeleteKeyRow(s)
    <3>1. Phase([job[s] EXCEPT !.pc = "scan"])
      BY <2>0, <2>11 DEF DeleteKeyRow, Phase, JobType
    <3> QED BY <2>11, <3>1, PhaseHelper, RolledBackPhase DEF DeleteKeyRow
  <2>12. CASE FindOrphans(s)
    <3>1. Phase([job[s] EXCEPT !.pc = "remove", !.orphans = Keyless])
      BY <2>0, <2>12 DEF FindOrphans, Phase, JobType
    <3> QED BY <2>12, <3>1, IdlePhase, PhaseHelper DEF FindOrphans, Done, Goto
  <2> QED BY <1>2, <2>1, <2>2, <2>3, <2>4, <2>5, <2>6, <2>7, <2>8, <2>9, <2>10, <2>11, <2>12
          DEF Deleting
<1>3. ASSUME NEW s \in Sessions, Failing(s) PROVE Phases'
  BY <1>3, IdlePhase, PhaseHelper, RolledBackPhase, RestoredPhase
     DEF Failing, CallFails, TxFails, RestoreFails, Done, Goto
<1>4. ASSUME Restart PROVE Phases'
  BY <1>4, IdlePhase DEF Restart, Phases
<1>5. ASSUME UNCHANGED vars PROVE Phases'
  BY <1>5 DEF vars, Phases
<1> QED BY <1>1, <1>2, <1>3, <1>4, <1>5 DEF Next

\* A step of s keeps KeylessAreHeld if every model it leaves without a key is
\* then held by s, or was without one already and not on account of s.
LEMMA HeldHelper ==
  ASSUME TypeOK, KeylessAreHeld, NEW s \in Sessions, NEW w, Goto(s, w),
         wounded => wounded',
         \A m \in Keyless' : wounded' \/ Holds(s, m)' \/ (m \in Keyless /\ ~Holds(s, m))
  PROVE  KeylessAreHeld'
<1> SUFFICES ASSUME ~wounded', NEW m \in Keyless' PROVE \E r \in Sessions : Holds(r, m)'
  BY DEF KeylessAreHeld
<1>1. CASE Holds(s, m)'
  BY <1>1
<1>2. CASE m \in Keyless /\ ~Holds(s, m)
  <2>1. PICK r \in Sessions : Holds(r, m)
    BY <1>2 DEF KeylessAreHeld
  <2>2. job'[r] = job[r]
    BY <1>2, <2>1 DEF Goto, TypeOK
  <2>3. Holds(r, m)'
    BY <2>1, <2>2 DEF Holds, Owner, KeyDelete
  <2> QED BY <2>3
<1> QED BY <1>1, <1>2

\* In particular when s held nothing and no model loses its last key.
LEMMA QuietHelper ==
  ASSUME TypeOK, KeylessAreHeld, NEW s \in Sessions, NEW w, Goto(s, w),
         wounded => wounded', Keyless' \subseteq Keyless,
         job[s].pc \in {"idle", "write", "backup"}
  PROVE  KeylessAreHeld'
BY HeldHelper DEF Holds

LEMMA SameKeyless ==
  ASSUME UNCHANGED <<links, models, keys>>
  PROVE  Keyless' = Keyless
BY DEF Keyless, ReadOfModel, OfModel

LEMMA AddingHeld ==
  ASSUME TypeOK, Phases, KeylessAreHeld, NEW s \in Sessions, Adding(s)
  PROVE  KeylessAreHeld'
<1>0. Phase(job[s])
  BY DEF Phases
<1>1. ASSUME NEW k \in Keys, BeginAddKey(s, k) PROVE KeylessAreHeld'
  BY <1>1, SameKeyless, QuietHelper DEF BeginAddKey, SameRows, SameHistory
<1>2. ASSUME CreateKey(s) PROVE KeylessAreHeld'
  <2>1. Keyless' \subseteq Keyless
    BY <1>2 DEF CreateKey, Keyless, ReadOfModel, OfModel
  <2> QED BY <1>0, <1>2, <2>1, QuietHelper DEF CreateKey, Phase, SameHistory, Done, Goto
<1>3. ASSUME NEW want \in Wants, BeginAddModels(s, want) PROVE KeylessAreHeld'
  BY <1>3, SameKeyless, QuietHelper DEF BeginAddModels, SameRows, SameHistory
<1>4. ASSUME CreateModels(s) PROVE KeylessAreHeld'
  <2>1. Keyless' \subseteq Keyless
    BY <1>4 DEF CreateModels, Keyless, ReadOfModel, OfModel, ModelsIn, KeysIn
  <2> QED BY <1>0, <1>4, <2>1, QuietHelper DEF CreateModels, Phase, SameHistory, Done, Goto
<1>5. ASSUME NEW want \in Wants, BeginUpdate(s, want) \/ BeginBatchUpdate(s, want)
      PROVE KeylessAreHeld'
  BY <1>5, SameKeyless, QuietHelper DEF BeginUpdate, BeginBatchUpdate, SameRows, SameHistory
<1>6. ASSUME UpdateModel(s) \/ BatchUpdate(s) PROVE KeylessAreHeld'
  <2>1. CASE Replace(job[s].want)
    <3>1. Keyless' \subseteq Keyless
      BY <1>6, <2>1 DEF UpdateModel, BatchUpdate, Replace, Keyless, ReadOfModel, OfModel,
                        ModelsIn, KeysIn
    <3> QED BY <1>0, <1>6, <3>1, QuietHelper
            DEF UpdateModel, BatchUpdate, Phase, SameHistory, Done, Goto
  <2>2. CASE UNCHANGED <<keys, links>>
    BY <1>0, <1>6, <2>2, SameKeyless, QuietHelper
       DEF UpdateModel, BatchUpdate, Phase, SameHistory, Done, Goto
  <2> QED BY <1>6, <2>1, <2>2 DEF UpdateModel, BatchUpdate
<1> QED BY <1>1, <1>2, <1>3, <1>4, <1>5, <1>6 DEF Adding

\* A clear may take a model's last key: s holds the model from then on.
LEMMA ClearHeld ==
  ASSUME TypeOK, KeylessAreHeld, NEW s \in Sessions, NEW x, NEW gone, Clear(s, x, gone)
  PROVE  KeylessAreHeld'
<1> DEFINE w == [job[s] EXCEPT !.todo = @ \ {x}, !.swept = @ \cup gone,
                               !.pc = IF job[s].todo = {x} THEN "tx" ELSE "clear"]
<1>1. job[s] \in JobType /\ job[s].pc = "clear"
  BY DEF TypeOK, Clear
<1>2. Goto(s, w)
  BY DEF Clear
<1>3. w.swept = job[s].swept \cup gone /\ w.pc \in {"clear", "tx"}
  BY <1>1 DEF JobType
<1> HIDE DEF w
<1>4. job'[s] = w
  BY <1>2 DEF Goto, TypeOK
<1>5. ASSUME NEW m \in Keyless' PROVE Holds(s, m)' \/ (m \in Keyless /\ ~Holds(s, m))
  <2>1. CASE m \in Keyless
    <3>1. Holds(s, m) => Holds(s, m)'
      BY <1>1, <1>3, <1>4 DEF Holds
    <3> QED BY <2>1, <3>1
  <2>2. CASE m \notin Keyless
    <3>1. PICK l \in links : l[1] = m /\ l[2] \in keys
      BY <1>5, <2>2 DEF Clear, SameRows, Keyless, ReadOfModel, OfModel
    <3>2. l \notin links'
      BY <1>5, <3>1 DEF Clear, SameRows, Keyless, ReadOfModel, OfModel
    <3>3. l \in gone
      BY <3>1, <3>2 DEF Clear
    <3> QED BY <1>3, <1>4, <3>1, <3>3 DEF Holds
  <2> QED BY <2>1, <2>2
<1> QED BY <1>2, <1>5, HeldHelper DEF Clear, SameHistory

\* The backup has all that was cleared, or the request has left links behind.
LEMMA RolledBackHeld ==
  ASSUME TypeOK, KeylessAreHeld, NEW s \in Sessions, RolledBack(s)
  PROVE  KeylessAreHeld'
<1> DEFINE r == [job[s] EXCEPT !.pc = "restore", !.todo = {Owner(s, l) : l \in job[s].backup}]
<1>1. job[s] \in JobType /\ job[s].pc = "tx"
  BY DEF TypeOK, RolledBack
<1>2. /\ r.pc = "restore" /\ r.backup = job[s].backup /\ r.op = job[s].op
      /\ r.todo = {Owner(s, l) : l \in job[s].backup}
  BY <1>1 DEF JobType
<1>3. IF job[s].backup = {} THEN Goto(s, Idle) ELSE Goto(s, r)
  BY DEF RolledBack, Done, Goto
<1> HIDE DEF r
<1>4. Keyless' = Keyless
  BY SameKeyless DEF RolledBack, SameRows
<1>5. ASSUME NEW m \in Keyless, ~wounded', Holds(s, m) PROVE Holds(s, m)'
  <2>1. PICK l \in job[s].swept : l[1] = m
    BY <1>1, <1>5 DEF Holds
  <2>2. l \in job[s].backup
    BY <1>5, <2>1 DEF RolledBack
  <2>3. job'[s] = r
    BY <1>3, <2>2 DEF Goto, TypeOK
  <2>4. Owner(s, l)' = Owner(s, l)
    BY <1>2, <2>3 DEF Owner, KeyDelete
  <2> QED BY <1>2, <2>1, <2>2, <2>3, <2>4 DEF Holds
<1> QED BY <1>3, <1>4, <1>5, HeldHelper DEF RolledBack

\* Restoring the links of owner x: the models s held for them have a key again.
LEMMA RestoredHeld ==
  ASSUME TypeOK, KeylessAreHeld, NEW s \in Sessions, NEW x, Restored(s, x),
         job[s].pc = "restore", wounded => wounded',
         \A m \in Keyless' : wounded' \/ m \in Keyless,
         \A m \in Keyless', l \in job[s].backup :
           wounded' \/ ~(l[1] = m /\ Owner(s, l) = x)
  PROVE  KeylessAreHeld'
<1> DEFINE r == [job[s] EXCEPT !.todo = @ \ {x}]
<1>1. job[s] \in JobType
  BY DEF TypeOK
<1>2. r.pc = "restore" /\ r.backup = job[s].backup /\ r.op = job[s].op
      /\ r.todo = job[s].todo \ {x}
  BY <1>1 DEF JobType
<1>3. IF job[s].todo = {x} THEN Goto(s, Idle) ELSE Goto(s, r)
  BY DEF Restored, Done, Goto
<1> HIDE DEF r
<1>4. ASSUME NEW m \in Keyless', ~wounded', Holds(s, m) PROVE Holds(s, m)'
  <2>1. PICK l \in job[s].backup : l[1] = m /\ Owner(s, l) \in job[s].todo
    BY <1>4 DEF Holds
  <2>2. Owner(s, l) # x
    BY <1>4, <2>1
  <2>3. job'[s] = r
    BY <1>3, <2>1, <2>2 DEF Goto, TypeOK
  <2>4. Owner(s, l)' = Owner(s, l)
    BY <1>2, <2>3 DEF Owner, KeyDelete
  <2> QED BY <1>2, <2>1, <2>2, <2>3, <2>4 DEF Holds
<1> QED BY <1>3, <1>4, HeldHelper

LEMMA DeletingHeld ==
  ASSUME TypeOK, Phases, KeylessAreHeld, NEW s \in Sessions, Deleting(s)
  PROVE  KeylessAreHeld'
<1>0. job[s] \in JobType /\ Phase(job[s])
  BY DEF TypeOK, Phases
<1>1. ASSUME NEW m \in Models, DeleteModel(s, m) PROVE KeylessAreHeld'
  <2>1. Keyless' \subseteq Keyless
    BY <1>1 DEF DeleteModel, Keyless, ReadOfModel, OfModel
  <2>2. Goto(s, job[s])
    BY <1>1 DEF DeleteModel, Goto, TypeOK
  <2> QED BY <1>1, <2>1, <2>2, QuietHelper DEF DeleteModel
<1>2. CASE \E x, found : Backup(s, x, found)
  BY <1>2, SameKeyless, QuietHelper DEF Backup, SameRows, SameHistory
<1>3. CASE \E x, gone : Clear(s, x, gone)
  BY <1>3, ClearHeld
<1>4. ASSUME NEW m \in Models, RestoreModel(s, m) PROVE KeylessAreHeld'
  <2>1. \A n \in Keyless' : n \in Keyless
    BY <1>4 DEF RestoreModel, Keyless, ReadOfModel, OfModel, KeysIn
  <2>2. ASSUME NEW n \in Keyless', NEW l \in job[s].backup, l[1] = n, Owner(s, l) = m
        PROVE FALSE
    <3>1. n = m
      BY <1>4, <2>2 DEF RestoreModel, Owner, KeyDelete
    <3>2. l \in links' /\ l[2] \in keys'
      BY <1>4, <2>2, <3>1 DEF RestoreModel, KeysIn
    <3> QED BY <2>2, <3>2 DEF Keyless, ReadOfModel, OfModel
  <2> QED BY <1>4, <2>1, <2>2, RestoredHeld DEF RestoreModel, SameHistory
<1>5. ASSUME NEW k \in Keys, RestoreKey(s, k) PROVE KeylessAreHeld'
  <2>1. ASSUME NEW n \in Keyless', ~wounded' PROVE n \in Keyless
    <3>1. CASE n \in models
      BY <1>5, <2>1, <3>1 DEF RestoreKey, Keyless, ReadOfModel, OfModel
    <3>2. CASE n \notin models
      <4>1. PICK l \in job[s].backup : l[1] = n /\ l[2] = k
        BY <1>5, <2>1, <3>2 DEF RestoreKey, Keyless, ModelsIn
      <4>2. l \in links' /\ l[2] \in keys'
        BY <1>5, <2>1, <4>1 DEF RestoreKey
      <4> QED BY <2>1, <4>1, <4>2 DEF Keyless, ReadOfModel, OfModel
    <3> QED BY <3>1, <3>2
  <2>2. ASSUME NEW n \in Keyless', NEW l \in job[s].backup, ~wounded',
               l[1] = n, Owner(s, l) = k
        PROVE FALSE
    <3>1. l[2] = k
      BY <1>5, <2>2 DEF RestoreKey, Owner
    <3>2. l \in links' /\ l[2] \in keys'
      BY <1>5, <2>2, <3>1 DEF RestoreKey
    <3> QED BY <2>2, <3>2 DEF Keyless, ReadOfModel, OfModel
  <2> QED BY <1>5, <2>1, <2>2, RestoredHeld DEF RestoreKey
<1>6. CASE \/ \E M \in SUBSET Models : BeginBatchDelete(s, M)
           \/ \E k \in Keys : BeginDeleteKey(s, k)
           \/ BeginDeletePlatform(s)
  <2>1. /\ \E w : Goto(s, w)
        /\ job[s].pc = "idle"
        /\ UNCHANGED <<links, models, keys, wounded>>
    BY <1>6 DEF BeginBatchDelete, BeginDeleteKey, BeginDeletePlatform, SameRows, SameHistory
  <2>2. Keyless' = Keyless
    BY <2>1, SameKeyless
  <2> QED BY <2>1, <2>2, QuietHelper
<1>7. ASSUME DeleteModels(s) PROVE KeylessAreHeld'
  <2>1. ASSUME NEW m \in Keyless' PROVE m \in Keyless /\ m \notin job[s].target
    BY <1>7, <2>1 DEF DeleteModels, Keyless, ReadOfModel, OfModel
  <2>2. \A m : Holds(s, m) => m \in job[s].target
    BY <1>0, <1>7 DEF DeleteModels, Phase, Holds, ModelsIn
  <2> QED BY <1>7, <2>1, <2>2, HeldHelper DEF DeleteModels, Done, Goto
<1>8. ASSUME DeletePlatform(s) PROVE KeylessAreHeld'
  <2>1. CASE platform
    <3>1. Keyless' = {}
      BY <1>8, <2>1 DEF DeletePlatform, Keyless
    <3> QED BY <3>1 DEF KeylessAreHeld
  <2>2. CASE ~platform
    BY <1>8, <2>2, RolledBackHeld DEF DeletePlatform
  <2> QED BY <2>1, <2>2
<1>9. ASSUME DeleteKeyRow(s) PROVE KeylessAreHeld'
  <2>1. CASE job[s].key \in keys
    <3> DEFINE w == [job[s] EXCEPT !.pc = "scan"]
    <3>1. Goto(s, w) /\ wounded' = wounded
      BY <1>9, <2>1 DEF DeleteKeyRow
    <3>2. w.pc = "scan"
      BY <1>0 DEF JobType
    <3> HIDE DEF w
    <3>3. \A m : Holds(s, m)'
      BY <3>1, <3>2 DEF Holds, Goto, TypeOK
    <3> QED BY <3>1, <3>3, HeldHelper
  <2>2. CASE job[s].key \notin keys
    BY <1>9, <2>2, RolledBackHeld DEF DeleteKeyRow
  <2> QED BY <2>1, <2>2
<1>10. ASSUME FindOrphans(s) PROVE KeylessAreHeld'
  <2>1. Keyless' = Keyless
    BY <1>10, SameKeyless DEF FindOrphans, SameRows
  <2>2. CASE Keyless = {}
    BY <2>1, <2>2 DEF KeylessAreHeld
  <2>3. CASE Keyless # {}
    <3> DEFINE w == [job[s] EXCEPT !.pc = "remove", !.orphans = Keyless]
    <3>1. Goto(s, w) /\ wounded' = wounded
      BY <1>10, <2>3 DEF FindOrphans, SameHistory
    <3>2. w.pc = "remove" /\ w.orphans = Keyless
      BY <1>0 DEF JobType
    <3> HIDE DEF w
    <3>3. \A m \in Keyless' : Holds(s, m)'
      BY <2>1, <3>1, <3>2 DEF Holds, Goto, TypeOK
    <3> QED BY <3>1, <3>3, HeldHelper
  <2> QED BY <2>2, <2>3
<1>11. ASSUME RemoveOrphans(s) PROVE KeylessAreHeld'
  <2>1. ASSUME NEW m \in Keyless' PROVE m \in Keyless /\ m \notin job[s].orphans
    BY <1>11, <2>1 DEF RemoveOrphans, Keyless, ReadOfModel, OfModel
  <2>2. \A m : Holds(s, m) => m \in job[s].orphans
    BY <1>11 DEF RemoveOrphans, Holds
  <2> QED BY <1>11, <2>1, <2>2, HeldHelper DEF RemoveOrphans, Done, Goto
<1> QED BY <1>1, <1>2, <1>3, <1>4, <1>5, <1>6, <1>7, <1>8, <1>9, <1>10, <1>11
        DEF Deleting, BackupModel, BackupKey, ClearModel, ClearKey

LEMMA FailingHeld ==
  ASSUME TypeOK, KeylessAreHeld, NEW s \in Sessions, Failing(s)
  PROVE  KeylessAreHeld'
<1>1. ASSUME CallFails(s) PROVE KeylessAreHeld'
  <2>1. Keyless' = Keyless
    BY <1>1, SameKeyless DEF CallFails, SameRows
  <2>2. \A m : wounded' \/ ~Holds(s, m)
    BY <1>1 DEF CallFails, Holds
  <2> QED BY <1>1, <2>1, <2>2, HeldHelper DEF CallFails, Done, Goto
<1>2. ASSUME TxFails(s) PROVE KeylessAreHeld'
  BY <1>2, RolledBackHeld DEF TxFails
<1>3. ASSUME NEW x \in Models \cup Keys, RestoreFails(s, x) PROVE KeylessAreHeld'
  BY <1>3 DEF RestoreFails, KeylessAreHeld
<1> QED BY <1>1, <1>2, <1>3 DEF Failing

LEMMA HeldStep == TypeOK /\ Phases /\ KeylessAreHeld /\ [Next]_vars => KeylessAreHeld'
<1> SUFFICES ASSUME TypeOK, Phases, KeylessAreHeld, [Next]_vars PROVE KeylessAreHeld'
  OBVIOUS
<1>1. ASSUME Restart PROVE KeylessAreHeld'
  <2>1. CASE keys = {} /\ models # {}
    BY <1>1, <2>1 DEF Restart, KeylessAreHeld
  <2>2. CASE models = {}
    BY <1>1, <2>2 DEF Restart, KeylessAreHeld, Keyless
  <2>3. CASE keys # {}
    <3>1. PICK k : k \in keys
      BY <2>3
    <3>2. ASSUME NEW m \in Keyless' PROVE FALSE
      <4>1. CASE m \in Keyless
        <5>1. <<m, k>> \in links' /\ k \in keys'
          BY <1>1, <3>1, <4>1 DEF Restart
        <5> QED BY <3>2, <5>1 DEF Keyless, ReadOfModel, OfModel
      <4>2. CASE m \notin Keyless
        BY <1>1, <3>2, <4>2 DEF Restart, Keyless, ReadOfModel, OfModel
      <4> QED BY <4>1, <4>2
    <3> QED BY <3>2 DEF KeylessAreHeld
  <2> QED BY <2>1, <2>2, <2>3
<1>2. ASSUME UNCHANGED vars PROVE KeylessAreHeld'
  BY <1>2 DEF vars, KeylessAreHeld, Keyless, ReadOfModel, OfModel, Holds, Owner, KeyDelete
<1> QED BY <1>1, <1>2, AddingHeld, DeletingHeld, FailingHeld DEF Next

\* KeylessAreHeld: however requests, failures and restarts interleave, a model
\* without a key lost it to a request that is about to restore it, to delete
\* the model or to look for such models, unless one ended leaving links it had
\* cleared behind.
THEOREM NoModelForgotten == Spec => []KeylessAreHeld
<1>1. ASSUME Init PROVE TypeOK /\ Phases /\ KeylessAreHeld
  <2>1. Keyless = {}
    BY <1>1 DEF Init, Keyless
  <2>2. \A s \in Sessions : job[s] = Idle
    BY <1>1 DEF Init
  <2>3. Phases
    BY <2>2, IdlePhase DEF Phases
  <2> QED BY <1>1, <2>1, <2>3, TypeInit DEF KeylessAreHeld
<1> QED BY <1>1, TypeStep, PhaseStep, HeldStep, PTL DEF Spec

-----------------------------------------------------------------------------
(* Rows that come back, for any number of requests at a time.               *)

\* What DeletedStaysDeleted needs besides: the rows that requests may insert
\* are, where they are deleted, contested, and no id is handed out twice.
Rows == models \cup keys

ReturnInv ==
  /\ DeletedStaysDeleted
  /\ \A s \in Sessions : MayInsert(s) \cap deleted \subseteq contested
  /\ \A s \in Sessions : MayInsert(s) \subseteq made
  /\ deleted \cup Rows \subseteq made

\* A request's rows depend on its own job only.
LEMMA SameInserts ==
  ASSUME NEW o, job'[o] = job[o] PROVE MayInsert(o)' = MayInsert(o)
BY DEF MayInsert, Backed, Owner, KeyDelete

\* A step of s that deletes nothing, inserts what s might insert, and lets s
\* insert besides only rows that are there or ids that are new.
LEMMA InsertHelper ==
  ASSUME TypeOK, ReturnInv, NEW s \in Sessions, NEW w, Goto(s, w),
         UNCHANGED <<deleted, contested>>, made \subseteq made',
         Rows' \subseteq Rows \cup MayInsert(s),
         MayInsert(s)' \subseteq MayInsert(s) \cup Rows \cup (made' \ made)
  PROVE  ReturnInv'
<1>1. \A o \in Sessions : o # s => MayInsert(o)' = MayInsert(o)
  BY SameInserts DEF Goto, TypeOK
<1>2. MayInsert(s) \cap deleted \subseteq contested /\ MayInsert(s) \subseteq made
  BY DEF ReturnInv
<1>3. DeletedStaysDeleted'
  BY <1>2 DEF ReturnInv, DeletedStaysDeleted, Rows
<1>4. \A o \in Sessions : (MayInsert(o) \cap deleted \subseteq contested)'
  BY <1>1, <1>2 DEF ReturnInv, DeletedStaysDeleted, Rows
<1>5. \A o \in Sessions : (MayInsert(o) \subseteq made)'
  BY <1>1, <1>2 DEF ReturnInv
<1>6. (deleted \cup Rows \subseteq made)'
  BY <1>2 DEF ReturnInv
<1> QED BY <1>3, <1>4, <1>5, <1>6 DEF ReturnInv

\* A step of s that deletes rows, after which s inserts nothing.
LEMMA DeleteHelper ==
  ASSUME TypeOK, ReturnInv, NEW s \in Sessions, NEW rows \in SUBSET Rows, Deletes(s, rows),
         \A o \in Sessions : o # s => job'[o] = job[o],
         made' = made, Rows' \subseteq Rows \ rows, MayInsert(s)' = {}
  PROVE  ReturnInv'
<1>1. \A o \in Sessions : o # s => MayInsert(o)' = MayInsert(o)
  BY SameInserts
<1>2. /\ deleted' = deleted \cup rows /\ contested \subseteq contested'
      /\ \A o \in Sessions : o # s => MayInsert(o) \cap rows \subseteq contested'
  BY DEF Deletes
<1>3. DeletedStaysDeleted'
  BY <1>2 DEF ReturnInv, DeletedStaysDeleted, Rows
<1>4. \A o \in Sessions : (MayInsert(o) \cap deleted \subseteq contested)'
  BY <1>1, <1>2 DEF ReturnInv
<1>5. \A o \in Sessions : (MayInsert(o) \subseteq made)'
  BY <1>1 DEF ReturnInv
<1>6. (deleted \cup Rows \subseteq made)'
  BY <1>2 DEF ReturnInv
<1> QED BY <1>3, <1>4, <1>5, <1>6 DEF ReturnInv

LEMMA IdleInserts == ASSUME NEW s, job'[s] = Idle PROVE MayInsert(s)' = {}
BY DEF MayInsert, Backed, KeyDelete, ModelsIn, KeysIn, Idle

\* The ends that a delete may insert are those of the links it has backed up.
LEMMA DeleteInserts ==
  ASSUME NEW s, job[s].op \notin {"addKey", "addModels", "update"}
  PROVE  MayInsert(s) = IF KeyDelete(s) THEN ModelsIn(Backed(s)) ELSE KeysIn(Backed(s))
BY DEF MayInsert

LEMMA DeleteInsertsNext ==
  ASSUME NEW s, job'[s].op \notin {"addKey", "addModels", "update"}
  PROVE  MayInsert(s)' = IF KeyDelete(s)' THEN ModelsIn(Backed(s)') ELSE KeysIn(Backed(s)')
BY DEF MayInsert, ModelsIn, KeysIn

\* A delete that goes on without another link to put back.
LEMMA FewerBacked ==
  ASSUME NEW s, job[s].op \notin {"addKey", "addModels", "update"},
         job'[s].op = job[s].op, Backed(s)' \subseteq Backed(s)
  PROVE  MayInsert(s)' \subseteq MayInsert(s)
<1>1. KeyDelete(s)' = KeyDelete(s)
  BY DEF KeyDelete
<1>2. /\ ModelsIn(Backed(s)') \subseteq ModelsIn(Backed(s))
      /\ KeysIn(Backed(s)') \subseteq KeysIn(Backed(s))
  BY DEF ModelsIn, KeysIn
<1> QED BY <1>1, <1>2, DeleteInserts, DeleteInsertsNext

LEMMA AddingReturns ==
  ASSUME TypeOK, Phases, ReturnInv, NEW s \in Sessions, Adding(s) PROVE ReturnInv'
<1>0. job[s] \in JobType
  BY DEF TypeOK
<1>1. ASSUME NEW k \in Keys, BeginAddKey(s, k) PROVE ReturnInv'
  <2> DEFINE w == [Idle EXCEPT !.op = "addKey", !.pc = "write", !.key = k]
  <2>1. w.op = "addKey" /\ w.key = k
    BY DEF Idle
  <2>2. job'[s] = w
    BY <1>1 DEF BeginAddKey, Goto, TypeOK
  <2> HIDE DEF w
  <2>3. MayInsert(s)' = {k}
    BY <2>1, <2>2 DEF MayInsert
  <2> QED BY <1>1, <2>3, InsertHelper DEF BeginAddKey, SameRows, SameHistory, Rows
<1>2. ASSUME CreateKey(s) PROVE ReturnInv'
  <2>1. job'[s] = Idle
    BY <1>2 DEF CreateKey, Done, TypeOK
  <2>2. MayInsert(s) = {job[s].key}
    BY <1>2 DEF CreateKey, MayInsert
  <2> QED BY <1>2, <2>1, <2>2, IdleInserts, InsertHelper
          DEF CreateKey, Done, Goto, SameHistory, Rows
<1>3. ASSUME NEW want \in Wants, BeginAddModels(s, want) PROVE ReturnInv'
  <2> DEFINE w == [Idle EXCEPT !.op = "addModels", !.pc = "write", !.want = want]
  <2>1. w.op = "addModels" /\ w.want = want
    BY DEF Idle
  <2>2. job'[s] = w
    BY <1>3 DEF BeginAddModels, Goto, TypeOK
  <2> HIDE DEF w
  <2>3. MayInsert(s)' = ModelsIn(want) \cup KeysIn(want)
    BY <2>1, <2>2 DEF MayInsert
  <2>4. KeysIn(want) \subseteq keys /\ ModelsIn(want) \subseteq made' \ made /\ made \subseteq made'
    BY <1>3 DEF BeginAddModels, Valid
  <2> QED BY <1>3, <2>3, <2>4, InsertHelper DEF BeginAddModels, SameRows, SameHistory, Rows
<1>4. ASSUME CreateModels(s) PROVE ReturnInv'
  <2>1. job'[s] = Idle
    BY <1>4 DEF CreateModels, Done, TypeOK
  <2>2. MayInsert(s) = ModelsIn(job[s].want) \cup KeysIn(job[s].want)
    BY <1>4 DEF CreateModels, MayInsert
  <2> QED BY <1>4, <2>1, <2>2, IdleInserts, InsertHelper
          DEF CreateModels, Done, Goto, SameHistory, Rows
<1>5. ASSUME NEW want \in Wants, BeginUpdate(s, want) PROVE ReturnInv'
  <2> DEFINE w == [Idle EXCEPT !.op = "update", !.pc = "write", !.want = want]
  <2>1. w.op = "update" /\ w.want = want
    BY DEF Idle
  <2>2. job'[s] = w
    BY <1>5 DEF BeginUpdate, Goto, TypeOK
  <2> HIDE DEF w
  <2>3. MayInsert(s)' = KeysIn(want) /\ KeysIn(want) \subseteq keys
    BY <1>5, <2>1, <2>2 DEF MayInsert, BeginUpdate, Valid
  <2> QED BY <1>5, <2>3, InsertHelper DEF BeginUpdate, SameRows, SameHistory, Rows
<1>6. ASSUME NEW want \in Wants, BeginBatchUpdate(s, want) PROVE ReturnInv'
  <2> DEFINE w == [Idle EXCEPT !.op = "batchUpdate", !.pc = "write", !.want = want]
  <2>1. w.op = "batchUpdate" /\ w.backup = {}
    BY DEF Idle
  <2>2. job'[s] = w
    BY <1>6 DEF BeginBatchUpdate, Goto, TypeOK
  <2> HIDE DEF w
  <2>3. MayInsert(s)' = {}
    BY <2>1, <2>2 DEF MayInsert, Backed, KeyDelete, KeysIn
  <2> QED BY <1>6, <2>3, InsertHelper DEF BeginBatchUpdate, SameRows, SameHistory, Rows
<1>7. ASSUME UpdateModel(s) PROVE ReturnInv'
  <2>1. job'[s] = Idle
    BY <1>7 DEF UpdateModel, Done, TypeOK
  <2>2. MayInsert(s) = KeysIn(job[s].want)
    BY <1>7 DEF UpdateModel, MayInsert
  <2> QED BY <1>7, <2>1, <2>2, IdleInserts, InsertHelper
          DEF UpdateModel, Replace, Done, Goto, SameHistory, Rows
<1>8. ASSUME BatchUpdate(s) PROVE ReturnInv'
  <2>1. job'[s] = Idle
    BY <1>8 DEF BatchUpdate, Done, TypeOK
  <2>2. keys' = keys
    BY <1>8 DEF BatchUpdate, Replace
  <2> QED BY <1>8, <2>1, <2>2, IdleInserts, InsertHelper
          DEF BatchUpdate, Done, Goto, SameHistory, Rows
<1> QED BY <1>1, <1>2, <1>3, <1>4, <1>5, <1>6, <1>7, <1>8 DEF Adding

\* The far ends of the links found are there.
LEMMA BackupReturns ==
  ASSUME TypeOK, ReturnInv, NEW s \in Sessions, NEW x, NEW found, Backup(s, x, found),
         job[s].op \in DeleteOps,
         IF KeyDelete(s) THEN ModelsIn(found) \subseteq models ELSE KeysIn(found) \subseteq keys
  PROVE  ReturnInv'
<1> DEFINE rest == job[s].todo \ {x}
           back == job[s].backup \cup found
           clear == IF KeyDelete(s) THEN KeysIn(back) ELSE job[s].target
           todo == IF rest = {} THEN clear ELSE rest
           pc == IF rest # {} THEN "backup" ELSE IF clear = {} THEN "tx" ELSE "clear"
           w == [job[s] EXCEPT !.backup = back, !.todo = todo, !.pc = pc]
<1>1. job[s] \in JobType /\ job[s].pc = "backup" /\ pc \in {"backup", "clear", "tx"}
  BY DEF TypeOK, Backup
<1>2. Goto(s, w) /\ job'[s] = w
  BY DEF Backup, Goto, TypeOK
<1> HIDE DEF clear, todo, pc
<1>3. w.op = job[s].op /\ w.backup = back /\ w.pc = pc
  BY <1>1 DEF JobType
<1> HIDE DEF w
<1>4. KeyDelete(s)' = KeyDelete(s)
  BY <1>2, <1>3 DEF KeyDelete
<1>5. Backed(s) = job[s].backup /\ Backed(s)' = back
  BY <1>1, <1>2, <1>3 DEF Backed
<1>6. /\ ModelsIn(back) = ModelsIn(job[s].backup) \cup ModelsIn(found)
      /\ KeysIn(back) = KeysIn(job[s].backup) \cup KeysIn(found)
  BY DEF ModelsIn, KeysIn
<1> HIDE DEF back
<1>7. MayInsert(s)' \subseteq MayInsert(s) \cup Rows
  <2>1. job[s].op \notin {"addKey", "addModels", "update"}
    BY DEF DeleteOps
  <2> QED BY <1>2, <1>3, <1>4, <1>5, <1>6, <2>1, DeleteInserts, DeleteInsertsNext DEF Rows
<1> QED BY <1>2, <1>7, InsertHelper DEF Backup, SameRows, SameHistory, Rows

LEMMA ClearReturns ==
  ASSUME TypeOK, ReturnInv, NEW s \in Sessions, NEW x, NEW gone, Clear(s, x, gone),
         job[s].op \in DeleteOps
  PROVE  ReturnInv'
<1> DEFINE w == [job[s] EXCEPT !.todo = @ \ {x}, !.swept = @ \cup gone,
                               !.pc = IF job[s].todo = {x} THEN "tx" ELSE "clear"]
<1>1. job[s] \in JobType /\ job[s].pc = "clear"
  BY DEF TypeOK, Clear
<1>2. Goto(s, w) /\ job'[s] = w
  BY DEF Clear, Goto, TypeOK
<1>3. w.op = job[s].op /\ w.backup = job[s].backup
  BY <1>1 DEF JobType
<1> HIDE DEF w
<1>4. Backed(s)' \subseteq Backed(s)
  BY <1>1, <1>2, <1>3 DEF Backed
<1>5. MayInsert(s)' \subseteq MayInsert(s)
  BY <1>2, <1>3, <1>4, FewerBacked DEF DeleteOps
<1> QED BY <1>2, <1>5, InsertHelper DEF Clear, SameRows, SameHistory, Rows

LEMMA RolledBackReturns ==
  ASSUME TypeOK, Phases, ReturnInv, NEW s \in Sessions, RolledBack(s)
  PROVE  ReturnInv'
<1> DEFINE r == [job[s] EXCEPT !.pc = "restore", !.todo = {Owner(s, l) : l \in job[s].backup}]
<1>1. job[s] \in JobType /\ job[s].pc = "tx" /\ Phase(job[s])
  BY DEF TypeOK, Phases, RolledBack
<1>2. CASE job'[s] = Idle /\ Goto(s, Idle)
  BY <1>2, IdleInserts, InsertHelper DEF RolledBack, SameRows, Rows
<1>3. CASE job'[s] = r /\ Goto(s, r)
  <2>1. r.op = job[s].op /\ r.backup = job[s].backup
    BY <1>1 DEF JobType
  <2> HIDE DEF r
  <2>2. Backed(s)' \subseteq Backed(s)
    BY <1>1, <1>3, <2>1 DEF Backed
  <2>3. MayInsert(s)' \subseteq MayInsert(s)
    BY <1>1, <1>3, <2>1, <2>2, FewerBacked DEF Phase
  <2> QED BY <1>3, <2>3, InsertHelper DEF RolledBack, SameRows, Rows
<1> QED BY <1>2, <1>3 DEF RolledBack, Done, Goto, TypeOK

\* A round of the restore loop inserts ends of the links backed up for x.
LEMMA RestoredReturns ==
  ASSUME TypeOK, Phases, ReturnInv, NEW s \in Sessions, NEW x, Restored(s, x),
         job[s].pc = "restore", UNCHANGED <<deleted, contested, made>>,
         Rows' \subseteq Rows \cup MayInsert(s)
  PROVE  ReturnInv'
<1> DEFINE r == [job[s] EXCEPT !.todo = @ \ {x}]
<1>1. job[s] \in JobType /\ Phase(job[s])
  BY DEF TypeOK, Phases
<1>2. CASE job'[s] = Idle /\ Goto(s, Idle)
  BY <1>2, IdleInserts, InsertHelper
<1>3. CASE job'[s] = r /\ Goto(s, r)
  <2>1. /\ r.op = job[s].op /\ r.backup = job[s].backup /\ r.pc = "restore"
        /\ r.todo \subseteq job[s].todo
    BY <1>1 DEF JobType
  <2> HIDE DEF r
  <2>2. \A l : Owner(s, l)' = Owner(s, l)
    BY <1>3, <2>1 DEF Owner, KeyDelete
  <2>3. Backed(s)' \subseteq Backed(s)
    BY <1>3, <2>1, <2>2 DEF Backed
  <2>4. MayInsert(s)' \subseteq MayInsert(s)
    BY <1>1, <1>3, <2>1, <2>3, FewerBacked DEF Phase
  <2> QED BY <1>3, <2>4, InsertHelper
<1> QED BY <1>2, <1>3 DEF Restored, Done, Goto, TypeOK

LEMMA DeletingReturns ==
  ASSUME TypeOK, Phases, ReturnInv, NEW s \in Sessions, Deleting(s) PROVE ReturnInv'
<1>0. job[s] \in JobType /\ Phase(job[s]) /\ models \subseteq Models /\ keys \subseteq Keys
  BY DEF TypeOK, Phases
<1>00. Models \cap Keys = {}
  BY ModelKeysAssumption
<1>1. ASSUME NEW m \in Models, DeleteModel(s, m) PROVE ReturnInv'
  <2>1. MayInsert(s)' = {}
    BY <1>0, <1>1 DEF DeleteModel, Phase, MayInsert, Backed, KeyDelete, ModelsIn, KeysIn
  <2>2. {m} \subseteq Rows /\ Rows' \subseteq Rows \ {m}
    BY <1>0, <1>00, <1>1 DEF DeleteModel, Rows
  <2> QED BY <1>1, <2>1, <2>2, DeleteHelper DEF DeleteModel
<1>2. ASSUME NEW m \in Models, BackupModel(s, m) PROVE ReturnInv'
  <2>1. ~KeyDelete(s) /\ job[s].op \in DeleteOps
    BY <1>2 DEF BackupModel, KeyDelete, DeleteOps
  <2>2. KeysIn(ReadOfModel(m)) \subseteq keys
    BY DEF KeysIn, ReadOfModel
  <2> QED BY <1>2, <2>1, <2>2, BackupReturns DEF BackupModel
<1>3. ASSUME NEW k \in Keys, BackupKey(s, k) PROVE ReturnInv'
  <2>1. KeyDelete(s) /\ job[s].op \in DeleteOps
    BY <1>3 DEF BackupKey, KeyDelete, DeleteOps
  <2>2. ModelsIn(ReadOfKey(k)) \subseteq models
    BY DEF ModelsIn, ReadOfKey
  <2> QED BY <1>3, <2>1, <2>2, BackupReturns DEF BackupKey
<1>4. CASE \/ \E m \in Models : ClearModel(s, m)
           \/ \E k \in Keys : ClearKey(s, k)
  BY <1>4, ClearReturns DEF ClearModel, ClearKey, KeyDelete, DeleteOps
<1>5. ASSUME NEW m \in Models, RestoreModel(s, m) PROVE ReturnInv'
  <2> DEFINE back == {l \in job[s].backup : l[1] = m}
  <2>1. /\ job[s].op = "batchDelete" /\ job[s].pc = "restore" /\ m \in job[s].todo
        /\ keys' = keys \cup KeysIn(back) /\ models' = models
    BY <1>5 DEF RestoreModel
  <2>2. ~KeyDelete(s)
    BY <2>1 DEF KeyDelete
  <2>3. back \subseteq Backed(s)
    BY <2>1, <2>2 DEF Backed, Owner
  <2> HIDE DEF back
  <2>4. Rows' \subseteq Rows \cup MayInsert(s)
    BY <2>1, <2>2, <2>3, DeleteInserts DEF Rows, KeysIn
  <2> QED BY <1>5, <2>1, <2>4, RestoredReturns DEF RestoreModel, SameHistory
<1>6. ASSUME NEW k \in Keys, RestoreKey(s, k) PROVE ReturnInv'
  <2> DEFINE back == {l \in job[s].backup : l[2] = k}
  <2>1. /\ KeyDelete(s) /\ job[s].pc = "restore" /\ k \in job[s].todo
        /\ models' = models \cup ModelsIn(back) /\ keys' = keys
    BY <1>6 DEF RestoreKey
  <2>2. back \subseteq Backed(s)
    BY <2>1 DEF Backed, Owner
  <2> HIDE DEF back
  <2>3. job[s].op \notin {"addKey", "addModels", "update"}
    BY <2>1 DEF KeyDelete
  <2>4. Rows' \subseteq Rows \cup MayInsert(s)
    BY <2>1, <2>2, <2>3, DeleteInserts DEF Rows, ModelsIn
  <2> QED BY <1>6, <2>1, <2>4, RestoredReturns DEF RestoreKey
<1>7. ASSUME NEW w, Goto(s, w), w.op \in DeleteOps, w.backup = {},
             SameRows, SameHistory, UNCHANGED made
      PROVE  ReturnInv'
  <2>1. job'[s] = w
    BY <1>7 DEF Goto, TypeOK
  <2>2. MayInsert(s)' = {}
    BY <1>7, <2>1 DEF MayInsert, Backed, KeyDelete, ModelsIn, KeysIn, DeleteOps
  <2> QED BY <1>7, <2>2, InsertHelper DEF SameRows, SameHistory, Rows
<1>8. ASSUME NEW M \in SUBSET Models, BeginBatchDelete(s, M) PROVE ReturnInv'
  <2> DEFINE w == [Idle EXCEPT !.op = "batchDelete", !.pc = "backup", !.target = M, !.todo = M]
  <2>1. w.op \in DeleteOps /\ w.backup = {}
    BY DEF Idle, DeleteOps
  <2> HIDE DEF w
  <2> QED BY <1>7, <1>8, <2>1 DEF BeginBatchDelete, w
<1>9. ASSUME NEW k \in Keys, BeginDeleteKey(s, k) PROVE ReturnInv'
  <2> DEFINE w == [Idle EXCEPT !.op = "deleteKey", !.pc = "backup", !.key = k,
                               !.target = {k}, !.todo = {k}]
  <2>1. w.op \in DeleteOps /\ w.backup = {}
    BY DEF Idle, DeleteOps
  <2> HIDE DEF w
  <2> QED BY <1>7, <1>9, <2>1 DEF BeginDeleteKey, w
<1>10. ASSUME BeginDeletePlatform(s) PROVE ReturnInv'
  <2> DEFINE w == [Idle EXCEPT !.op = "deletePlatform", !.target = keys, !.todo = keys,
                               !.pc = IF keys = {} THEN "tx" ELSE "backup"]
  <2>1. w.op \in DeleteOps /\ w.backup = {}
    BY DEF Idle, DeleteOps
  <2> HIDE DEF w
  <2> QED BY <1>7, <1>10, <2>1 DEF BeginDeletePlatform, w
<1>11. ASSUME NEW rows \in SUBSET Rows, Deletes(s, rows), Done(s), made' = made,
              Rows' \subseteq Rows \ rows
       PROVE  ReturnInv'
  <2>1. job'[s] = Idle /\ \A o \in Sessions : o # s => job'[o] = job[o]
    BY <1>11 DEF Done, TypeOK
  <2> QED BY <1>11, <2>1, IdleInserts, DeleteHelper
<1>12. ASSUME DeleteModels(s) PROVE ReturnInv'
  <2>1. /\ job[s].target \cap models \subseteq Rows
        /\ Rows' \subseteq Rows \ (job[s].target \cap models)
    BY <1>0, <1>00, <1>12 DEF DeleteModels, Rows
  <2> QED BY <1>11, <1>12, <2>1 DEF DeleteModels
<1>13. ASSUME DeletePlatform(s) PROVE ReturnInv'
  <2>1. CASE platform
    <3>1. Rows' = {} /\ Deletes(s, Rows) /\ Done(s) /\ made' = made
      BY <1>13, <2>1 DEF DeletePlatform, Rows
    <3> QED BY <1>11, <3>1
  <2>2. CASE ~platform
    BY <1>13, <2>2, RolledBackReturns DEF DeletePlatform
  <2> QED BY <2>1, <2>2
<1>14. ASSUME DeleteKeyRow(s) PROVE ReturnInv'
  <2> DEFINE w == [job[s] EXCEPT !.pc = "scan"]
  <2>1. CASE job[s].key \in keys
    <3>1. Deletes(s, {job[s].key}) /\ Goto(s, w) /\ job[s].op = "deleteKey"
      BY <1>14, <2>1 DEF DeleteKeyRow
    <3>2. job'[s] = w /\ \A o \in Sessions : o # s => job'[o] = job[o]
      BY <3>1 DEF Goto, TypeOK
    <3>3. w.op = "deleteKey" /\ w.pc = "scan"
      BY <1>0, <3>1 DEF JobType
    <3> HIDE DEF w
    <3>4. MayInsert(s)' = {}
      BY <3>2, <3>3 DEF MayInsert, Backed, KeyDelete, ModelsIn
    <3>5. {job[s].key} \subseteq Rows /\ Rows' \subseteq Rows \ {job[s].key}
      BY <1>0, <1>00, <1>14, <2>1 DEF DeleteKeyRow, Rows
    <3> QED BY <1>14, <2>1, <3>1, <3>2, <3>4, <3>5, DeleteHelper DEF DeleteKeyRow
  <2>2. CASE job[s].key \notin keys
    BY <1>14, <2>2, RolledBackReturns DEF DeleteKeyRow
  <2> QED BY <2>1, <2>2
<1>15. ASSUME FindOrphans(s) PROVE ReturnInv'
  <2> DEFINE w == [job[s] EXCEPT !.pc = "remove", !.orphans = Keyless]
  <2>1. CASE job'[s] = Idle /\ Goto(s, Idle)
    BY <1>15, <2>1, IdleInserts, InsertHelper DEF FindOrphans, SameRows, SameHistory, Rows
  <2>2. CASE job'[s] = w /\ Goto(s, w)
    <3>1. w.op = job[s].op /\ w.pc = "remove" /\ job[s].pc = "scan"
      BY <1>0, <1>15 DEF FindOrphans, JobType
    <3> HIDE DEF w
    <3>2. Backed(s)' \subseteq Backed(s)
      BY <2>2, <3>1 DEF Backed
    <3>3. MayInsert(s)' \subseteq MayInsert(s)
      BY <1>0, <2>2, <3>1, <3>2, FewerBacked DEF Phase
    <3> QED BY <1>15, <2>2, <3>3, InsertHelper DEF FindOrphans, SameRows, SameHistory, Rows
  <2> QED BY <1>15, <2>1, <2>2 DEF FindOrphans, Done, Goto, TypeOK
<1>16. ASSUME RemoveOrphans(s) PROVE ReturnInv'
  <2>1. /\ job[s].orphans \cap models \subseteq Rows
        /\ Rows' \subseteq Rows \ (job[s].orphans \cap models)
    BY <1>0, <1>00, <1>16 DEF RemoveOrphans, Rows
  <2> QED BY <1>11, <1>16, <2>1 DEF RemoveOrphans
<1> QED BY <1>1, <1>2, <1>3, <1>4, <1>5, <1>6, <1>8, <1>9, <1>10, <1>12, <1>13, <1>14, <1>15, <1>16
        DEF Deleting

LEMMA FailingReturns ==
  ASSUME TypeOK, Phases, ReturnInv, NEW s \in Sessions, Failing(s) PROVE ReturnInv'
<1>1. ASSUME CallFails(s) PROVE ReturnInv'
  <2>1. job'[s] = Idle
    BY <1>1 DEF CallFails, Done, TypeOK
  <2> QED BY <1>1, <2>1, IdleInserts, InsertHelper DEF CallFails, Done, Goto, SameRows, Rows
<1>2. ASSUME TxFails(s) PROVE ReturnInv'
  BY <1>2, RolledBackReturns DEF TxFails
<1>3. ASSUME NEW x \in Models \cup Keys, RestoreFails(s, x) PROVE ReturnInv'
  BY <1>3, RestoredReturns DEF RestoreFails, SameRows, Rows
<1> QED BY <1>1, <1>2, <1>3 DEF Failing

LEMMA ReturnStep == TypeOK /\ Phases /\ ReturnInv /\ [Next]_vars => ReturnInv'
<1> SUFFICES ASSUME TypeOK, Phases, ReturnInv, [Next]_vars PROVE ReturnInv'
  OBVIOUS
<1>1. ASSUME Restart PROVE ReturnInv'
  <2>1. \A s \in Sessions : MayInsert(s)' = {}
    BY <1>1, IdleInserts DEF Restart
  <2> QED BY <1>1, <2>1 DEF Restart, ReturnInv, DeletedStaysDeleted, Rows
<1>2. ASSUME UNCHANGED vars PROVE ReturnInv'
  <2>1. \A s \in Sessions : MayInsert(s)' = MayInsert(s)
    BY <1>2, SameInserts DEF vars
  <2> QED BY <1>2, <2>1 DEF vars, ReturnInv, DeletedStaysDeleted, Rows
<1> QED BY <1>1, <1>2, AddingReturns, DeletingReturns, FailingReturns DEF Next

\* DeletedStaysDeleted: however requests, failures and restarts interleave, a
\* row whose deletion was committed is back only if another request that had
\* found it, and might still insert it, was in flight at the commit.  The two
\* ways the code has (a key validated before the transaction, a backup of links
\* to rows that a second delete removed) are such requests; there is no third.
THEOREM NothingElseReturns == Spec => []DeletedStaysDeleted
<1>1. ASSUME Init PROVE TypeOK /\ Phases /\ ReturnInv
  <2>1. \A s \in Sessions : job[s] = Idle
    BY <1>1 DEF Init
  <2>2. Phases
    BY <2>1, IdlePhase DEF Phases
  <2>3. \A s \in Sessions : MayInsert(s) = {}
    BY <2>1 DEF MayInsert, Backed, KeyDelete, ModelsIn, KeysIn, Idle
  <2> QED BY <1>1, <2>2, <2>3, TypeInit DEF Init, ReturnInv, DeletedStaysDeleted, Rows
<1>2. ReturnInv => DeletedStaysDeleted
  BY DEF ReturnInv
<1> QED BY <1>1, <1>2, TypeStep, PhaseStep, ReturnStep, PTL DEF Spec

-----------------------------------------------------------------------------
(* One request at a time. *)

Alone == \A r, s \in Sessions : r = s

\* What an add or update has checked still holds when it writes.
Checked(s) ==
  /\ job[s].op \in {"addKey", "addModels"} => platform
  /\ job[s].op = "update" => ModelsIn(job[s].want) \subseteq models
  /\ job[s].op \in {"addModels", "update"} => KeysIn(job[s].want) \subseteq keys

\* The rows a delete is about are there, and what it backed up were links.
Targeted(s) ==
  /\ platform
  /\ job[s].op = "batchDelete" => job[s].target \subseteq models
  /\ job[s].op = "deleteKey" => job[s].target = {job[s].key} /\ job[s].key \in keys
  /\ job[s].op = "deletePlatform" => job[s].target = keys
  /\ job[s].todo \subseteq job[s].target
  /\ job[s].swept \subseteq job[s].backup
  /\ \A l \in job[s].backup : l \in models \X keys /\ Owner(s, l) \in job[s].target

\* How far its loops have come.
Progress(s) ==
  /\ job[s].pc = "backup" =>
       /\ job[s].swept = {}
       /\ \A l \in links : Owner(s, l) \in job[s].target \ job[s].todo => l \in job[s].backup
  /\ job[s].pc = "clear" =>
       \A l \in links : Owner(s, l) \in job[s].target => Owner(s, l) \in job[s].todo /\ l \in job[s].backup
  /\ job[s].pc = "tx" => \A l \in links : Owner(s, l) \notin job[s].target
  /\ job[s].pc = "restore" =>
       wounded \/ \A l \in job[s].swept : Owner(s, l) \in job[s].todo \/ l \in links
  /\ job[s].pc = "remove" => \A l \in links : l[1] \notin job[s].orphans

Ready(s) ==
  /\ Checked(s)
  /\ job[s].pc \in {"backup", "clear", "tx", "restore"} =>
       job[s].op \in DeleteOps /\ Targeted(s)
  /\ Progress(s)

AloneInv ==
  /\ TablesAgree
  /\ \A s \in Sessions : Ready(s)

LEMMA AloneHelper ==
  ASSUME Alone, NEW s \in Sessions, Ready(s)',
         TablesAgree'
  PROVE  AloneInv'
<1>1. \A r \in Sessions : r = s
  BY DEF Alone
<1> QED BY <1>1 DEF AloneInv

LEMMA IdleReady == ASSUME NEW s \in Sessions, job'[s] = Idle PROVE Ready(s)'
BY DEF Ready, Checked, Progress, Idle

\* The request of s moves on and the tables stay.
LEMMA MoveHelper ==
  ASSUME Alone, AloneInv, NEW s \in Sessions, Ready(s)',
         UNCHANGED <<platform, models, keys, links>>
  PROVE  AloneInv'
<1>1. TablesAgree'
  BY DEF AloneInv, TablesAgree
<1> QED BY <1>1, AloneHelper

LEMMA AddingAlone ==
  ASSUME Alone, TypeOK, Phases, AloneInv, NEW s \in Sessions, Adding(s)
  PROVE  AloneInv'
<1>0. Ready(s) /\ job[s] \in JobType /\ Phase(job[s])
  BY DEF AloneInv, TypeOK, Phases
<1>1. ASSUME NEW k \in Keys, BeginAddKey(s, k) PROVE AloneInv'
  <2> DEFINE w == [Idle EXCEPT !.op = "addKey", !.pc = "write", !.key = k]
  <2>1. w.op = "addKey" /\ w.pc = "write" /\ w.key = k
    BY DEF Idle
  <2>2. job'[s] = w
    BY <1>1 DEF BeginAddKey, Goto, TypeOK
  <2> HIDE DEF w
  <2>3. Ready(s)'
    BY <1>1, <2>1, <2>2 DEF BeginAddKey, SameRows, SameHistory, AloneInv, Ready, Checked, Progress
  <2> QED BY <1>1, <2>3, MoveHelper DEF BeginAddKey, SameRows, SameHistory
<1>2. ASSUME CreateKey(s) PROVE AloneInv'
  <2>1. job'[s] = Idle
    BY <1>2 DEF CreateKey, Done, TypeOK
  <2>2. platform
    BY <1>0, <1>2 DEF CreateKey, Ready, Checked
  <2>3. TablesAgree'
    BY <1>2, <2>2 DEF CreateKey, SameHistory, AloneInv, TablesAgree
  <2> QED BY <2>1, <2>3, IdleReady, AloneHelper
<1>3. ASSUME NEW want \in Wants, BeginAddModels(s, want) PROVE AloneInv'
  <2> DEFINE w == [Idle EXCEPT !.op = "addModels", !.pc = "write", !.want = want]
  <2>1. w.op = "addModels" /\ w.pc = "write" /\ w.want = want
    BY DEF Idle
  <2>2. job'[s] = w
    BY <1>3 DEF BeginAddModels, Goto, TypeOK
  <2> HIDE DEF w
  <2>3. Checked(s)'
    BY <1>3, <2>1, <2>2 DEF BeginAddModels, SameRows, SameHistory, AloneInv, Checked, Valid
  <2>4. Ready(s)'
    BY <2>1, <2>2, <2>3 DEF Ready, Progress
  <2> QED BY <1>3, <2>4, MoveHelper DEF BeginAddModels, SameRows, SameHistory
<1>4. ASSUME CreateModels(s) PROVE AloneInv'
  <2> DEFINE want == job[s].want
  <2>1. job'[s] = Idle
    BY <1>4 DEF CreateModels, Done, TypeOK
  <2>2. platform /\ KeysIn(want) \subseteq keys
    BY <1>0, <1>4 DEF CreateModels, Ready, Checked
  <2>3. want \subseteq ModelsIn(want) \X KeysIn(want)
    BY <1>0 DEF JobType, Links, ModelsIn, KeysIn
  <2>4. models' = models \cup ModelsIn(want) /\ keys' = keys /\ links' = links \cup want
    BY <1>4, <2>2 DEF CreateModels
  <2> HIDE DEF want
  <2>5. TablesAgree'
    BY <1>4, <2>2, <2>3, <2>4
       DEF CreateModels, SameHistory, AloneInv, TablesAgree
  <2> QED BY <2>1, <2>5, IdleReady, AloneHelper
<1>5. ASSUME NEW want \in Wants, BeginUpdate(s, want) PROVE AloneInv'
  <2> DEFINE w == [Idle EXCEPT !.op = "update", !.pc = "write", !.want = want]
  <2>1. w.op = "update" /\ w.pc = "write" /\ w.want = want
    BY DEF Idle
  <2>2. job'[s] = w
    BY <1>5 DEF BeginUpdate, Goto, TypeOK
  <2> HIDE DEF w
  <2>3. Checked(s)'
    BY <1>5, <2>1, <2>2 DEF BeginUpdate, SameRows, Checked, Valid
  <2>4. Ready(s)'
    BY <2>1, <2>2, <2>3 DEF Ready, Progress
  <2> QED BY <1>5, <2>4, MoveHelper DEF BeginUpdate, SameRows, SameHistory
<1>6. ASSUME NEW want \in Wants, BeginBatchUpdate(s, want) PROVE AloneInv'
  <2> DEFINE w == [Idle EXCEPT !.op = "batchUpdate", !.pc = "write", !.want = want]
  <2>1. w.op = "batchUpdate" /\ w.pc = "write"
    BY DEF Idle
  <2>2. job'[s] = w
    BY <1>6 DEF BeginBatchUpdate, Goto, TypeOK
  <2> HIDE DEF w
  <2>3. Ready(s)'
    BY <2>1, <2>2 DEF Ready, Checked, Progress
  <2> QED BY <1>6, <2>3, MoveHelper DEF BeginBatchUpdate, SameRows, SameHistory
<1>7. ASSUME UpdateModel(s) \/ BatchUpdate(s) PROVE AloneInv'
  <2> DEFINE want == job[s].want
  <2>1. job'[s] = Idle
    BY <1>7 DEF UpdateModel, BatchUpdate, Done, TypeOK
  <2>2. \/ /\ Replace(want)
           /\ ModelsIn(want) \subseteq models /\ KeysIn(want) \subseteq keys
        \/ UNCHANGED <<keys, links>>
    BY <1>0, <1>7 DEF UpdateModel, BatchUpdate, Ready, Checked
  <2>3. want \subseteq ModelsIn(want) \X KeysIn(want)
    BY <1>0 DEF JobType, Links, ModelsIn, KeysIn
  <2> HIDE DEF want
  <2>4. keys' = keys /\ links' \subseteq links \cup (models \X keys)
    BY <2>2, <2>3 DEF Replace
  <2>5. UNCHANGED <<platform, models>>
    BY <1>7 DEF UpdateModel, BatchUpdate, SameHistory
  <2>6. TablesAgree'
    BY <2>4, <2>5 DEF AloneInv, TablesAgree
  <2> QED BY <2>1, <2>6, IdleReady, AloneHelper
<1> QED BY <1>1, <1>2, <1>3, <1>4, <1>5, <1>6, <1>7 DEF Adding

\* The links found for x are those whose owner is x.
LEMMA BackupAlone ==
  ASSUME Alone, TypeOK, Phases, AloneInv, NEW s \in Sessions, NEW x,
         NEW found, Backup(s, x, found), job[s].op \in DeleteOps,
         \A l \in links : Owner(s, l) = x <=> l \in found, found \subseteq links
  PROVE  AloneInv'
<1> DEFINE rest == job[s].todo \ {x}
           back == job[s].backup \cup found
           clear == IF KeyDelete(s) THEN KeysIn(back) ELSE job[s].target
           todo == IF rest = {} THEN clear ELSE rest
           pc == IF rest # {} THEN "backup" ELSE IF clear = {} THEN "tx" ELSE "clear"
           w == [job[s] EXCEPT !.backup = back, !.todo = todo, !.pc = pc]
<1>1. job[s] \in JobType /\ job[s].pc = "backup" /\ x \in job[s].todo
  BY DEF TypeOK, Backup
<1>2. Targeted(s) /\ Progress(s) /\ Checked(s)
  BY <1>1 DEF AloneInv, Ready
<1>3. job'[s] = w
  BY DEF Backup, Goto, TypeOK
<1>4. /\ w.op = job[s].op /\ w.key = job[s].key /\ w.target = job[s].target
      /\ w.swept = job[s].swept /\ w.backup = back /\ w.todo = todo /\ w.pc = pc
  BY <1>1 DEF JobType
<1> HIDE DEF w
<1>5. \A l : Owner(s, l)' = Owner(s, l)
  BY <1>3, <1>4 DEF Owner, KeyDelete
<1>6. UNCHANGED <<platform, models, keys, links>>
  BY DEF Backup, SameRows, SameHistory
<1>7. \A l \in back : l \in models \X keys /\ Owner(s, l) \in job[s].target
  BY <1>1, <1>2 DEF Targeted, AloneInv, TablesAgree
<1>8. \A l \in links : Owner(s, l) \in job[s].target \ rest => l \in back
  BY <1>1, <1>2 DEF Progress
<1>9. clear \subseteq job[s].target
  <2>1. ASSUME KeyDelete(s), NEW k \in KeysIn(back) PROVE k \in job[s].target
    BY <1>7, <2>1 DEF KeysIn, Owner
  <2> QED BY <2>1
<1>10. rest = {} => \A l \in links : Owner(s, l) \in job[s].target => Owner(s, l) \in clear /\ l \in back
  BY <1>8 DEF KeysIn, Owner
<1>11. todo \subseteq job[s].target
  BY <1>2, <1>9 DEF Targeted
<1>12. Targeted(s)'
  <2>1. \A l \in back : (l \in models \X keys /\ Owner(s, l) \in job[s].target)'
    BY <1>3, <1>4, <1>5, <1>6, <1>7
  <2>2. job[s].swept \subseteq back
    BY <1>2 DEF Targeted
  <2> HIDE DEF back, todo
  <2> QED BY <1>2, <1>3, <1>4, <1>6, <1>11, <2>1, <2>2 DEF Targeted
<1>13. Progress(s)'
  <2>1. CASE rest # {}
    BY <1>1, <1>2, <1>3, <1>4, <1>5, <1>6, <1>8, <2>1 DEF Progress
  <2>2. CASE rest = {} /\ clear # {}
    BY <1>3, <1>4, <1>5, <1>6, <1>10, <2>2 DEF Progress
  <2>3. CASE rest = {} /\ clear = {}
    BY <1>3, <1>4, <1>5, <1>6, <1>10, <2>3 DEF Progress
  <2> QED BY <2>1, <2>2, <2>3
<1>14. Checked(s)'
  BY <1>3, <1>4 DEF Checked, DeleteOps
<1>15. Ready(s)'
  BY <1>3, <1>4, <1>12, <1>13, <1>14 DEF Ready
<1> QED BY <1>6, <1>15, MoveHelper

LEMMA ClearAlone ==
  ASSUME Alone, TypeOK, Phases, AloneInv, NEW s \in Sessions, NEW x,
         NEW gone, Clear(s, x, gone), job[s].op \in DeleteOps,
         \A l \in links : Owner(s, l) = x <=> l \in gone, gone \subseteq links
  PROVE  AloneInv'
<1> DEFINE w == [job[s] EXCEPT !.todo = @ \ {x}, !.swept = @ \cup gone,
                               !.pc = IF job[s].todo = {x} THEN "tx" ELSE "clear"]
<1>1. job[s] \in JobType /\ job[s].pc = "clear" /\ x \in job[s].todo
  BY DEF TypeOK, Clear
<1>2. Targeted(s) /\ Progress(s)
  BY <1>1 DEF AloneInv, Ready
<1>3. job'[s] = w
  BY DEF Clear, Goto, TypeOK
<1>4. /\ w.op = job[s].op /\ w.key = job[s].key /\ w.target = job[s].target
      /\ w.swept = job[s].swept \cup gone /\ w.backup = job[s].backup
      /\ w.todo = job[s].todo \ {x}
      /\ w.pc = IF job[s].todo = {x} THEN "tx" ELSE "clear"
  BY <1>1 DEF JobType
<1> HIDE DEF w
<1>5. \A l : Owner(s, l)' = Owner(s, l)
  BY <1>3, <1>4 DEF Owner, KeyDelete
<1>6. UNCHANGED <<platform, models, keys>> /\ links' = links \ gone
  BY DEF Clear, SameRows, SameHistory
<1>7. gone \subseteq job[s].backup
  BY <1>1, <1>2 DEF Targeted, Progress
<1>8. Targeted(s)'
  BY <1>2, <1>3, <1>4, <1>5, <1>6, <1>7 DEF Targeted
<1>9. Progress(s)'
  BY <1>1, <1>2, <1>3, <1>4, <1>5, <1>6 DEF Progress
<1>10. Ready(s)'
  BY <1>3, <1>4, <1>8, <1>9 DEF Ready, Checked, DeleteOps
<1>11. TablesAgree'
  BY <1>6 DEF AloneInv, TablesAgree
<1> QED BY <1>10, <1>11, AloneHelper

LEMMA RolledBackAlone ==
  ASSUME Alone, TypeOK, Phases, AloneInv, NEW s \in Sessions, RolledBack(s),
         job[s].op \in DeleteOps
  PROVE  AloneInv'
<1> DEFINE r == [job[s] EXCEPT !.pc = "restore", !.todo = {Owner(s, l) : l \in job[s].backup}]
<1>1. job[s] \in JobType /\ job[s].pc = "tx"
  BY DEF TypeOK, RolledBack
<1>2. Targeted(s)
  BY <1>1 DEF AloneInv, Ready
<1>3. UNCHANGED <<platform, models, keys, links>>
  BY DEF RolledBack, SameRows
<1>4. CASE job[s].backup = {}
  <2>1. job'[s] = Idle
    BY <1>4 DEF RolledBack, Done, TypeOK
  <2> QED BY <1>3, <2>1, IdleReady, MoveHelper
<1>5. CASE job[s].backup # {}
  <2>1. job'[s] = r
    BY <1>5 DEF RolledBack, Goto, TypeOK
  <2>2. /\ r.op = job[s].op /\ r.key = job[s].key /\ r.target = job[s].target
        /\ r.swept = job[s].swept /\ r.backup = job[s].backup /\ r.pc = "restore"
        /\ r.todo = {Owner(s, l) : l \in job[s].backup}
    BY <1>1 DEF JobType
  <2> HIDE DEF r
  <2>3. \A l : Owner(s, l)' = Owner(s, l)
    BY <2>1, <2>2 DEF Owner, KeyDelete
  <2>4. Targeted(s)'
    BY <1>2, <1>3, <2>1, <2>2, <2>3 DEF Targeted
  <2>5. Progress(s)'
    BY <1>2, <2>1, <2>2, <2>3 DEF Progress, Targeted
  <2>6. Ready(s)'
    BY <2>1, <2>2, <2>4, <2>5 DEF Ready, Checked, DeleteOps
  <2> QED BY <1>3, <2>6, MoveHelper
<1> QED BY <1>4, <1>5

\* One round of the restore loop, done or failed.  After the last one all that
\* was swept is back, unless the request leaves links behind.
LEMMA RestoredAlone ==
  ASSUME Alone, TypeOK, Phases, AloneInv, NEW s \in Sessions, NEW x,
         Restored(s, x), job[s].pc = "restore", x \in job[s].todo,
         UNCHANGED <<platform, models, keys>>,
         links \subseteq links', links' \subseteq links \cup job[s].backup,
         wounded => wounded',
         \A l \in job[s].swept : wounded' \/ Owner(s, l) # x \/ l \in links'
  PROVE  /\ AloneInv'
         /\ job'[s].pc = "idle" /\ ~wounded' => job[s].swept \subseteq links'
<1> DEFINE r == [job[s] EXCEPT !.todo = @ \ {x}]
<1>1. job[s] \in JobType
  BY DEF TypeOK
<1>2. Targeted(s) /\ Progress(s) /\ job[s].op \in DeleteOps
  BY DEF AloneInv, Ready
<1>3. TablesAgree'
  BY <1>2 DEF AloneInv, TablesAgree, Targeted
<1>4. \A l \in job[s].swept : wounded' \/ Owner(s, l) \in job[s].todo \ {x} \/ l \in links'
  BY <1>2 DEF Progress
<1>5. CASE job[s].todo = {x}
  <2>1. job'[s] = Idle
    BY <1>5 DEF Restored, Done, TypeOK
  <2>2. ~wounded' => job[s].swept \subseteq links'
    BY <1>4, <1>5
  <2> QED BY <1>3, <2>1, <2>2, IdleReady, AloneHelper
<1>6. CASE job[s].todo # {x}
  <2>1. job'[s] = r
    BY <1>6 DEF Restored, Goto, TypeOK
  <2>2. /\ r.op = job[s].op /\ r.key = job[s].key /\ r.target = job[s].target
        /\ r.swept = job[s].swept /\ r.backup = job[s].backup /\ r.pc = "restore"
        /\ r.todo = job[s].todo \ {x}
    BY <1>1 DEF JobType
  <2> HIDE DEF r
  <2>3. \A l : Owner(s, l)' = Owner(s, l)
    BY <2>1, <2>2 DEF Owner, KeyDelete
  <2>4. Targeted(s)'
    BY <1>2, <2>1, <2>2, <2>3 DEF Targeted
  <2>5. Progress(s)'
    BY <1>4, <2>1, <2>2, <2>3 DEF Progress
  <2>6. Ready(s)'
    BY <1>2, <2>1, <2>2, <2>4, <2>5 DEF Ready, Checked, DeleteOps
  <2> QED BY <1>3, <2>1, <2>2, <2>6, AloneHelper
<1> QED BY <1>5, <1>6

\* The three ways a round of the restore loop ends.
LEMMA RestoreRounds ==
  ASSUME Alone, TypeOK, Phases, AloneInv, NEW s \in Sessions,
         \/ \E m \in Models : RestoreModel(s, m)
         \/ \E k \in Keys : RestoreKey(s, k)
         \/ \E x \in Models \cup Keys : RestoreFails(s, x)
  PROVE  /\ AloneInv'
         /\ job'[s].pc = "idle" /\ ~wounded' => job[s].swept \subseteq links'
<1>0. job[s].pc = "restore"
  BY DEF RestoreModel, RestoreKey, RestoreFails
<1>1. Targeted(s)
  BY <1>0 DEF AloneInv, Ready
<1>2. ASSUME NEW m \in Models, RestoreModel(s, m)
      PROVE /\ AloneInv'
            /\ job'[s].pc = "idle" /\ ~wounded' => job[s].swept \subseteq links'
  <2> DEFINE back == {l \in job[s].backup : l[1] = m}
  <2>1. KeysIn(back) \subseteq keys
    BY <1>1 DEF Targeted, KeysIn
  <2>2. links' = links \cup back /\ UNCHANGED <<platform, models, keys, wounded>>
    BY <1>2, <2>1 DEF RestoreModel, SameHistory
  <2>3. \A l \in job[s].swept : Owner(s, l) # m \/ l \in links'
    BY <1>1, <1>2, <2>2 DEF RestoreModel, Targeted, Owner, KeyDelete
  <2> QED BY <1>2, <2>2, <2>3, RestoredAlone DEF RestoreModel
<1>3. ASSUME NEW k \in Keys, RestoreKey(s, k)
      PROVE /\ AloneInv'
            /\ job'[s].pc = "idle" /\ ~wounded' => job[s].swept \subseteq links'
  <2> DEFINE back == {l \in job[s].backup : l[2] = k}
  <2>1. ModelsIn(back) \subseteq models
    BY <1>1 DEF Targeted, ModelsIn
  <2>2. links' = links \cup back /\ UNCHANGED <<platform, models, keys>>
    BY <1>3, <2>1 DEF RestoreKey
  <2>3. \A l \in job[s].swept : Owner(s, l) # k \/ l \in links'
    BY <1>1, <1>3, <2>2 DEF RestoreKey, Targeted, Owner
  <2> QED BY <1>3, <2>2, <2>3, RestoredAlone DEF RestoreKey
<1>4. ASSUME NEW x \in Models \cup Keys, RestoreFails(s, x)
      PROVE /\ AloneInv'
            /\ job'[s].pc = "idle" /\ ~wounded' => job[s].swept \subseteq links'
  BY <1>4, RestoredAlone DEF RestoreFails, SameRows
<1> QED BY <1>2, <1>3, <1>4

LEMMA DeletingAlone ==
  ASSUME Alone, TypeOK, Phases, AloneInv, NEW s \in Sessions, Deleting(s)
  PROVE  AloneInv'
<1>0. Ready(s) /\ job[s] \in JobType /\ Phase(job[s])
  BY DEF AloneInv, TypeOK, Phases
<1>1. ASSUME NEW m \in Models, DeleteModel(s, m) PROVE AloneInv'
  <2>1. job' = job /\ job[s].pc = "idle" /\ Phase(job[s])
    BY <1>0, <1>1 DEF DeleteModel
  <2>2. Ready(s)'
    BY <2>1 DEF Ready, Checked, Progress, Phase
  <2>3. ReadOfModel(m) = OfModel(m)
    BY DEF ReadOfModel, OfModel, AloneInv, TablesAgree
  <2>4. TablesAgree'
    BY <1>1, <2>3 DEF DeleteModel, AloneInv, TablesAgree, OfModel
  <2> QED BY <2>2, <2>4, AloneHelper
<1>2. ASSUME NEW m \in Models, BackupModel(s, m) PROVE AloneInv'
  BY <1>2, BackupAlone DEF BackupModel, ReadOfModel, OfModel, Owner, KeyDelete, DeleteOps,
                           AloneInv, TablesAgree
<1>3. ASSUME NEW m \in Models, ClearModel(s, m) PROVE AloneInv'
  BY <1>3, ClearAlone DEF ClearModel, OfModel, Owner, KeyDelete, DeleteOps
<1>4. ASSUME NEW k \in Keys, BackupKey(s, k) PROVE AloneInv'
  BY <1>4, BackupAlone DEF BackupKey, ReadOfKey, OfKey, Owner, KeyDelete, DeleteOps,
                           AloneInv, TablesAgree
<1>5. ASSUME NEW k \in Keys, ClearKey(s, k) PROVE AloneInv'
  BY <1>5, ClearAlone DEF ClearKey, OfKey, Owner, KeyDelete, DeleteOps
<1>6. CASE \/ \E m \in Models : RestoreModel(s, m)
           \/ \E k \in Keys : RestoreKey(s, k)
  BY <1>6, RestoreRounds
<1>7. ASSUME NEW M \in SUBSET Models, BeginBatchDelete(s, M) PROVE AloneInv'
  <2> DEFINE w == [Idle EXCEPT !.op = "batchDelete", !.pc = "backup", !.target = M, !.todo = M]
  <2>1. /\ w.op = "batchDelete" /\ w.pc = "backup" /\ w.target = M /\ w.todo = M
        /\ w.backup = {} /\ w.swept = {}
    BY DEF Idle
  <2>2. job'[s] = w
    BY <1>7 DEF BeginBatchDelete, Goto, TypeOK
  <2> HIDE DEF w
  <2>3. Ready(s)'
    BY <1>7, <2>1, <2>2 DEF BeginBatchDelete, SameRows, Ready, Checked, Targeted, Progress, DeleteOps
  <2> QED BY <1>7, <2>3, MoveHelper DEF BeginBatchDelete, SameRows, SameHistory
<1>8. ASSUME NEW k \in Keys, BeginDeleteKey(s, k) PROVE AloneInv'
  <2> DEFINE w == [Idle EXCEPT !.op = "deleteKey", !.pc = "backup", !.key = k,
                               !.target = {k}, !.todo = {k}]
  <2>1. /\ w.op = "deleteKey" /\ w.pc = "backup" /\ w.key = k /\ w.target = {k} /\ w.todo = {k}
        /\ w.backup = {} /\ w.swept = {}
    BY DEF Idle
  <2>2. job'[s] = w
    BY <1>8 DEF BeginDeleteKey, Goto, TypeOK
  <2> HIDE DEF w
  <2>3. platform
    BY <1>8 DEF BeginDeleteKey, AloneInv, TablesAgree
  <2>4. Ready(s)'
    BY <1>8, <2>1, <2>2, <2>3
       DEF BeginDeleteKey, SameRows, Ready, Checked, Targeted, Progress, DeleteOps
  <2> QED BY <1>8, <2>4, MoveHelper DEF BeginDeleteKey, SameRows, SameHistory
<1>9. ASSUME BeginDeletePlatform(s) PROVE AloneInv'
  <2> DEFINE w == [Idle EXCEPT !.op = "deletePlatform", !.target = keys, !.todo = keys,
                               !.pc = IF keys = {} THEN "tx" ELSE "backup"]
  <2>1. /\ w.op = "deletePlatform" /\ w.pc = (IF keys = {} THEN "tx" ELSE "backup")
        /\ w.target = keys /\ w.todo = keys /\ w.backup = {} /\ w.swept = {}
    BY DEF Idle
  <2>2. job'[s] = w
    BY <1>9 DEF BeginDeletePlatform, Goto, TypeOK
  <2> HIDE DEF w
  <2>3. Ready(s)'
    BY <1>9, <2>1, <2>2
       DEF BeginDeletePlatform, SameRows, Ready, Checked, Targeted, Progress, DeleteOps
  <2> QED BY <1>9, <2>3, MoveHelper DEF BeginDeletePlatform, SameRows, SameHistory
<1>10. ASSUME DeleteModels(s) PROVE AloneInv'
  <2>1. job'[s] = Idle
    BY <1>10 DEF DeleteModels, Done, TypeOK
  <2>2. job[s].target \subseteq models /\ \A l \in links : l[1] \notin job[s].target
    BY <1>0, <1>10 DEF DeleteModels, Ready, Targeted, Progress, Owner, KeyDelete
  <2>4. TablesAgree'
    BY <1>10, <2>2 DEF DeleteModels, AloneInv, TablesAgree
  <2> QED BY <2>1, <2>4, IdleReady, AloneHelper
<1>11. ASSUME DeletePlatform(s) PROVE AloneInv'
  <2>1. platform /\ \A l \in links : l[2] \notin keys
    BY <1>0, <1>11 DEF DeletePlatform, RolledBack, Ready, Targeted, Progress, Owner, KeyDelete
  <2>2. job'[s] = Idle
    BY <1>11, <2>1 DEF DeletePlatform, Done, TypeOK
  <2>3. links = {}
    BY <2>1 DEF AloneInv, TablesAgree
  <2>4. TablesAgree'
    BY <1>11, <2>1, <2>3 DEF DeletePlatform, AloneInv, TablesAgree
  <2> QED BY <2>2, <2>4, IdleReady, AloneHelper
<1>12. ASSUME DeleteKeyRow(s) PROVE AloneInv'
  <2> DEFINE k == job[s].key
             w == [job[s] EXCEPT !.pc = "scan"]
  <2>1. k \in keys /\ \A l \in links : l[2] # k
    BY <1>0, <1>12 DEF DeleteKeyRow, RolledBack, Ready, Targeted, Progress, Owner, KeyDelete
  <2>2. job'[s] = w
    BY <1>12, <2>1 DEF DeleteKeyRow, Goto, TypeOK
  <2>3. w.op = "deleteKey" /\ w.pc = "scan"
    BY <1>0, <1>12 DEF DeleteKeyRow, JobType
  <2> HIDE DEF w
  <2>4. Ready(s)'
    BY <2>2, <2>3 DEF Ready, Checked, Progress
  <2>6. platform
    BY <2>1 DEF AloneInv, TablesAgree
  <2>7. TablesAgree'
    BY <1>12, <2>1, <2>6 DEF DeleteKeyRow, AloneInv, TablesAgree
  <2> QED BY <2>4, <2>7, AloneHelper
<1>13. ASSUME FindOrphans(s) PROVE AloneInv'
  <2>1. CASE Keyless = {}
    <3>1. job'[s] = Idle
      BY <1>13, <2>1 DEF FindOrphans, Done, TypeOK
    <3> QED BY <1>13, <3>1, IdleReady, MoveHelper DEF FindOrphans, SameRows, SameHistory
  <2>2. CASE Keyless # {}
    <3> DEFINE w == [job[s] EXCEPT !.pc = "remove", !.orphans = Keyless]
    <3>1. job'[s] = w
      BY <1>13, <2>2 DEF FindOrphans, Goto, TypeOK
    <3>2. w.op = job[s].op /\ w.pc = "remove" /\ w.orphans = Keyless
      BY <1>0 DEF JobType
    <3> HIDE DEF w
    <3>3. job[s].op \notin {"addKey", "addModels", "update", "batchUpdate"}
      BY <1>0, <1>13 DEF FindOrphans, Phase
    <3>4. \A l \in links : l[1] \notin Keyless
      BY DEF AloneInv, TablesAgree, Keyless, ReadOfModel, OfModel
    <3>5. Ready(s)'
      BY <1>13, <3>1, <3>2, <3>3, <3>4 DEF FindOrphans, Ready, Checked, Progress
    <3> QED BY <1>13, <3>5, MoveHelper DEF FindOrphans, SameRows, SameHistory
  <2> QED BY <2>1, <2>2
<1>14. ASSUME RemoveOrphans(s) PROVE AloneInv'
  <2>1. job'[s] = Idle
    BY <1>14 DEF RemoveOrphans, Done, TypeOK
  <2>2. \A l \in links : l[1] \notin job[s].orphans
    BY <1>0, <1>14 DEF RemoveOrphans, Ready, Progress
  <2>4. TablesAgree'
    BY <1>14, <2>2 DEF RemoveOrphans, AloneInv, TablesAgree
  <2> QED BY <2>1, <2>4, IdleReady, AloneHelper
<1> QED BY <1>1, <1>2, <1>3, <1>4, <1>5, <1>6, <1>7, <1>8, <1>9, <1>10, <1>11, <1>12, <1>13, <1>14
        DEF Deleting

LEMMA FailingAlone ==
  ASSUME Alone, TypeOK, Phases, AloneInv, NEW s \in Sessions, Failing(s)
  PROVE  AloneInv'
<1>1. ASSUME CallFails(s) PROVE AloneInv'
  <2>1. job'[s] = Idle
    BY <1>1 DEF CallFails, Done, TypeOK
  <2> QED BY <1>1, <2>1, IdleReady, MoveHelper DEF CallFails, SameRows
<1>2. ASSUME TxFails(s) PROVE AloneInv'
  <2>1. job[s].op \in DeleteOps
    BY <1>2 DEF TxFails, RolledBack, AloneInv, Ready
  <2> QED BY <1>2, <2>1, RolledBackAlone DEF TxFails
<1>3. CASE \E x \in Models \cup Keys : RestoreFails(s, x)
  BY <1>3, RestoreRounds
<1> QED BY <1>1, <1>2, <1>3 DEF Failing

LEMMA AloneStep == ASSUME Alone PROVE TypeOK /\ Phases /\ AloneInv /\ [Next]_vars => AloneInv'
<1> SUFFICES ASSUME TypeOK, Phases, AloneInv, [Next]_vars PROVE AloneInv'
  OBVIOUS
<1>1. ASSUME Restart PROVE AloneInv'
  <2>1. \A s \in Sessions : job'[s] = Idle
    BY <1>1 DEF Restart
  <2>2. \A s \in Sessions : Ready(s)'
    BY <2>1, IdleReady
  <2>3. TablesAgree'
    BY <1>1 DEF Restart, AloneInv, TablesAgree, Keyless
  <2> QED BY <2>2, <2>3 DEF AloneInv
<1>2. ASSUME UNCHANGED vars PROVE AloneInv'
  BY <1>2 DEF vars, AloneInv, TablesAgree, Ready, Checked, Targeted,
              Progress, Owner, KeyDelete
<1> QED BY <1>1, <1>2, AddingAlone, DeletingAlone, FailingAlone DEF Next

LEMMA AllInit == ASSUME Init PROVE TypeOK /\ Phases /\ AloneInv
<1>1. \A s \in Sessions : job[s] = Idle
  BY DEF Init
<1>2. Phases
  BY <1>1, IdlePhase DEF Phases
<1>3. \A s \in Sessions : Ready(s)
  BY <1>1 DEF Ready, Checked, Progress, Idle
<1>4. TablesAgree
  BY DEF Init, TablesAgree
<1> QED BY <1>2, <1>3, <1>4, TypeInit DEF Init, AloneInv

LEMMA AlwaysAlone == ASSUME Alone PROVE Spec => [](TypeOK /\ Phases /\ AloneInv)
<1>1. Alone
  OBVIOUS
<1>2. TypeOK /\ Phases /\ AloneInv /\ [Next]_vars => (TypeOK /\ Phases /\ AloneInv)'
  BY <1>1, TypeStep, PhaseStep, AloneStep
<1> QED BY <1>2, AllInit, PTL DEF Spec

\* TablesAgree: one request at a time, api_key_models never names a model or a
\* key that is gone and a deleted platform leaves neither behind, whichever
\* statement fails and whenever the process ends.
THEOREM LinksNameRows == ASSUME Alone PROVE Spec => []TablesAgree
<1>1. AloneInv => TablesAgree
  BY DEF AloneInv
<1> QED BY <1>1, AlwaysAlone, PTL

\* ClearedIsBackedUp: one request at a time, a delete can put back all it has
\* cleared, whichever of its loops a failure ends.
THEOREM BackupIsComplete == ASSUME Alone PROVE Spec => []ClearedIsBackedUp
<1>1. AloneInv => ClearedIsBackedUp
  BY DEF AloneInv, Ready, Targeted, ClearedIsBackedUp
<1> QED BY <1>1, AlwaysAlone, PTL

\* FailedDeleteRestores: one request at a time, a delete whose transaction
\* failed and whose restore loop met no error returns with every link back that
\* it cleared.
THEOREM RestoreIsComplete == ASSUME Alone PROVE Spec => FailedDeleteRestores
<1> DEFINE Kept == \A s \in Sessions :
             job[s].pc = "restore" /\ job'[s].pc = "idle" /\ ~wounded' /\ faults' = faults
               => job[s].swept \subseteq links'
<1>1. ASSUME TypeOK, Phases, AloneInv, Next PROVE Kept
  <2> SUFFICES ASSUME NEW s \in Sessions, job[s].pc = "restore", job'[s].pc = "idle",
                      ~wounded', faults' = faults
               PROVE  job[s].swept \subseteq links'
    OBVIOUS
  <2>1. faults \in Nat
    BY <1>1 DEF TypeOK
  <2>2. ~Restart
    BY <2>1 DEF Restart
  <2>3. PICK r \in Sessions : Adding(r) \/ Deleting(r) \/ Failing(r)
    BY <1>1, <2>2 DEF Next
  <2>4. r = s
    BY DEF Alone
  <2>5. Phase(job[s])
    BY <1>1 DEF Phases
  <2>6. ~Adding(s)
    BY <2>5 DEF Adding, BeginAddKey, CreateKey, BeginAddModels, CreateModels, BeginUpdate,
                BeginBatchUpdate, UpdateModel, BatchUpdate, Phase
  <2>7. Deleting(s) => \/ \E m \in Models : RestoreModel(s, m)
                       \/ \E k \in Keys : RestoreKey(s, k)
    BY DEF Deleting, DeleteModel, BackupModel, ClearModel, BeginBatchDelete, BeginDeleteKey,
           BackupKey, ClearKey, Backup, Clear, BeginDeletePlatform, DeleteModels,
           DeletePlatform, DeleteKeyRow, FindOrphans, RemoveOrphans, RolledBack
  <2>8. Failing(s) => \E x \in Models \cup Keys : RestoreFails(s, x)
    BY DEF Failing, CallFails, TxFails, RolledBack
  <2> QED BY <1>1, <2>3, <2>4, <2>6, <2>7, <2>8, RestoreRounds
<1> HIDE DEF Kept
<1>2. TypeOK /\ Phases /\ AloneInv /\ [Next]_vars => [Kept]_vars
  BY <1>1
<1>3. Spec => [][Kept]_vars
  BY <1>2, AlwaysAlone, PTL DEF Spec
<1> QED BY <1>3 DEF FailedDeleteRestores, Kept
=============================================================================
