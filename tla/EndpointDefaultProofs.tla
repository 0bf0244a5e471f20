------------------------ MODULE EndpointDefaultProofs ------------------------
(***************************************************************************)
(* EndpointDefault for any set of sessions and any bounds: TypeOK always,  *)
(* and, on a database that runs one writing transaction at a time,         *)
(* AtMostOneDefault and the two promises of a delete.  The invariant that  *)
(* carries them says that writing transactions are alone and what each of  *)
(* them has established so far: one that is about to promote sees no       *)
(* default, one that is about to commit sees at most one (Established),    *)
(* and what a delete counted and chose still holds when it commits         *)
(* (Promises).  For the lookups of PortalLookup it says in addition which  *)
(* requests take rows or flags away (Grows), and that a lookup between its *)
(* statements still finds what it matched unless one did (StillMatches).   *)
(***************************************************************************)
EXTENDS PortalLookup, TLAPS

Pcs == {"idle", "ready", "count", "latest", "set", "commit"}
Ops == {"none", "add", "update", "batch", "delete"}
TxRecord == [op : Ops, pc : Pcs, id : Ids \cup {NoId}, seen : BOOLEAN, pick : Ids \cup {NoId},
             ins : SUBSET Ids, del : SUBSET Ids, on : SUBSET Ids, off : SUBSET Ids]

Alone == \A s, o \in Sessions : InTx(s) /\ InTx(o) => s = o

Established == \A s \in Sessions :
  /\ tx[s].op = "delete" /\ tx[s].pc # "commit" => tx[s].on = {} /\ tx[s].off = {}
  /\ tx[s].op \in {"update", "batch", "delete"} => tx[s].ins = {}
  /\ tx[s].pc \in {"latest", "set"} => tx[s].op = "delete" /\ DefaultsOf(s) = {}
  /\ tx[s].pc = "commit" => ~Several(DefaultsOf(s))

IInv == TypeOK /\ Alone /\ Established /\ AtMostOneDefault

-----------------------------------------------------------------------------
(* Types. *)

LEMMA InitHolds == Init => IInv
<1> SUFFICES ASSUME Init PROVE IInv
  OBVIOUS
<1>1. TypeOK
  <2>1. Idle \in TxRecord
    BY DEF Idle, TxRecord, Ops, Pcs
  <2>2. 1 \in 1..(MaxId + 1)
    BY EndpointDefaultAssumption
  <2> QED BY <2>1, <2>2 DEF Init, TypeOK, TxRecord, Ops, Pcs
<1>2. Alone /\ Established /\ AtMostOneDefault
  BY DEF Init, Alone, Established, AtMostOneDefault, InTx, Idle, Several
<1> QED BY <1>1, <1>2 DEF IInv

\* What a step may do to the table and to the transaction of s.
LEMMA TypeHelper ==
  ASSUME TypeOK, NEW s \in Sessions, NEW w \in TxRecord,
         tx' = [tx EXCEPT ![s] = w],
         rows' \subseteq Ids, defaults' \subseteq rows', nextId' \in 1..(MaxId + 1)
  PROVE  TypeOK'
BY DEF TypeOK, TxRecord, Ops, Pcs

LEMMA TypeStep == TypeOK /\ [Next]_vars => TypeOK'
<1> SUFFICES ASSUME TypeOK, [Next]_vars PROVE TypeOK'
  OBVIOUS
<1>0. /\ Idle \in TxRecord
      /\ \A s \in Sessions : tx[s] \in TxRecord
      /\ rows \subseteq Ids /\ defaults \subseteq rows /\ nextId \in 1..(MaxId + 1)
  BY DEF TypeOK, TxRecord, Ops, Pcs, Idle
<1>1. ASSUME NEW s \in Sessions, NEW id \in Ids, NEW makeDefault \in BOOLEAN,
             ReadForUpdate(s, id, makeDefault)
      PROVE TypeOK'
  <2> DEFINE w == [Idle EXCEPT !.op = "update", !.pc = "ready", !.id = id,
                               !.on = IF makeDefault THEN {id} ELSE {}]
  <2>1. w \in TxRecord
    BY DEF Idle, TxRecord, Ops, Pcs
  <2> QED BY <1>0, <1>1, <2>1, TypeHelper DEF ReadForUpdate
<1>2. ASSUME NEW s \in Sessions, NEW on \in SUBSET Ids, NEW off \in SUBSET Ids,
             ReadForBatch(s, on, off)
      PROVE TypeOK'
  <2> DEFINE w == [Idle EXCEPT !.op = "batch", !.pc = "ready", !.on = on, !.off = off]
  <2>1. w \in TxRecord
    BY DEF Idle, TxRecord, Ops, Pcs
  <2> QED BY <1>0, <1>2, <2>1, TypeHelper DEF ReadForBatch
<1>3. ASSUME NEW s \in Sessions, NEW id \in Ids, ReadForDelete(s, id) PROVE TypeOK'
  <2> DEFINE w == [Idle EXCEPT !.op = "delete", !.pc = "ready", !.id = id,
                               !.seen = (id \in defaults)]
  <2>1. (id \in defaults) \in BOOLEAN
    OBVIOUS
  <2>2. \A b \in BOOLEAN :
          [Idle EXCEPT !.op = "delete", !.pc = "ready", !.id = id, !.seen = b] \in TxRecord
    BY DEF Idle, TxRecord, Ops, Pcs
  <2>3. w \in TxRecord
    BY <2>1, <2>2
  <2> QED BY <1>0, <1>3, <2>3, TypeHelper DEF ReadForDelete
<1>4. ASSUME NEW s \in Sessions, NEW n \in 1..MaxBatch, NEW on \in SUBSET Ids, Insert(s, n, on)
      PROVE TypeOK'
  <2> DEFINE new == nextId..(nextId + n - 1)
             w == [Idle EXCEPT !.op = "add", !.ins = new, !.on = on,
                               !.pc = IF on = {} THEN "commit" ELSE "count"]
  <2>1. n \in Nat /\ nextId + n <= MaxId + 1 /\ nextId' = nextId + n
    BY <1>4, EndpointDefaultAssumption DEF Insert
  <2>2. new \subseteq Ids /\ nextId' \in 1..(MaxId + 1)
    BY <1>0, <2>1, EndpointDefaultAssumption DEF Ids
  <2>3. w \in TxRecord
    <3> HIDE DEF new
    <3> QED BY <2>2 DEF Idle, TxRecord, Ops, Pcs
  <2>4. tx' = [tx EXCEPT ![s] = w] /\ UNCHANGED <<rows, defaults>>
    BY <1>4 DEF Insert
  <2> QED BY <1>0, <2>2, <2>3, <2>4, TypeHelper
<1>5. ASSUME NEW s \in Sessions, Rollback(s), UNCHANGED <<rows, defaults, nextId>> PROVE TypeOK'
  BY <1>0, <1>5, TypeHelper DEF Rollback
<1>6. ASSUME NEW s \in Sessions, WriteUpdate(s) \/ WriteBatch(s) \/ CountDefaults(s) PROVE TypeOK'
  <2>1. CASE Rollback(s)
    BY <1>5, <1>6, <2>1 DEF WriteUpdate, WriteBatch, CountDefaults
  <2>2. CASE ~Rollback(s)
    <3>1. PICK p \in Pcs : tx' = [tx EXCEPT ![s].pc = p]
      BY <1>6, <2>2 DEF WriteUpdate, WriteBatch, CountDefaults, Pcs
    <3>2. [tx[s] EXCEPT !.pc = p] \in TxRecord
      BY <1>0 DEF TxRecord
    <3>3. tx' = [tx EXCEPT ![s] = [tx[s] EXCEPT !.pc = p]]
      BY <3>1
    <3> QED BY <1>0, <1>6, <3>2, <3>3, TypeHelper DEF WriteUpdate, WriteBatch, CountDefaults
  <2> QED BY <2>1, <2>2
<1>7. ASSUME NEW s \in Sessions, WriteDelete(s) PROVE TypeOK'
  <2> DEFINE w == [tx[s] EXCEPT !.del = {tx[s].id},
                                !.pc = IF tx[s].seen THEN "count" ELSE "commit"]
  <2>1. CASE tx[s].id \in rows
    <3>1. {tx[s].id} \in SUBSET Ids /\ (IF tx[s].seen THEN "count" ELSE "commit") \in Pcs
      BY <1>0, <2>1 DEF Pcs
    <3>2. w \in TxRecord
      BY <1>0, <3>1 DEF TxRecord
    <3>3. tx' = [tx EXCEPT ![s] = w]
      BY <1>7, <2>1 DEF WriteDelete
    <3> QED BY <1>0, <1>7, <3>2, <3>3, TypeHelper DEF WriteDelete
  <2> QED BY <1>5, <1>7, <2>1 DEF WriteDelete
<1>8. ASSUME NEW s \in Sessions, GetLatest(s) PROVE TypeOK'
  <2>1. RowsOf(s) \subseteq Ids
    BY <1>0 DEF RowsOf, TxRecord
  <2>2. PICK p \in Pcs, l \in Ids \cup {NoId} :
          tx' = [tx EXCEPT ![s] = [tx[s] EXCEPT !.pc = p, !.pick = l]]
    <3>1. CASE RowsOf(s) = {}
      <4>1. tx' = [tx EXCEPT ![s] = [tx[s] EXCEPT !.pc = "commit"]]
        BY <1>8, <3>1 DEF GetLatest
      <4>2. [tx[s] EXCEPT !.pc = "commit"] = [tx[s] EXCEPT !.pc = "commit", !.pick = tx[s].pick]
        BY <1>0 DEF TxRecord
      <4>3. tx[s].pick \in Ids \cup {NoId}
        BY <1>0 DEF TxRecord
      <4> QED BY <4>1, <4>2, <4>3 DEF Pcs
    <3>2. CASE RowsOf(s) # {}
      <4>1. PICK l \in RowsOf(s) : tx' = [tx EXCEPT ![s].pc = "set", ![s].pick = l]
        BY <1>8, <3>2 DEF GetLatest
      <4>2. tx' = [tx EXCEPT ![s] = [tx[s] EXCEPT !.pc = "set", !.pick = l]]
        BY <4>1
      <4> QED BY <2>1, <4>2 DEF Pcs
    <3> QED BY <3>1, <3>2
  <2>3. [tx[s] EXCEPT !.pc = p, !.pick = l] \in TxRecord
    BY <1>0 DEF TxRecord
  <2> QED BY <1>0, <1>8, <2>2, <2>3, TypeHelper DEF GetLatest
<1>9. ASSUME NEW s \in Sessions, SetDefault(s) PROVE TypeOK'
  <2>1. CASE tx[s].pick \in RowsOf(s)
    <3> DEFINE w == [tx[s] EXCEPT !.on = {tx[s].pick}, !.pc = "commit"]
    <3>1. {tx[s].pick} \in SUBSET Ids
      BY <1>0, <2>1 DEF RowsOf, TxRecord
    <3>2. w \in TxRecord
      BY <1>0, <3>1 DEF TxRecord, Pcs
    <3>3. tx' = [tx EXCEPT ![s] = w]
      BY <1>9, <2>1 DEF SetDefault
    <3> QED BY <1>0, <1>9, <3>2, <3>3, TypeHelper DEF SetDefault
  <2> QED BY <1>5, <1>9, <2>1 DEF SetDefault
<1>10. ASSUME NEW s \in Sessions, Commit(s) PROVE TypeOK'
  <2>1. RowsOf(s) \subseteq Ids /\ DefaultsOf(s) \subseteq RowsOf(s)
    BY <1>0 DEF RowsOf, DefaultsOf, TxRecord
  <2> QED BY <1>0, <1>10, <2>1, TypeHelper DEF Commit, Rollback
<1>11. ASSUME NEW s \in Sessions, Fail(s) PROVE TypeOK'
  BY <1>5, <1>11 DEF Fail
<1>12. CASE UNCHANGED vars
  BY <1>12 DEF vars, TypeOK
<1> QED
  BY <1>1, <1>2, <1>3, <1>4, <1>6, <1>7, <1>8, <1>9, <1>10, <1>11, <1>12 DEF Next

-----------------------------------------------------------------------------
(* At most one default, one writing transaction at a time. *)

LEMMA SmallSets ==
  /\ \A S, T : S \subseteq T /\ ~Several(T) => ~Several(S)
  /\ \A x, S : S \subseteq {x} => ~Several(S)
BY DEF Several

\* A step that leaves the table alone and moves s to a state that is not inside
\* a transaction (w.pc "idle" or "ready").
LEMMA OutsideStep ==
  ASSUME IInv, TypeOK', NEW s \in Sessions, NEW w \in TxRecord,
         tx' = [tx EXCEPT ![s] = w], UNCHANGED <<rows, defaults>>,
         w.pc \in {"idle", "ready"},
         w.op = "delete" => w.on = {} /\ w.off = {},
         w.op \in {"update", "batch", "delete"} => w.ins = {}
  PROVE  IInv'
<1>1. tx'[s] = w /\ \A o \in Sessions : o # s => tx'[o] = tx[o]
  BY DEF IInv, TypeOK
<1>2. Alone'
  BY <1>1 DEF IInv, Alone, InTx
<1>3. \A o \in Sessions : o # s => DefaultsOf(o)' = DefaultsOf(o)
  BY <1>1 DEF DefaultsOf, RowsOf
<1>4. Established'
  BY <1>1, <1>3 DEF IInv, Established
<1> QED BY <1>2, <1>4 DEF IInv, AtMostOneDefault, Several

\* A step inside a transaction: s was, or becomes, the only one writing.
LEMMA InsideStep ==
  ASSUME IInv, TypeOK', NEW s \in Sessions, NEW w \in TxRecord,
         \A o \in Sessions : o # s => ~InTx(o),
         tx' = [tx EXCEPT ![s] = w], UNCHANGED <<rows, defaults>>,
         w.op = "delete" /\ w.pc # "commit" => w.on = {} /\ w.off = {},
         w.op \in {"update", "batch", "delete"} => w.ins = {},
         w.pc \in {"latest", "set"} => w.op = "delete" /\ DefaultsOf(s)' = {},
         w.pc = "commit" => ~Several(DefaultsOf(s)')
  PROVE  IInv'
<1>1. tx'[s] = w /\ \A o \in Sessions : o # s => tx'[o] = tx[o]
  BY DEF IInv, TypeOK
<1>2. Alone'
  BY <1>1 DEF Alone, InTx
<1>3. \A o \in Sessions : o # s => DefaultsOf(o)' = DefaultsOf(o)
  BY <1>1 DEF DefaultsOf, RowsOf
<1>4. Established'
  BY <1>1, <1>3 DEF IInv, Established
<1> QED BY <1>2, <1>4 DEF IInv, AtMostOneDefault, Several

LEMMA InvStep == ASSUME Serialized = TRUE PROVE IInv /\ [Next]_vars => IInv'
<1> SUFFICES ASSUME IInv, [Next]_vars PROVE IInv'
  OBVIOUS
<1>0. /\ TypeOK' /\ Idle \in TxRecord
      /\ \A s \in Sessions : tx[s] \in TxRecord /\ tx'[s] \in TxRecord
      /\ \A s \in Sessions : \A w : tx' = [tx EXCEPT ![s] = w] => tx'[s] = w
  BY TypeStep DEF IInv, TypeOK, TxRecord, Ops, Pcs, Idle
\* A session inside a transaction is alone, and one that may write will be.
<1>a. \A s \in Sessions : InTx(s) => \A o \in Sessions : o # s => ~InTx(o)
  BY DEF IInv, Alone
<1>b. \A s \in Sessions : \A R : CanWrite(s, R) => \A o \in Sessions : o # s => ~InTx(o)
  BY DEF CanWrite
\* Without new defaults a transaction sees at most the committed ones.
<1>c. \A s \in Sessions : tx'[s].on = {} /\ UNCHANGED <<rows, defaults>> =>
        ~Several(DefaultsOf(s)')
  BY SmallSets DEF IInv, AtMostOneDefault, DefaultsOf
<1>r. ASSUME NEW s \in Sessions, Rollback(s), UNCHANGED <<rows, defaults>> PROVE IInv'
  BY <1>0, <1>r, OutsideStep DEF Rollback, Idle
<1>1. ASSUME NEW s \in Sessions,
             \/ \E id \in Ids, makeDefault \in BOOLEAN : ReadForUpdate(s, id, makeDefault)
             \/ \E on, off \in SUBSET Ids : ReadForBatch(s, on, off)
             \/ \E id \in Ids : ReadForDelete(s, id)
      PROVE IInv'
  <2>1. ASSUME NEW id \in Ids, NEW m \in BOOLEAN, ReadForUpdate(s, id, m) PROVE IInv'
    <3> DEFINE w == [Idle EXCEPT !.op = "update", !.pc = "ready", !.id = id,
                                  !.on = IF m THEN {id} ELSE {}]
    <3>1. w.pc = "ready" /\ w.ins = {} /\ (w.op = "delete" => w.on = {} /\ w.off = {})
      BY DEF Idle
    <3> HIDE DEF w
    <3>2. tx' = [tx EXCEPT ![s] = w] /\ UNCHANGED <<rows, defaults>>
      BY <2>1 DEF w, ReadForUpdate
    <3> QED BY <1>0, <3>1, <3>2, OutsideStep
  <2>2. ASSUME NEW on \in SUBSET Ids, NEW off \in SUBSET Ids, ReadForBatch(s, on, off) PROVE IInv'
    <3> DEFINE w == [Idle EXCEPT !.op = "batch", !.pc = "ready", !.on = on, !.off = off]
    <3>1. w.pc = "ready" /\ w.ins = {} /\ (w.op = "delete" => w.on = {} /\ w.off = {})
      BY DEF Idle
    <3> HIDE DEF w
    <3>2. tx' = [tx EXCEPT ![s] = w] /\ UNCHANGED <<rows, defaults>>
      BY <2>2 DEF w, ReadForBatch
    <3> QED BY <1>0, <3>1, <3>2, OutsideStep
  <2>3. ASSUME NEW id \in Ids, ReadForDelete(s, id) PROVE IInv'
    <3> DEFINE w == [Idle EXCEPT !.op = "delete", !.pc = "ready", !.id = id,
                                  !.seen = (id \in defaults)]
    <3>1. w.pc = "ready" /\ w.ins = {} /\ (w.op = "delete" => w.on = {} /\ w.off = {})
      BY DEF Idle
    <3> HIDE DEF w
    <3>2. tx' = [tx EXCEPT ![s] = w] /\ UNCHANGED <<rows, defaults>>
      BY <2>3 DEF w, ReadForDelete
    <3> QED BY <1>0, <3>1, <3>2, OutsideStep
  <2> QED BY <1>1, <2>1, <2>2, <2>3
<1>2. ASSUME NEW s \in Sessions, NEW n \in 1..MaxBatch, NEW on \in SUBSET Ids, Insert(s, n, on)
      PROVE IInv'
  <2> DEFINE w == [Idle EXCEPT !.op = "add", !.ins = nextId..(nextId + n - 1), !.on = on,
                               !.pc = IF on = {} THEN "commit" ELSE "count"]
  <2>0. /\ w.op = "add" /\ w.on = on
        /\ w.pc = IF on = {} THEN "commit" ELSE "count"
    BY DEF Idle
  <2> HIDE DEF w
  <2>1. tx' = [tx EXCEPT ![s] = w]
    BY <1>2 DEF w, Insert
  <2>2. UNCHANGED <<rows, defaults>> /\ \A o \in Sessions : o # s => ~InTx(o)
    BY <1>2, <1>b DEF Insert
  <2>3. w.pc = "commit" => ~Several(DefaultsOf(s)')
    BY <1>0, <1>c, <2>0, <2>1, <2>2
  <2> QED BY <1>0, <2>0, <2>1, <2>2, <2>3, InsideStep
<1>3. ASSUME NEW s \in Sessions, WriteUpdate(s), ~Rollback(s) PROVE IInv'
  <2> DEFINE w == [tx[s] EXCEPT !.pc = IF tx[s].on = {} THEN "commit" ELSE "count"]
  <2>1. tx' = [tx EXCEPT ![s] = w] /\ UNCHANGED <<rows, defaults>> /\ tx[s].op = "update"
    BY <1>3 DEF WriteUpdate
  <2>2. /\ w.on = tx[s].on /\ w.ins = tx[s].ins /\ w.op = tx[s].op
        /\ w.pc = IF tx[s].on = {} THEN "commit" ELSE "count"
    BY <1>0 DEF TxRecord
  <2>3. \A o \in Sessions : o # s => ~InTx(o)
    BY <1>3, <1>b DEF WriteUpdate
  <2>4. tx[s].ins = {}
    BY <2>1 DEF IInv, Established
  <2> HIDE DEF w
  <2>5. w.pc = "commit" => ~Several(DefaultsOf(s)')
    BY <1>0, <1>c, <2>1, <2>2
  <2> QED BY <1>0, <2>1, <2>2, <2>3, <2>4, <2>5, InsideStep
<1>4. ASSUME NEW s \in Sessions, WriteBatch(s) PROVE IInv'
  <2> DEFINE w == [tx[s] EXCEPT !.pc = "count"]
  <2>1. tx' = [tx EXCEPT ![s] = w] /\ UNCHANGED <<rows, defaults>> /\ tx[s].op = "batch"
    BY <1>4 DEF WriteBatch
  <2>2. w.ins = tx[s].ins /\ w.op = tx[s].op /\ w.pc = "count"
    BY <1>0 DEF TxRecord
  <2>3. \A o \in Sessions : o # s => ~InTx(o)
    BY <1>4, <1>b DEF WriteBatch
  <2>4. tx[s].ins = {}
    BY <2>1 DEF IInv, Established
  <2> HIDE DEF w
  <2> QED BY <1>0, <2>1, <2>2, <2>3, <2>4, InsideStep
<1>5. ASSUME NEW s \in Sessions, WriteDelete(s), ~Rollback(s) PROVE IInv'
  <2> DEFINE w == [tx[s] EXCEPT !.del = {tx[s].id},
                                !.pc = IF tx[s].seen THEN "count" ELSE "commit"]
  <2>1. /\ tx' = [tx EXCEPT ![s] = w] /\ UNCHANGED <<rows, defaults>>
        /\ tx[s].op = "delete" /\ tx[s].pc = "ready"
    BY <1>5 DEF WriteDelete
  <2>2. /\ w.on = tx[s].on /\ w.off = tx[s].off /\ w.ins = tx[s].ins /\ w.op = tx[s].op
        /\ w.pc \in {"count", "commit"}
    BY <1>0 DEF TxRecord
  <2>3. \A o \in Sessions : o # s => ~InTx(o)
    BY <1>5, <1>b DEF WriteDelete
  <2>4. tx[s].ins = {} /\ tx[s].on = {} /\ tx[s].off = {}
    BY <2>1 DEF IInv, Established
  <2> HIDE DEF w
  <2>5. ~Several(DefaultsOf(s)')
    BY <1>0, <1>c, <2>1, <2>2, <2>4
  <2> QED BY <1>0, <2>1, <2>2, <2>3, <2>4, <2>5, InsideStep
<1>6. ASSUME NEW s \in Sessions, CountDefaults(s), ~Rollback(s) PROVE IInv'
  <2>1. PICK p : /\ tx' = [tx EXCEPT ![s] = [tx[s] EXCEPT !.pc = p]]
                 /\ p = IF tx[s].op = "delete" /\ DefaultsOf(s) = {} THEN "latest" ELSE "commit"
                 /\ tx[s].op # "delete" => ~Several(DefaultsOf(s))
    BY <1>6 DEF CountDefaults
  <2> DEFINE w == [tx[s] EXCEPT !.pc = p]
  <2>2. /\ w.on = tx[s].on /\ w.off = tx[s].off /\ w.ins = tx[s].ins /\ w.op = tx[s].op
        /\ w.del = tx[s].del /\ w.pc = p
    BY <1>0 DEF TxRecord
  <2>3. InTx(s) /\ tx[s].pc = "count" /\ UNCHANGED <<rows, defaults>>
    BY <1>6 DEF CountDefaults, InTx
  <2> HIDE DEF w
  <2>4. tx' = [tx EXCEPT ![s] = w]
    BY <2>1 DEF w
  <2>5. DefaultsOf(s)' = DefaultsOf(s)
    BY <1>0, <2>2, <2>3, <2>4 DEF DefaultsOf, RowsOf
  <2>6. w.op = "delete" => ~Several(DefaultsOf(s)')
    BY <1>0, <1>c, <2>2, <2>3, <2>4 DEF IInv, Established
  <2>7. w.pc = "commit" => ~Several(DefaultsOf(s)')
    BY <2>1, <2>2, <2>5, <2>6
  <2>8. /\ w.op = "delete" /\ w.pc # "commit" => w.on = {} /\ w.off = {}
        /\ w.op \in {"update", "batch", "delete"} => w.ins = {}
    BY <2>2, <2>3 DEF IInv, Established
  <2>9. w.pc \in {"latest", "set"} => w.op = "delete" /\ DefaultsOf(s)' = {}
    BY <2>1, <2>2, <2>5
  <2> QED BY <1>0, <1>a, <2>3, <2>4, <2>7, <2>8, <2>9, InsideStep
<1>7. ASSUME NEW s \in Sessions, GetLatest(s) PROVE IInv'
  <2>1. PICK w : /\ tx' = [tx EXCEPT ![s] = w] /\ w.pc \in {"set", "commit"}
                 /\ w.on = tx[s].on /\ w.off = tx[s].off /\ w.ins = tx[s].ins
                 /\ w.op = tx[s].op /\ w.del = tx[s].del
    <3>1. CASE RowsOf(s) = {}
      <4>1. tx' = [tx EXCEPT ![s] = [tx[s] EXCEPT !.pc = "commit"]]
        BY <1>7, <3>1 DEF GetLatest
      <4> DEFINE w == [tx[s] EXCEPT !.pc = "commit"]
      <4>2. /\ w.pc = "commit" /\ w.on = tx[s].on /\ w.off = tx[s].off /\ w.ins = tx[s].ins
            /\ w.op = tx[s].op /\ w.del = tx[s].del
        BY <1>0 DEF TxRecord
      <4> HIDE DEF w
      <4>3. tx' = [tx EXCEPT ![s] = w]
        BY <4>1 DEF w
      <4> QED BY <4>2, <4>3
    <3>2. CASE RowsOf(s) # {}
      <4>1. PICK l \in RowsOf(s) : tx' = [tx EXCEPT ![s].pc = "set", ![s].pick = l]
        BY <1>7, <3>2 DEF GetLatest
      <4>2. tx' = [tx EXCEPT ![s] = [tx[s] EXCEPT !.pc = "set", !.pick = l]]
        BY <4>1
      <4> DEFINE w == [tx[s] EXCEPT !.pc = "set", !.pick = l]
      <4>3. /\ w.pc = "set" /\ w.on = tx[s].on /\ w.off = tx[s].off /\ w.ins = tx[s].ins
            /\ w.op = tx[s].op /\ w.del = tx[s].del
        BY <1>0 DEF TxRecord
      <4> HIDE DEF w
      <4>4. tx' = [tx EXCEPT ![s] = w]
        BY <4>2 DEF w
      <4> QED BY <4>3, <4>4
    <3> QED BY <3>1, <3>2
  <2>2. InTx(s) /\ tx[s].pc = "latest" /\ UNCHANGED <<rows, defaults>>
    BY <1>7 DEF GetLatest, InTx
  <2>3. /\ tx[s].op = "delete" /\ tx[s].on = {} /\ tx[s].off = {} /\ tx[s].ins = {}
        /\ DefaultsOf(s) = {}
    BY <2>2 DEF IInv, Established
  <2>4. DefaultsOf(s)' = {}
    BY <1>0, <2>1, <2>2, <2>3 DEF DefaultsOf, RowsOf
  <2> QED BY <1>0, <1>a, <2>1, <2>2, <2>3, <2>4, InsideStep DEF Several
<1>8. ASSUME NEW s \in Sessions, SetDefault(s), ~Rollback(s) PROVE IInv'
  <2> DEFINE w == [tx[s] EXCEPT !.on = {tx[s].pick}, !.pc = "commit"]
  <2>1. tx' = [tx EXCEPT ![s] = w] /\ UNCHANGED <<rows, defaults>> /\ InTx(s) /\ tx[s].pc = "set"
    BY <1>8 DEF SetDefault, InTx
  <2>2. /\ w.on = {tx[s].pick} /\ w.off = tx[s].off /\ w.ins = tx[s].ins /\ w.op = tx[s].op
        /\ w.del = tx[s].del /\ w.pc = "commit"
    BY <1>0 DEF TxRecord
  <2>3. /\ tx[s].op = "delete" /\ tx[s].on = {} /\ tx[s].off = {} /\ tx[s].ins = {}
        /\ DefaultsOf(s) = {}
    BY <2>1 DEF IInv, Established
  <2> HIDE DEF w
  <2>4. DefaultsOf(s)' \subseteq {tx[s].pick}
    BY <1>0, <2>1, <2>2, <2>3 DEF DefaultsOf, RowsOf
  <2>5. ~Several(DefaultsOf(s)')
    BY <2>4, SmallSets
  <2> QED BY <1>0, <1>a, <2>1, <2>2, <2>3, <2>5, InsideStep
<1>9. ASSUME NEW s \in Sessions, Commit(s) PROVE IInv'
  <2>1. /\ tx' = [tx EXCEPT ![s] = Idle] /\ defaults' = DefaultsOf(s)
        /\ tx[s].pc = "commit" /\ InTx(s)
    BY <1>9 DEF Commit, Rollback, InTx
  <2>2. AtMostOneDefault'
    BY <2>1 DEF IInv, Established, AtMostOneDefault, Several
  <2>3. \A o \in Sessions : ~InTx(o)'
    BY <1>0, <1>a, <2>1 DEF InTx, Idle, IInv, TypeOK
  <2>4. Alone'
    BY <2>3 DEF Alone
  <2>5. \A o \in Sessions : tx'[o] = tx[o] \/ tx'[o] = Idle
    BY <2>1 DEF IInv, TypeOK
  <2>6. Established'
    BY <2>3, <2>5 DEF IInv, Established, InTx, Idle
  <2> QED BY <1>0, <2>2, <2>4, <2>6 DEF IInv
<1>10. ASSUME NEW s \in Sessions, Fail(s) PROVE IInv'
  BY <1>r, <1>10 DEF Fail
<1>11. CASE UNCHANGED vars
  BY <1>0, <1>11 DEF vars, IInv, Alone, Established, AtMostOneDefault, InTx, DefaultsOf, RowsOf
<1>12. ASSUME NEW s \in Sessions, WriteUpdate(s) \/ WriteDelete(s) \/ CountDefaults(s) \/ SetDefault(s)
       PROVE IInv'
  <2>1. UNCHANGED <<rows, defaults>>
    BY <1>12 DEF WriteUpdate, WriteDelete, CountDefaults, SetDefault
  <2> QED BY <1>r, <1>3, <1>5, <1>6, <1>8, <1>12, <2>1
<1> QED
  BY <1>1, <1>2, <1>4, <1>7, <1>9, <1>10, <1>11, <1>12 DEF Next

-----------------------------------------------------------------------------
(* What a delete has established about the endpoint it promotes. *)

Newest(s) == /\ tx[s].pick \in RowsOf(s) /\ tx[s].pick # NoId
             /\ \A r \in RowsOf(s) : r <= tx[s].pick

Promises(s) ==
  /\ tx[s].pc \in {"idle", "ready", "count", "latest"} => tx[s].pick = NoId
  /\ tx[s].pc \in {"count", "latest", "set"} /\ tx[s].op = "delete" => tx[s].seen
  /\ tx[s].pc = "set" => Newest(s)
  /\ tx[s].pc = "commit" /\ tx[s].op = "delete" =>
       /\ IF tx[s].seen THEN DefaultsOf(s) # {} \/ RowsOf(s) = {}
                        ELSE DefaultsOf(s) = defaults \ {tx[s].id}
       /\ tx[s].pick # NoId => Newest(s) /\ DefaultsOf(s) = {tx[s].pick}

\* Another session's step: it commits while s is outside a transaction, or leaves
\* the table alone.
LEMMA OthersKeep ==
  ASSUME IInv, NEW s \in Sessions, Promises(s), tx'[s] = tx[s],
         UNCHANGED <<rows, defaults>> \/ ~InTx(s)
  PROVE  Promises(s)'
BY DEF Promises, Newest, RowsOf, DefaultsOf, InTx

LEMMA OwnStep ==
  ASSUME IInv, NEW s \in Sessions, Promises(s),
         \/ \E id \in Ids, makeDefault \in BOOLEAN : ReadForUpdate(s, id, makeDefault)
         \/ \E on, off \in SUBSET Ids : ReadForBatch(s, on, off)
         \/ \E id \in Ids : ReadForDelete(s, id)
         \/ \E n \in 1..MaxBatch, on \in SUBSET Ids : Insert(s, n, on)
         \/ WriteUpdate(s) \/ WriteBatch(s) \/ WriteDelete(s)
         \/ CountDefaults(s) \/ GetLatest(s) \/ SetDefault(s)
         \/ Commit(s) \/ Fail(s)
  PROVE  Promises(s)'
<1>0. /\ DOMAIN tx = Sessions /\ tx[s] \in TxRecord
      /\ defaults \subseteq rows /\ rows \subseteq Ids
  BY DEF IInv, TypeOK, TxRecord, Ops, Pcs
<1>r. ASSUME Rollback(s) PROVE Promises(s)'
  BY <1>0, <1>r DEF Rollback, Idle, Promises
<1>1. ASSUME NEW id \in Ids, NEW makeDefault \in BOOLEAN, ReadForUpdate(s, id, makeDefault)
      PROVE Promises(s)'
  BY <1>0, <1>1 DEF ReadForUpdate, Idle, Promises
<1>2. ASSUME NEW on \in SUBSET Ids, NEW off \in SUBSET Ids, ReadForBatch(s, on, off)
      PROVE Promises(s)'
  BY <1>0, <1>2 DEF ReadForBatch, Idle, Promises
<1>3. ASSUME NEW id \in Ids, ReadForDelete(s, id) PROVE Promises(s)'
  BY <1>0, <1>3 DEF ReadForDelete, Idle, Promises
<1>4. ASSUME NEW n \in 1..MaxBatch, NEW on \in SUBSET Ids, Insert(s, n, on)
      PROVE Promises(s)'
  BY <1>0, <1>4 DEF Insert, Idle, Promises
<1>5. CASE WriteUpdate(s)
  <2>1. CASE tx[s].id \in rows
    BY <1>0, <1>5, <2>1 DEF WriteUpdate, Promises, TxRecord
  <2> QED
    BY <1>5, <1>r, <2>1 DEF WriteUpdate
<1>6. CASE WriteBatch(s)
  BY <1>0, <1>6 DEF WriteBatch, Promises, TxRecord
<1>7. CASE WriteDelete(s)
  <2>1. CASE tx[s].id \in rows
    <3>1. tx'[s] = [tx[s] EXCEPT !.del = {tx[s].id}, !.pc = IF tx[s].seen THEN "count" ELSE "commit"]
      BY <1>0, <1>7, <2>1 DEF WriteDelete
    <3>2. /\ UNCHANGED <<rows, defaults>> /\ tx[s].op = "delete" /\ tx[s].pc = "ready"
          /\ tx[s].ins = {} /\ tx[s].on = {} /\ tx[s].off = {} /\ tx[s].pick = NoId
      BY <1>7 DEF WriteDelete, IInv, Established, Promises
    <3>3. DefaultsOf(s)' = defaults' \ {tx'[s].id}
      BY <1>0, <3>1, <3>2 DEF DefaultsOf, RowsOf, TxRecord
    <3> QED
      BY <1>0, <3>1, <3>2, <3>3 DEF Promises, TxRecord
  <2> QED
    BY <1>7, <1>r, <2>1 DEF WriteDelete
<1>8. CASE CountDefaults(s)
  <2>1. CASE tx[s].op = "delete"
    <3>1. /\ tx'[s] = [tx[s] EXCEPT !.pc = IF DefaultsOf(s) = {} THEN "latest" ELSE "commit"]
          /\ UNCHANGED <<rows, defaults>> /\ tx[s].seen /\ tx[s].pick = NoId
      BY <1>0, <1>8, <2>1 DEF CountDefaults, Promises
    <3>2. DefaultsOf(s)' = DefaultsOf(s)
      BY <1>0, <3>1 DEF DefaultsOf, RowsOf, TxRecord
    <3> QED
      BY <1>0, <3>1, <3>2 DEF Promises, TxRecord
  <2>2. CASE tx[s].op # "delete"
    <3>1. CASE Several(DefaultsOf(s))
      BY <1>8, <1>r, <2>2, <3>1 DEF CountDefaults
    <3>2. CASE ~Several(DefaultsOf(s))
      <4>1. tx'[s] = [tx[s] EXCEPT !.pc = "commit"]
        BY <1>0, <1>8, <2>2, <3>2 DEF CountDefaults
      <4> QED
        BY <1>0, <2>2, <4>1 DEF Promises, TxRecord
    <3> QED
      BY <3>1, <3>2
  <2> QED
    BY <2>1, <2>2
<1>9. CASE GetLatest(s)
  <2>0. /\ tx[s].op = "delete" /\ tx[s].seen /\ tx[s].pick = NoId
        /\ UNCHANGED <<rows, defaults>>
    BY <1>9 DEF GetLatest, IInv, Established, Promises
  <2>1. CASE RowsOf(s) = {}
    <3>1. tx'[s] = [tx[s] EXCEPT !.pc = "commit"]
      BY <1>0, <1>9, <2>1 DEF GetLatest
    <3>2. RowsOf(s)' = {}
      BY <1>0, <2>0, <2>1, <3>1 DEF RowsOf, TxRecord
    <3> QED
      BY <1>0, <2>0, <3>1, <3>2 DEF Promises, TxRecord
  <2>2. CASE RowsOf(s) # {}
    <3>1. PICK l \in RowsOf(s) :
            /\ \A r \in RowsOf(s) : r <= l
            /\ tx' = [tx EXCEPT ![s].pc = "set", ![s].pick = l]
      BY <1>9, <2>2 DEF GetLatest
    <3>2. tx'[s] = [tx[s] EXCEPT !.pc = "set", !.pick = l]
      BY <1>0, <3>1
    <3>3. RowsOf(s)' = RowsOf(s)
      BY <1>0, <2>0, <3>2 DEF RowsOf, TxRecord
    <3>4. l # NoId
      BY <1>0, EndpointDefaultAssumption DEF RowsOf, TxRecord, Ids, NoId
    <3>5. Newest(s)'
      BY <1>0, <3>1, <3>2, <3>3, <3>4 DEF Newest, TxRecord
    <3> QED
      BY <1>0, <2>0, <3>2, <3>5 DEF Promises, TxRecord
  <2> QED
    BY <2>1, <2>2
<1>10. CASE SetDefault(s)
  <2>1. CASE tx[s].pick \in RowsOf(s)
    <3>1. /\ tx'[s] = [tx[s] EXCEPT !.on = {tx[s].pick}, !.pc = "commit"]
          /\ UNCHANGED <<rows, defaults>>
      BY <1>0, <1>10, <2>1 DEF SetDefault
    <3>2. /\ tx[s].op = "delete" /\ DefaultsOf(s) = {} /\ tx[s].seen /\ Newest(s)
          /\ tx[s].on = {} /\ tx[s].off = {}
      BY <1>10 DEF SetDefault, IInv, Established, Promises
    <3>3. RowsOf(s)' = RowsOf(s) /\ DefaultsOf(s)' = {tx[s].pick}
      BY <1>0, <2>1, <3>1, <3>2 DEF DefaultsOf, RowsOf, TxRecord
    <3>4. Newest(s)'
      BY <1>0, <3>1, <3>2, <3>3 DEF Newest, TxRecord
    <3> QED
      BY <1>0, <3>1, <3>2, <3>3, <3>4 DEF Promises, TxRecord
  <2> QED
    BY <1>10, <1>r, <2>1 DEF SetDefault
<1>11. CASE Commit(s) \/ Fail(s)
  BY <1>11, <1>r DEF Commit, Fail
<1> QED
  BY <1>1, <1>2, <1>3, <1>4, <1>5, <1>6, <1>7, <1>8, <1>9, <1>10, <1>11

PInv == IInv /\ \A s \in Sessions : Promises(s)

LEMMA PromisesStep == ASSUME Serialized = TRUE PROVE PInv /\ [Next]_vars => PInv'
<1> SUFFICES ASSUME PInv, [Next]_vars, NEW s \in Sessions PROVE Promises(s)'
  BY InvStep DEF PInv
<1> USE DEF PInv
<1>1. CASE UNCHANGED vars
  <2>1. tx'[s] = tx[s] /\ UNCHANGED <<rows, defaults>>
    BY <1>1 DEF vars
  <2> QED
    BY <2>1, OthersKeep
<1>2. ASSUME NEW o \in Sessions,
             \/ \E id \in Ids, makeDefault \in BOOLEAN : ReadForUpdate(o, id, makeDefault)
             \/ \E on, off \in SUBSET Ids : ReadForBatch(o, on, off)
             \/ \E id \in Ids : ReadForDelete(o, id)
             \/ \E n \in 1..MaxBatch, on \in SUBSET Ids : Insert(o, n, on)
             \/ WriteUpdate(o) \/ WriteBatch(o) \/ WriteDelete(o)
             \/ CountDefaults(o) \/ GetLatest(o) \/ SetDefault(o)
             \/ Commit(o) \/ Fail(o)
      PROVE Promises(s)'
  <2>1. CASE o = s
    BY <1>2, <2>1, OwnStep
  <2>2. CASE o # s
    <3>1. tx'[s] = tx[s]
      BY <1>2, <2>2 DEF IInv, TypeOK, ReadForUpdate, ReadForBatch, ReadForDelete, Insert,
           WriteUpdate, WriteBatch, WriteDelete, CountDefaults, GetLatest, SetDefault,
           Commit, Fail, Rollback
    <3>2. CASE Commit(o)
      <4>1. ~InTx(s)
        BY <2>2, <3>2 DEF IInv, Alone, InTx, Commit
      <4> QED
        BY <3>1, <4>1, OthersKeep
    <3>3. CASE ~Commit(o)
      <4>1. UNCHANGED <<rows, defaults>>
        BY <1>2, <3>3 DEF ReadForUpdate, ReadForBatch, ReadForDelete, Insert, WriteUpdate,
             WriteBatch, WriteDelete, CountDefaults, GetLatest, SetDefault, Fail
      <4> QED
        BY <3>1, <4>1, OthersKeep
    <3> QED
      BY <3>2, <3>3
  <2> QED
    BY <2>1, <2>2
<1> QED
  BY <1>1, <1>2 DEF Next

LEMMA PromisesInit == Init => PInv
BY InitHolds DEF PInv, Promises, Init, Idle

-----------------------------------------------------------------------------
(* The portal's lookup among the steps of the requests (PortalLookup). *)

\* Only deletes take rows away, and only batches and deletes flags.
Grows(s) ==
  /\ tx[s].pc # "idle" => tx[s].op # "none"
  /\ tx[s].op # "delete" => tx[s].del = {}
  /\ tx[s].op \in {"add", "update"} => tx[s].off = {}

LEMMA GrowsStep ==
  ASSUME TypeOK, NEW s \in Sessions, Grows(s), [Next]_vars
  PROVE  Grows(s)'
<1>0. DOMAIN tx = Sessions /\ \A o \in Sessions : tx[o] \in TxRecord
  BY DEF TypeOK, TxRecord, Ops, Pcs
<1>s. tx'[s] = tx[s] => Grows(s)'
  BY DEF Grows
<1>r. tx'[s] = Idle => Grows(s)'
  BY DEF Grows, Idle
<1>1. CASE UNCHANGED vars
  BY <1>1, <1>s DEF vars
<1>2. ASSUME NEW o \in Sessions, Rollback(o) PROVE Grows(s)'
  BY <1>0, <1>2, <1>s, <1>r DEF Rollback
<1>3. ASSUME NEW o \in Sessions, NEW id \in Ids, NEW makeDefault \in BOOLEAN,
             ReadForUpdate(o, id, makeDefault)
      PROVE Grows(s)'
  BY <1>0, <1>3, <1>s DEF ReadForUpdate, Grows, Idle
<1>d. ASSUME NEW o \in Sessions, NEW id \in Ids, ReadForDelete(o, id) PROVE Grows(s)'
  <2>1. CASE o = s
    BY <1>0, <1>d, <2>1 DEF ReadForDelete, Grows, Idle
  <2>2. CASE o # s
    BY <1>0, <1>d, <1>s, <2>2 DEF ReadForDelete
  <2> QED
    BY <2>1, <2>2
<1>4. ASSUME NEW o \in Sessions, NEW on \in SUBSET Ids, NEW off \in SUBSET Ids,
             ReadForBatch(o, on, off)
      PROVE Grows(s)'
  BY <1>0, <1>4, <1>s DEF ReadForBatch, Grows, Idle
<1>5. ASSUME NEW o \in Sessions, NEW n \in 1..MaxBatch, NEW on \in SUBSET Ids, Insert(o, n, on)
      PROVE Grows(s)'
  BY <1>0, <1>5, <1>s DEF Insert, Grows, Idle
<1>6. ASSUME NEW o \in Sessions, WriteUpdate(o) \/ WriteBatch(o) \/ CountDefaults(o), ~Rollback(o)
      PROVE Grows(s)'
  <2>1. PICK p : /\ tx' = [tx EXCEPT ![o].pc = p]
                 /\ tx[o].pc # "idle"
    BY <1>6 DEF WriteUpdate, WriteBatch, CountDefaults
  <2> QED
    BY <1>0, <1>s, <2>1 DEF Grows, TxRecord
<1>7. ASSUME NEW o \in Sessions, WriteDelete(o), ~Rollback(o) PROVE Grows(s)'
  <2>1. /\ tx' = [tx EXCEPT ![o].del = {tx[o].id},
                            ![o].pc = IF tx[o].seen THEN "count" ELSE "commit"]
        /\ tx[o].op = "delete"
    BY <1>7 DEF WriteDelete
  <2> QED
    BY <1>0, <1>s, <2>1 DEF Grows, TxRecord
<1>8. ASSUME NEW o \in Sessions, GetLatest(o) PROVE Grows(s)'
  <2>1. \/ tx' = [tx EXCEPT ![o].pc = "commit"]
        \/ \E l : tx' = [tx EXCEPT ![o].pc = "set", ![o].pick = l]
    BY <1>8 DEF GetLatest
  <2>2. tx[o].pc # "idle"
    BY <1>8 DEF GetLatest
  <2> QED
    BY <1>0, <1>s, <2>1, <2>2 DEF Grows, TxRecord
<1>9. ASSUME NEW o \in Sessions, SetDefault(o), ~Rollback(o) PROVE Grows(s)'
  <2>1. tx' = [tx EXCEPT ![o].on = {tx[o].pick}, ![o].pc = "commit"] /\ tx[o].pc # "idle"
    BY <1>9 DEF SetDefault
  <2> QED
    BY <1>0, <1>s, <2>1 DEF Grows, TxRecord
<1> QED
  BY <1>1, <1>2, <1>3, <1>d, <1>4, <1>5, <1>6, <1>7, <1>8, <1>9 DEF Next, Commit, Fail

\* A commit that leaves the platform without a default, or without an endpoint,
\* was asked to.
LEMMA CommitAsks ==
  ASSUME PInv, NEW s \in Sessions, Grows(s), Commit(s)
  PROVE  /\ rows # {} /\ rows' = {} => "endpoint" \in Asked(s)
         /\ defaults # {} /\ defaults' = {} => Asked(s) # {}
<1>1. /\ rows' = RowsOf(s) /\ defaults' = DefaultsOf(s) /\ tx[s].pc = "commit"
      /\ tx[s].op \in Ops /\ tx[s].op # "none" /\ Promises(s)
      /\ defaults \subseteq rows
  BY DEF PInv, IInv, TypeOK, Commit, Grows, Ops
<1>2. tx[s].op # "delete" => rows \subseteq rows'
  BY <1>1 DEF Grows, RowsOf
<1>3. tx[s].op \in {"add", "update"} => defaults \subseteq defaults'
  BY <1>1, <1>2 DEF Grows, DefaultsOf
<1>4. tx[s].op = "delete" => (RowsOf(s) = {} => "endpoint" \in Asked(s))
  BY DEF Asked
<1>5. tx[s].op = "delete" /\ ~tx[s].seen => Asked(s) # {}
  BY DEF Asked
<1>6. tx[s].op = "delete" /\ tx[s].seen => DefaultsOf(s) # {} \/ RowsOf(s) = {}
  BY <1>1 DEF Promises
<1>7. tx[s].op = "batch" /\ DefaultsOf(s) = {} => Asked(s) # {}
  BY DEF Asked
<1> QED
  BY <1>1, <1>2, <1>3, <1>4, <1>5, <1>6, <1>7 DEF Ops

\* Between its statements a lookup finds what it matched, or it was asked away.
StillMatches ==
  /\ lookup \in [by : {"none", "default", "typed"}, pc : {"idle", "preload", "panic"}]
  /\ lookup.pc # "idle" => lookup.by # "none"
  /\ lookup.pc = "preload" =>
       IF lookup.by = "default" THEN defaults # {} \/ cleared # {}
                                ELSE rows # {} \/ "endpoint" \in cleared

LookupInv ==
  PInv /\ (\A s \in Sessions : Grows(s)) /\ StillMatches /\ LookupFailsOnlyIfAsked

LEMMA LookupStarts == LookupInit => LookupInv
<1> SUFFICES ASSUME LookupInit PROVE LookupInv
  OBVIOUS
<1>1. PInv
  BY PromisesInit DEF LookupInit
<1>2. \A s \in Sessions : Grows(s)
  BY DEF LookupInit, Init, Grows, Idle
<1>3. StillMatches /\ LookupFailsOnlyIfAsked
  BY DEF LookupInit, NoLookup, StillMatches, LookupFailsOnlyIfAsked
<1> QED
  BY <1>1, <1>2, <1>3 DEF LookupInv

LEMMA LookupStep == ASSUME Serialized = TRUE PROVE LookupInv /\ [LookupNext]_lookupVars => LookupInv'
<1> SUFFICES ASSUME LookupInv, [LookupNext]_lookupVars PROVE LookupInv'
  OBVIOUS
<1>1. [Next]_vars
  BY DEF LookupNext, ControlPlane, Find, Preload, Recover, lookupVars
<1>2. PInv'
  BY <1>1, PromisesStep DEF LookupInv
<1>3. \A s \in Sessions : Grows(s)'
  BY <1>1, GrowsStep DEF LookupInv, PInv, IInv
<1>4. StillMatches' /\ LookupFailsOnlyIfAsked'
  <2>1. CASE ControlPlane
    <3>1. UNCHANGED lookup /\ Next
      BY <2>1 DEF ControlPlane
    <3>2. CASE lookup.pc # "preload"
      <4>1. UNCHANGED cleared
        BY <2>1, <3>2 DEF ControlPlane
      <4> QED
        BY <3>1, <3>2, <4>1 DEF LookupInv, StillMatches, LookupFailsOnlyIfAsked
    <3>3. CASE lookup.pc = "preload"
      <4>1. cleared' = cleared \cup UNION {Asked(s) : s \in {c \in Sessions : Commit(c)}}
        BY <2>1, <3>3 DEF ControlPlane
      <4>2. cleared \subseteq cleared' /\ \A s \in Sessions : Commit(s) => Asked(s) \subseteq cleared'
        BY <4>1
      <4>3. /\ rows # {} /\ rows' = {} => "endpoint" \in cleared'
            /\ defaults # {} /\ defaults' = {} => cleared' # {}
        <5>1. CASE UNCHANGED <<rows, defaults>>
          BY <5>1
        <5>2. CASE \E s \in Sessions : Commit(s)
          <6>1. PICK s \in Sessions : Commit(s)
            BY <5>2
          <6> QED
            BY <4>2, <6>1, CommitAsks DEF LookupInv
        <5> QED
          BY <3>1, <5>1, <5>2 DEF Next, ReadForUpdate, ReadForBatch, ReadForDelete, Insert,
             WriteUpdate, WriteBatch, WriteDelete, CountDefaults, GetLatest, SetDefault, Fail
      <4> QED
        BY <3>1, <3>3, <4>2, <4>3 DEF LookupInv, StillMatches, LookupFailsOnlyIfAsked
    <3> QED
      BY <3>2, <3>3
  <2>2. ASSUME NEW by \in {"default", "typed"}, Find(by)
        PROVE  StillMatches' /\ LookupFailsOnlyIfAsked'
    BY <2>2 DEF Find, Matching, vars, StillMatches, LookupFailsOnlyIfAsked
  <2>3. CASE Preload
    <3>1. CASE Matching(lookup.by) = {}
      BY <2>3, <3>1 DEF Preload, Matching, LookupInv, StillMatches, LookupFailsOnlyIfAsked
    <3>2. CASE Matching(lookup.by) # {}
      BY <2>3, <3>2 DEF Preload, NoLookup, StillMatches, LookupFailsOnlyIfAsked
    <3> QED
      BY <3>1, <3>2
  <2>4. CASE Recover
    BY <2>4 DEF Recover, NoLookup, StillMatches, LookupFailsOnlyIfAsked
  <2>5. CASE UNCHANGED lookupVars
    BY <2>5 DEF lookupVars, vars, LookupInv, StillMatches, LookupFailsOnlyIfAsked
  <2> QED
    BY <2>1, <2>2, <2>3, <2>4, <2>5 DEF LookupNext
<1> QED
  BY <1>2, <1>3, <1>4 DEF LookupInv

-----------------------------------------------------------------------------
(* Theorems. *)

\* The table, the default flags and the transactions keep their types, and a
\* flag is only ever set on an existing endpoint, whatever the database's
\* isolation.
THEOREM TypeCorrect == Spec => []TypeOK
<1>1. Init => TypeOK
  BY InitHolds DEF IInv
<1> QED BY <1>1, TypeStep, PTL DEF Spec

\* On a database that runs one writing transaction at a time, the count in the
\* transactions is enough: a platform never has two default endpoints, for any
\* number of sessions, endpoints and batch sizes.
THEOREM OneDefaultWhenSerialized == ASSUME Serialized = TRUE PROVE Spec => []AtMostOneDefault
<1>1. IInv => AtMostOneDefault
  BY DEF IInv
<1>2. IInv /\ [Next]_vars => IInv'
  BY InvStep
<1> QED BY <1>1, <1>2, InitHolds, PTL DEF Spec

\* A delete hands the default on: a platform that had one keeps one while it
\* has endpoints, and the endpoint that becomes it is the newest of those left
\* when the delete commits, not only when it was chosen.
THEOREM DeletePromotes == ASSUME Serialized = TRUE PROVE Spec => DeleteHandsDefaultOn
<1> DEFINE HandsOn ==
       \A s \in Sessions :
         tx[s].op = "delete" /\ Commit(s) => KeepsDefault(s) /\ PromotesNewest(s)
<1>1. PInv => HandsOn
  <2> SUFFICES ASSUME PInv, NEW s \in Sessions, tx[s].op = "delete", Commit(s)
               PROVE  KeepsDefault(s) /\ PromotesNewest(s)
    OBVIOUS
  <2>1. Promises(s) /\ defaults' = DefaultsOf(s) /\ rows' = RowsOf(s) /\ tx[s].pc = "commit"
    BY DEF PInv, Commit
  <2>2. KeepsDefault(s)
    BY <2>1 DEF Promises, KeepsDefault
  <2>3. ASSUME tx[s].pick # NoId
        PROVE  \E l \in rows' : defaults' = {l} /\ \A r \in rows' : r <= l
    <3>1. Newest(s) /\ DefaultsOf(s) = {tx[s].pick}
      BY <2>1, <2>3 DEF Promises
    <3>2. tx[s].pick \in rows' /\ \A r \in rows' : r <= tx[s].pick
      BY <2>1, <3>1 DEF Newest
    <3> QED
      BY <2>1, <3>1, <3>2
  <2> QED
    BY <2>2, <2>3 DEF PromotesNewest
<1>2. PInv /\ [Next]_vars => [HandsOn]_vars
  BY <1>1
<1>3. PInv /\ [Next]_vars => PInv'
  BY PromisesStep
<1> QED
  BY PromisesInit, <1>2, <1>3, PTL DEF Spec, DeleteHandsDefaultOn

\* On a database that runs one writing transaction at a time, a lookup that
\* matched an endpoint in its join fails in its preload only if a request took
\* the endpoint or the flag away on purpose meanwhile, however many requests
\* fall between the two statements.
THEOREM LookupsFailOnlyIfAsked ==
  ASSUME Serialized = TRUE PROVE LookupSpec => []LookupFailsOnlyIfAsked
<1>1. LookupInv => LookupFailsOnlyIfAsked
  BY DEF LookupInv
<1>2. LookupInv /\ [LookupNext]_lookupVars => LookupInv'
  BY LookupStep
<1> QED
  BY <1>1, <1>2, LookupStarts, PTL DEF LookupSpec
=============================================================================
