--------------------------- MODULE EndpointDefault ---------------------------
(***************************************************************************)
(* The endpoints of one platform and which of them is the default:         *)
(* internal/app/provider/endpoint.go (the batch operations),               *)
(* endpoint_{add,update,delete}_app_service.go and their repository        *)
(* endpoint_control_repository.go.                                         *)
(*                                                                         *)
(* Every operation reads what it needs before its transaction, then writes *)
(* inside it, counts the defaults and rolls back when there are several.   *)
(* Nothing in the schema enforces the count, so what it is worth depends   *)
(* on the database: SQLite lets one transaction write at a time, the       *)
(* others show a transaction what is committed and its own writes.         *)
(***************************************************************************)
EXTENDS Naturals

CONSTANTS
  Sessions,    \* goroutines serving endpoint requests
  MaxId,       \* bound: endpoint ids are 1..MaxId, handed out in order
  MaxBatch,    \* bound: endpoints per batch insert
  Serialized   \* TRUE: one writing transaction at a time (SQLite)

ASSUME EndpointDefaultAssumption ==
  /\ MaxId \in Nat
  /\ MaxBatch \in Nat
  /\ Serialized \in BOOLEAN

Ids  == 1..MaxId
NoId == 0

VARIABLES
  rows,      \* ids in the endpoints table (committed)
  defaults,  \* ids whose is_default is set (committed)
  nextId,    \* the table's auto-increment
  tx         \* per session: the request it serves and its uncommitted writes

vars == <<rows, defaults, nextId, tx>>

\* ins, del, on, off: rows inserted, deleted, made default, unmade default.
\* seen: IsDefault of the endpoint as a delete read it before its transaction.
\* pick: the endpoint a delete promotes.
Idle == [op |-> "none", pc |-> "idle", id |-> NoId, seen |-> FALSE, pick |-> NoId,
         ins |-> {}, del |-> {}, on |-> {}, off |-> {}]

\* What a session's statements see, and what its commit installs.
RowsOf(s)     == (rows \cup tx[s].ins) \ tx[s].del
DefaultsOf(s) == ((defaults \cup tx[s].on) \ tx[s].off) \cap RowsOf(s)

Several(S) == \E a, b \in S : a # b

InTx(s)    == tx[s].pc \in {"count", "latest", "set", "commit"}
Touched(s) ==
  IF ~InTx(s) THEN {}
  ELSE tx[s].del \cup tx[s].on \cup tx[s].off
       \cup (IF tx[s].op = "update" THEN {tx[s].id} ELSE {})

\* A statement that writes the rows R waits for the transactions holding them.
CanWrite(s, R) ==
  \A o \in Sessions \ {s} :
    /\ Serialized => ~InTx(o)
    /\ R \cap Touched(o) = {}

Init ==
  /\ rows = {}
  /\ defaults = {}
  /\ nextId = 1
  /\ tx = [s \in Sessions |-> Idle]

Rollback(s) == tx' = [tx EXCEPT ![s] = Idle]

-----------------------------------------------------------------------------
(* The reads before the transactions.  Adding reads nothing about           *)
(* endpoints; it starts with Insert.                                        *)

ReadForUpdate(s, id, makeDefault) ==
  /\ tx[s].pc = "idle"
  /\ id \in rows
  /\ tx' = [tx EXCEPT ![s] = [Idle EXCEPT !.op = "update", !.pc = "ready", !.id = id,
                                          !.on = IF makeDefault THEN {id} ELSE {}]]
  /\ UNCHANGED <<rows, defaults, nextId>>

\* BatchUpdateEndpoints: every item must exist; IsDefault may be set or cleared.
ReadForBatch(s, on, off) ==
  /\ tx[s].pc = "idle"
  /\ on \cap off = {} /\ on \cup off # {}
  /\ on \cup off \subseteq rows
  /\ tx' = [tx EXCEPT ![s] = [Idle EXCEPT !.op = "batch", !.pc = "ready",
                                          !.on = on, !.off = off]]
  /\ UNCHANGED <<rows, defaults, nextId>>

ReadForDelete(s, id) ==
  /\ tx[s].pc = "idle"
  /\ id \in rows
  /\ tx' = [tx EXCEPT ![s] = [Idle EXCEPT !.op = "delete", !.pc = "ready", !.id = id,
                                          !.seen = (id \in defaults)]]
  /\ UNCHANGED <<rows, defaults, nextId>>

-----------------------------------------------------------------------------
(* The transactions. *)

\* addEndpointToPlatformApp (n = 1) and BatchAddEndpointsToPlatform: the count
\* follows only when a default was among the new endpoints.
Insert(s, n, on) ==
  /\ tx[s].pc = "idle"
  /\ nextId + n <= MaxId + 1
  /\ CanWrite(s, {})
  /\ LET new == nextId..(nextId + n - 1) IN
     /\ on \subseteq new
     /\ tx' = [tx EXCEPT ![s] = [Idle EXCEPT !.op = "add", !.ins = new, !.on = on,
                                   !.pc = IF on = {} THEN "commit" ELSE "count"]]
  /\ nextId' = nextId + n
  /\ UNCHANGED <<rows, defaults>>

\* Seeded bug: a single update skips the count.
WriteUpdate_unchecked(s) ==
  /\ tx[s].op = "update" /\ tx[s].pc = "ready"
  /\ CanWrite(s, {tx[s].id})
  /\ IF tx[s].id \in rows
     THEN tx' = [tx EXCEPT ![s].pc = "commit"]
     ELSE Rollback(s)
  /\ UNCHANGED <<rows, defaults, nextId>>

WriteUpdate(s) ==
  /\ tx[s].op = "update" /\ tx[s].pc = "ready"
  /\ CanWrite(s, {tx[s].id})
  /\ IF tx[s].id \in rows
     THEN tx' = [tx EXCEPT ![s].pc = IF tx[s].on = {} THEN "commit" ELSE "count"]
     ELSE Rollback(s)
  /\ UNCHANGED <<rows, defaults, nextId>>

\* Rows deleted since the read are passed over without an error.
WriteBatch(s) ==
  /\ tx[s].op = "batch" /\ tx[s].pc = "ready"
  /\ CanWrite(s, tx[s].on \cup tx[s].off)
  /\ tx' = [tx EXCEPT ![s].pc = "count"]
  /\ UNCHANGED <<rows, defaults, nextId>>

WriteDelete(s) ==
  /\ tx[s].op = "delete" /\ tx[s].pc = "ready"
  /\ CanWrite(s, {tx[s].id})
  /\ IF tx[s].id \in rows
     THEN tx' = [tx EXCEPT ![s].del = {tx[s].id},
                           ![s].pc = IF tx[s].seen THEN "count" ELSE "commit"]
     ELSE Rollback(s)
  /\ UNCHANGED <<rows, defaults, nextId>>

\* Seeded bug: the count runs outside the transaction, on what is committed.
CountDefaults_outsideTx(s) ==
  /\ tx[s].pc = "count"
  /\ IF tx[s].op = "delete"
     THEN tx' = [tx EXCEPT ![s].pc = IF defaults = {} THEN "latest" ELSE "commit"]
     ELSE IF Several(defaults)
     THEN Rollback(s)
     ELSE tx' = [tx EXCEPT ![s].pc = "commit"]
  /\ UNCHANGED <<rows, defaults, nextId>>

\* ErrDefaultConflict; a delete that finds no default left promotes another.
CountDefaults(s) ==
  /\ tx[s].pc = "count"
  /\ IF tx[s].op = "delete"
     THEN tx' = [tx EXCEPT ![s].pc = IF DefaultsOf(s) = {} THEN "latest" ELSE "commit"]
     ELSE IF Several(DefaultsOf(s))
     THEN Rollback(s)
     ELSE tx' = [tx EXCEPT ![s].pc = "commit"]
  /\ UNCHANGED <<rows, defaults, nextId>>

GetLatest(s) ==
  /\ tx[s].pc = "latest"
  /\ IF RowsOf(s) = {}
     THEN tx' = [tx EXCEPT ![s].pc = "commit"]
     ELSE \E l \in RowsOf(s) :
            /\ \A r \in RowsOf(s) : r <= l
            /\ tx' = [tx EXCEPT ![s].pc = "set", ![s].pick = l]
  /\ UNCHANGED <<rows, defaults, nextId>>

SetDefault(s) ==
  /\ tx[s].pc = "set"
  /\ CanWrite(s, {tx[s].pick})
  /\ IF tx[s].pick \in RowsOf(s)
     THEN tx' = [tx EXCEPT ![s].on = {tx[s].pick}, ![s].pc = "commit"]
     ELSE Rollback(s)
  /\ UNCHANGED <<rows, defaults, nextId>>

Commit(s) ==
  /\ tx[s].pc = "commit"
  /\ rows' = RowsOf(s)
  /\ defaults' = DefaultsOf(s)
  /\ Rollback(s)
  /\ UNCHANGED nextId

\* A statement, or the commit, fails: a lock timeout, a deadlock victim, a
\* cancelled request.
Fail(s) ==
  /\ tx[s].pc # "idle"
  /\ Rollback(s)
  /\ UNCHANGED <<rows, defaults, nextId>>

Next == \E s \in Sessions :
  \/ \E id \in Ids, makeDefault \in BOOLEAN : ReadForUpdate(s, id, makeDefault)
  \/ \E on, off \in SUBSET Ids : ReadForBatch(s, on, off)
  \/ \E id \in Ids : ReadForDelete(s, id)
  \/ \E n \in 1..MaxBatch, on \in SUBSET Ids : Insert(s, n, on)
  \/ WriteUpdate(s) \/ WriteBatch(s) \/ WriteDelete(s)
  \/ CountDefaults(s) \/ GetLatest(s) \/ SetDefault(s)
  \/ Commit(s) \/ Fail(s)

Spec == Init /\ [][Next]_vars

-----------------------------------------------------------------------------
(* Properties. *)

\* Types; only rows are defaults.
TypeOK ==
  /\ rows \subseteq Ids
  /\ defaults \subseteq rows
  /\ nextId \in 1..(MaxId + 1)
  /\ tx \in [Sessions ->
       [op : {"none", "add", "update", "batch", "delete"},
        pc : {"idle", "ready", "count", "latest", "set", "commit"},
        id : Ids \cup {NoId}, seen : BOOLEAN, pick : Ids \cup {NoId},
        ins : SUBSET Ids, del : SUBSET Ids, on : SUBSET Ids, off : SUBSET Ids]]

\* What endpoint_add_app_service.go:53 and its siblings check before they
\* commit: a platform never has several default endpoints.
AtMostOneDefault == ~Several(defaults)

KeepsDefault(s) ==
  /\ defaults # {} /\ rows' # {}
  /\ tx[s].id \in defaults => tx[s].seen
  => defaults' # {}

PromotesNewest(s) ==
  tx[s].pick # NoId => \E l \in rows' : defaults' = {l} /\ \A r \in rows' : r <= l

\* Deleting an endpoint does not leave a platform that had a default and still
\* has endpoints without one - unless the endpoint became the default after
\* the delete looked at it, before its transaction; and what a delete promotes
\* is the newest endpoint the platform is left with when it commits.
DeleteHandsDefaultOn ==
  [][\A s \in Sessions :
       tx[s].op = "delete" /\ Commit(s) => KeepsDefault(s) /\ PromotesNewest(s)]_vars
=============================================================================
