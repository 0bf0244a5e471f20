------------------------- MODULE HealthStorageProofs -------------------------
(***************************************************************************)
(* HealthStorage for any set of resources, callers and any behaviour of    *)
(* the database: TypeOK, CacheMatchesTable, FinishedWriteHolds,            *)
(* OrphansAreRecent and NegativeNeedsDeletion are invariants of Spec, and  *)
(* so is ListsAgree of HealthQueries, for any list and any page size.      *)
(*                                                                         *)
(* None of the four after the types is inductive.  What they lack is who   *)
(* is between the halves of a write: a resource without refused or         *)
(* overlapping writes has at most one such caller, and the cache holds     *)
(* what it is about to put in the table (Coupled); a value recorded in     *)
(* stored is written by nobody (Settled); orphans are confined to toClean  *)
(* while the process starts, to gone afterwards (Confined); and the total  *)
(* a summary has read still counts the live resources (Honest).            *)
(***************************************************************************)
EXTENDS HealthQueries, FiniteSetTheorems, TLAPS

Coupled ==
  \A r \in Resources : phase = "up" /\ clean[r] =>
    /\ \A c, d \in Writing(r) : c = d
    /\ \A c \in Writing(r) : cache[r] = call[c].val
    /\ Writing(r) = {} => cache[r] = table[r]

Settled ==
  \A r \in Resources : stored[r] # Unknown =>
    /\ table[r] = stored[r]
    /\ phase = "up" => cache[r] = stored[r] /\ Writing(r) = {}

Confined ==
  /\ phase = "cleaning" =>
       \A r \in Resources : table[r] # None => row[r] = "live" \/ r \in toClean
  /\ phase = "up" =>
       \A r \in Resources : cache[r] # None => row[r] = "live" \/ r \in gone
  /\ \A c \in Callers :
       call[c].pc # "idle" => row[call[c].res] = "live" \/ call[c].res \in gone

IInv == TypeOK /\ Coupled /\ Settled /\ Confined

\* A step that no writer, resource or record takes part in.
Aside == (SummaryTotal \/ SummaryCount \/ SummaryReply \/ UNCHANGED vars)

LEMMA InitHolds == Init => IInv
BY DEF Init, IInv, TypeOK, Coupled, Settled, Confined, Idle, NoSummary, Value, Status,
       None, Unknown, Writing

-----------------------------------------------------------------------------
(* Types. *)

LEMMA TypeStep == TypeOK /\ [Next]_vars => TypeOK'
<1> SUFFICES ASSUME TypeOK, [Next]_vars PROVE TypeOK'
  OBVIOUS
<1> USE DEF TypeOK, Idle, NoSummary, Value, Status, None, Unknown
<1>1. CASE BeginBoot
  BY <1>1 DEF BeginBoot, history
<1>2. ASSUME NEW r \in Resources, CleanRecord(r) PROVE TypeOK'
  BY <1>2 DEF CleanRecord
<1>3. CASE LoadCache
  BY <1>3 DEF LoadCache
<1>4. CASE Crash
  BY <1>4 DEF Crash, history
<1>5. ASSUME NEW c \in Callers, NEW r \in Resources, NEW enabled \in BOOLEAN,
             Request(c, r, enabled)
      PROVE TypeOK'
  <2>1. (IF enabled THEN None ELSE "Unavailable") \in Value
    OBVIOUS
  <2> QED BY <1>5, <2>1 DEF Request, history
<1>6. ASSUME NEW c \in Callers, NEW r \in Resources, Pick(c, r) PROVE TypeOK'
  BY <1>6 DEF Pick, history
<1>7. ASSUME NEW c \in Callers, NEW v \in Value, Report(c, v) PROVE TypeOK'
  <2> DEFINE w == [call[c] EXCEPT !.pc = "cache", !.val = v]
  <2>1. phase = "up" /\ w.res \in Resources /\
        w \in [pc : {"idle", "relay", "cache", "table"},
               res : Resources \cup {NoResource}, val : Value]
    BY <1>7 DEF Report
  <2>2. call' = [call EXCEPT ![c] = w]
    BY <1>7 DEF Report
  <2> HIDE DEF w
  <2> QED BY <1>7, <2>1, <2>2 DEF Report, history
<1>8. ASSUME NEW c \in Callers, WriteCache(c) PROVE TypeOK'
  <2> DEFINE r == call[c].res
  <2>1. r \in Resources /\ call[c].val \in Value /\ phase = "up"
    BY <1>8 DEF WriteCache
  <2>2. cache' \in [Resources -> Value] /\ stored' \in [Resources -> Value \cup {Unknown}]
    BY <1>8, <2>1 DEF WriteCache
  <2>3. clean' \in [Resources -> BOOLEAN]
    <3>1. (clean[r] /\ Writing(r) = {}) \in BOOLEAN
      OBVIOUS
    <3>2. clean' = [clean EXCEPT ![r] = (clean[r] /\ Writing(r) = {})]
      BY <1>8 DEF WriteCache
    <3> QED BY <3>1, <3>2, <2>1
  <2>4. call' = [call EXCEPT ![c].pc = "table"]
    BY <1>8 DEF WriteCache
  <2> QED BY <1>8, <2>1, <2>2, <2>3, <2>4 DEF WriteCache, history
<1>9. ASSUME NEW c \in Callers, WriteTable(c) PROVE TypeOK'
  BY <1>9 DEF WriteTable, history
<1>10. ASSUME NEW c \in Callers, RefuseTable(c) PROVE TypeOK'
  BY <1>10 DEF RefuseTable, history
<1>11. ASSUME NEW r \in Resources, CreateRow(r) PROVE TypeOK'
  BY <1>11 DEF CreateRow, history
<1>12. ASSUME NEW r \in Resources, DeleteRow(r) PROVE TypeOK'
  BY <1>12 DEF DeleteRow, history
<1>13. CASE Aside
  <2>1. Cardinality(Live) \in Nat /\ Counted \in Nat
    BY HealthStorageAssumption, FS_Subset, FS_CardinalityType DEF Live, Counted
  <2>2. CASE SummaryTotal
    BY <2>1, <2>2 DEF SummaryTotal, history
  <2>3. CASE SummaryCount
    <3> DEFINE u == summary.total - Counted
    <3>1. u \in Int
      BY <2>1
    <3>2. summary' = [summary EXCEPT !.pc = "done", !.unknown = u]
      BY <2>3 DEF SummaryCount
    <3> HIDE DEF u
    <3>3. summary' \in [pc : {"idle", "count", "done"}, total : Nat, unknown : Int,
                        raced : BOOLEAN]
      BY <3>1, <3>2
    <3> QED BY <2>3, <3>3 DEF SummaryCount, history
  <2>4. CASE SummaryReply
    BY <2>4 DEF SummaryReply, history
  <2>5. CASE UNCHANGED vars
    BY <2>5 DEF vars, history
  <2> QED BY <1>13, <2>2, <2>3, <2>4, <2>5 DEF Aside
<1> QED
  BY <1>1, <1>2, <1>3, <1>4, <1>5, <1>6, <1>7, <1>8, <1>9, <1>10, <1>11, <1>12, <1>13
     DEF Next, Boot, Write, Aside

-----------------------------------------------------------------------------
(* Who is between the halves of a write, before and after a step of c. *)

\* Only c's call changes, and c is between halves neither before nor after.
LEMMA OutsideWrite ==
  ASSUME NEW c \in Callers, NEW r \in Resources,
         \A d \in Callers : d # c => call'[d] = call[d],
         call[c].pc # "table", call'[c].pc # "table"
  PROVE  Writing(r)' = Writing(r) /\ \A d \in Writing(r) : call'[d] = call[d]
BY DEF Writing

\* c passes from the first half to the second.
LEMMA EntersWrite ==
  ASSUME NEW c \in Callers, NEW r \in Resources,
         \A d \in Callers : d # c => call'[d] = call[d],
         call[c].pc # "table", call'[c].pc = "table", call'[c].res = call[c].res
  PROVE  Writing(r)' = IF call[c].res = r THEN Writing(r) \cup {c} ELSE Writing(r)
BY DEF Writing

\* c leaves the second half.
LEMMA LeavesWrite ==
  ASSUME NEW c \in Callers, NEW r \in Resources,
         \A d \in Callers : d # c => call'[d] = call[d],
         call'[c].pc # "table"
  PROVE  Writing(r)' = Writing(r) \ {c}
BY DEF Writing

\* A step that leaves records, calls and the phase alone.
LEMMA Untouched ==
  ASSUME UNCHANGED <<phase, cache, table, call, clean, stored>>
  PROVE  /\ Coupled => Coupled'
         /\ Settled => Settled'
BY DEF Coupled, Settled, Writing

\* A step of c outside a write: the call of c is all that changes.
LEMMA OutsideStep ==
  ASSUME NEW c \in Callers, Coupled, Settled,
         \A d \in Callers : d # c => call'[d] = call[d],
         call[c].pc # "table", call'[c].pc # "table",
         UNCHANGED <<phase, cache, table, clean, stored>>
  PROVE  Coupled' /\ Settled'
<1>1. \A r \in Resources : Writing(r)' = Writing(r) /\ \A d \in Writing(r) : call'[d] = call[d]
  BY OutsideWrite
<1> QED BY <1>1 DEF Coupled, Settled

-----------------------------------------------------------------------------
(* The inductive invariant. *)

LEMMA WriteCacheStep ==
  ASSUME IInv, NEW c \in Callers, WriteCache(c) PROVE Coupled' /\ Settled' /\ Confined'
<1> DEFINE r == call[c].res
<1>1. r \in Resources /\ phase = "up" /\ call[c].pc = "cache" /\ phase' = phase
      /\ table' = table /\ row' = row /\ gone' = gone
  BY DEF IInv, TypeOK, WriteCache
<1>2. /\ cache'[r] = call[c].val /\ stored'[r] = Unknown
      /\ clean'[r] = (clean[r] /\ Writing(r) = {})
      /\ \A s \in Resources : s # r =>
           cache'[s] = cache[s] /\ stored'[s] = stored[s] /\ clean'[s] = clean[s]
  BY <1>1 DEF IInv, TypeOK, WriteCache
<1>3. /\ call'[c].pc = "table" /\ call'[c].res = r /\ call'[c].val = call[c].val
      /\ \A d \in Callers : d # c => call'[d] = call[d]
  BY DEF IInv, TypeOK, WriteCache
<1> HIDE DEF r
<1>4. \A s \in Resources : Writing(s)' = IF r = s THEN Writing(s) \cup {c} ELSE Writing(s)
  BY <1>1, <1>3, EntersWrite DEF r
<1>5. \A s \in Resources : \A d \in Writing(s) : d \in Callers /\ d # c /\ call'[d] = call[d]
  BY <1>1, <1>3 DEF Writing
<1>6. Coupled'
  <2> SUFFICES ASSUME NEW s \in Resources, clean'[s]
               PROVE  /\ \A x, d \in Writing(s)' : x = d
                      /\ \A x \in Writing(s)' : cache'[s] = call'[x].val
                      /\ Writing(s)' = {} => cache'[s] = table'[s]
    BY DEF Coupled
  <2>1. CASE s = r
    <3>1. Writing(s)' = {c}
      BY <1>2, <1>4, <2>1
    <3> QED BY <1>2, <1>3, <2>1, <3>1
  <2>2. CASE s # r
    BY <1>1, <1>2, <1>4, <1>5, <2>2 DEF IInv, Coupled
  <2> QED BY <2>1, <2>2
<1>7. Settled'
  <2> SUFFICES ASSUME NEW s \in Resources, stored'[s] # Unknown
               PROVE  /\ table'[s] = stored'[s]
                      /\ phase' = "up" => cache'[s] = stored'[s] /\ Writing(s)' = {}
    BY DEF Settled
  <2>1. s # r
    BY <1>2
  <2> QED BY <1>1, <1>2, <1>4, <2>1 DEF IInv, Settled
<1>8. Confined'
  <2>1. row[r] = "live" \/ r \in gone
    BY <1>1 DEF IInv, Confined, r
  <2>2. \A s \in Resources : cache'[s] # None => row'[s] = "live" \/ s \in gone'
    BY <1>1, <1>2, <2>1 DEF IInv, Confined
  <2>3. \A d \in Callers :
          call'[d].pc # "idle" => row'[call'[d].res] = "live" \/ call'[d].res \in gone'
    BY <1>1, <1>3, <2>1 DEF IInv, Confined
  <2> QED BY <1>1, <2>2, <2>3 DEF Confined
<1> QED BY <1>6, <1>7, <1>8

LEMMA WriteTableStep ==
  ASSUME IInv, NEW c \in Callers, WriteTable(c) PROVE Coupled' /\ Settled' /\ Confined'
<1> DEFINE r == call[c].res
<1>1. r \in Resources /\ phase = "up" /\ c \in Writing(r) /\ UNCHANGED <<phase, cache, clean, row, gone>>
  BY DEF IInv, TypeOK, WriteTable, Writing
<1>2. /\ table'[r] = call[c].val
      /\ stored'[r] = IF clean[r] THEN call[c].val ELSE Unknown
      /\ \A s \in Resources : s # r => table'[s] = table[s] /\ stored'[s] = stored[s]
  BY <1>1 DEF IInv, TypeOK, WriteTable
<1>3. call'[c].pc = "idle" /\ \A d \in Callers : d # c => call'[d] = call[d]
  BY DEF IInv, TypeOK, WriteTable, Idle
<1> HIDE DEF r
<1>4. \A s \in Resources : Writing(s)' = Writing(s) \ {c}
  BY <1>3, LeavesWrite
<1>5. \A s \in Resources : s # r => c \notin Writing(s)
  BY DEF Writing, r
<1>6. \A s \in Resources : \A d \in Writing(s)' : call'[d] = call[d] /\ d \in Writing(s)
  BY <1>3, <1>4 DEF Writing
\* On a clean resource c was alone, and the cache holds what c wrote.
<1>7. ASSUME NEW s \in Resources, s = r, clean[s] = TRUE
      PROVE  Writing(s)' = {} /\ cache[s] = table'[s]
  <2>1. c \in Writing(s)
    BY <1>1, <1>7
  <2>2. \A d \in Writing(s) : d = c
    BY <1>1, <1>7, <2>1 DEF IInv, Coupled
  <2>3. cache[s] = call[c].val
    BY <1>1, <1>7, <2>1 DEF IInv, Coupled
  <2>4. Writing(s)' = {}
    BY <1>4, <2>2
  <2> QED BY <1>2, <1>7, <2>3, <2>4
<1>8. Coupled'
  <2> SUFFICES ASSUME NEW s \in Resources, clean'[s]
               PROVE  /\ \A x, d \in Writing(s)' : x = d
                      /\ \A x \in Writing(s)' : cache'[s] = call'[x].val
                      /\ Writing(s)' = {} => cache'[s] = table'[s]
    BY DEF Coupled
  <2>1. CASE s = r
    <3>1. clean[s] = TRUE
      BY <1>1, <2>1 DEF IInv, TypeOK
    <3> QED BY <1>1, <1>7, <2>1, <3>1
  <2>2. CASE s # r
    <3>1. Writing(s)' = Writing(s)
      BY <1>4, <1>5, <2>2
    <3> QED BY <1>1, <1>2, <1>6, <2>2, <3>1 DEF IInv, Coupled
  <2> QED BY <2>1, <2>2
<1>9. Settled'
  <2> SUFFICES ASSUME NEW s \in Resources, stored'[s] # Unknown
               PROVE  /\ table'[s] = stored'[s]
                      /\ phase' = "up" => cache'[s] = stored'[s] /\ Writing(s)' = {}
    BY DEF Settled
  <2>1. CASE s = r
    <3>1. clean[s] = TRUE
      BY <1>1, <1>2, <2>1 DEF IInv, TypeOK
    <3> QED BY <1>1, <1>2, <1>7, <2>1, <3>1
  <2>2. CASE s # r
    BY <1>1, <1>2, <1>4, <2>2 DEF IInv, Settled
  <2> QED BY <2>1, <2>2
<1>10. Confined'
  BY <1>1, <1>3 DEF IInv, Confined
<1> QED BY <1>8, <1>9, <1>10

LEMMA RefuseTableStep ==
  ASSUME IInv, NEW c \in Callers, RefuseTable(c) PROVE Coupled' /\ Settled' /\ Confined'
<1> DEFINE r == call[c].res
<1>1. r \in Resources /\ phase = "up" /\ UNCHANGED <<phase, cache, table, row, stored, gone>>
  BY DEF IInv, TypeOK, RefuseTable
<1>2. ~clean'[r] /\ \A s \in Resources : s # r => clean'[s] = clean[s]
  BY <1>1 DEF IInv, TypeOK, RefuseTable
<1>3. call'[c].pc = "idle" /\ \A d \in Callers : d # c => call'[d] = call[d]
  BY DEF IInv, TypeOK, RefuseTable, Idle
<1> HIDE DEF r
<1>4. \A s \in Resources : Writing(s)' = Writing(s) \ {c}
  BY <1>3, LeavesWrite
<1>5. \A s \in Resources : s # r => Writing(s)' = Writing(s)
  BY <1>4 DEF Writing, r
<1>6. \A s \in Resources : \A d \in Writing(s)' : call'[d] = call[d]
  BY <1>3, <1>4 DEF Writing
<1>7. Coupled'
  BY <1>1, <1>2, <1>5, <1>6 DEF IInv, Coupled
<1>8. Settled'
  BY <1>1, <1>4 DEF IInv, Settled
<1>9. Confined'
  BY <1>1, <1>3 DEF IInv, Confined
<1> QED BY <1>7, <1>8, <1>9

\* Request, Pick and Report: only c's call changes, towards a live resource or
\* the one it already had.
LEMMA CallStep ==
  ASSUME IInv, NEW c \in Callers,
         \/ \E r \in Resources, enabled \in BOOLEAN : Request(c, r, enabled)
         \/ \E r \in Resources : Pick(c, r)
         \/ \E v \in Value : Report(c, v)
  PROVE  Coupled' /\ Settled' /\ Confined'
<1>1. UNCHANGED <<phase, row, cache, table, toClean, clean, stored, gone>>
  BY DEF Request, Pick, Report, history
<1>2. \A d \in Callers : d # c => call'[d] = call[d]
  BY DEF IInv, TypeOK, Request, Pick, Report
<1>3. /\ call[c].pc # "table" /\ call'[c].pc # "table"
      /\ row[call'[c].res] = "live" \/ (call[c].pc = "relay" /\ call'[c].res = call[c].res)
  <2>1. ASSUME NEW r \in Resources, NEW e \in BOOLEAN, Request(c, r, e) PROVE <1>3
    <3>1. call[c].pc = "idle" /\ row[r] = "live" /\ call'[c].pc = "cache" /\ call'[c].res = r
      BY <2>1 DEF IInv, TypeOK, Request
    <3> QED BY <3>1
  <2>2. ASSUME NEW r \in Resources, Pick(c, r) PROVE <1>3
    <3>1. call[c].pc = "idle" /\ row[r] = "live" /\ call'[c].pc = "relay" /\ call'[c].res = r
      BY <2>2 DEF IInv, TypeOK, Pick
    <3> QED BY <3>1
  <2>3. ASSUME NEW v \in Value, Report(c, v) PROVE <1>3
    <3>1. call'[c] = [call[c] EXCEPT !.pc = "cache", !.val = v] /\ call[c].pc = "relay"
      BY <2>3 DEF IInv, TypeOK, Report
    <3>2. call[c] \in [pc : {"idle", "relay", "cache", "table"},
                       res : Resources \cup {NoResource}, val : Value]
      BY DEF IInv, TypeOK
    <3>3. call'[c].pc = "cache" /\ call'[c].res = call[c].res
      BY <3>1, <3>2
    <3> QED BY <3>1, <3>3
  <2> QED BY <2>1, <2>2, <2>3
<1>5. Coupled' /\ Settled'
  BY <1>1, <1>2, <1>3, OutsideStep DEF IInv
<1>6. Confined'
  BY <1>1, <1>2, <1>3 DEF IInv, Confined
<1> QED BY <1>5, <1>6

LEMMA BootStep ==
  ASSUME IInv, Boot \/ Crash PROVE Coupled' /\ Settled' /\ Confined'
<1>1. CASE BeginBoot
  BY <1>1 DEF IInv, TypeOK, BeginBoot, history, Coupled, Settled, Confined
<1>2. ASSUME NEW r \in Resources, CleanRecord(r) PROVE Coupled' /\ Settled' /\ Confined'
  <2>1. /\ phase = "cleaning" /\ table'[r] = None /\ stored'[r] = Unknown
        /\ toClean' = toClean \ {r} /\ UNCHANGED <<phase, row, cache, call>>
        /\ \A s \in Resources : s # r => table'[s] = table[s] /\ stored'[s] = stored[s]
    BY <1>2 DEF IInv, TypeOK, CleanRecord
  <2> QED BY <2>1 DEF IInv, TypeOK, Coupled, Settled, Confined
<1>3. CASE LoadCache
  <2>1. /\ phase = "cleaning" /\ phase' = "up" /\ toClean = {} /\ cache' = table
        /\ UNCHANGED <<row, table, call, stored>>
    BY <1>3 DEF LoadCache
  <2>2. \A c \in Callers : call[c].pc = "idle"
    BY <2>1 DEF IInv, TypeOK
  <2>3. \A r \in Resources : Writing(r)' = {}
    BY <2>1, <2>2 DEF Writing
  <2> QED BY <2>1, <2>2, <2>3 DEF IInv, Coupled, Settled, Confined
<1>4. CASE Crash
  BY <1>4 DEF IInv, TypeOK, Crash, history, Idle, Coupled, Settled, Confined
<1> QED BY <1>1, <1>2, <1>3, <1>4 DEF Boot

LEMMA RowStep ==
  ASSUME IInv, NEW r \in Resources, CreateRow(r) \/ DeleteRow(r)
  PROVE  Coupled' /\ Settled' /\ Confined'
<1>1. UNCHANGED <<phase, cache, table, call, clean, stored>> /\ phase = "up"
  BY DEF CreateRow, DeleteRow, history
<1>2. \A s \in Resources : row[s] = "live" \/ s \in gone => row'[s] = "live" \/ s \in gone'
  BY DEF IInv, TypeOK, CreateRow, DeleteRow, history
<1>3. \A c \in Callers : call[c].pc # "idle" => call[c].res \in Resources
  BY DEF IInv, TypeOK
<1>4. Coupled' /\ Settled'
  BY <1>1, Untouched DEF IInv
<1>5. Confined'
  BY <1>1, <1>2, <1>3 DEF IInv, Confined
<1> QED BY <1>4, <1>5

LEMMA InvStep == IInv /\ [Next]_vars => IInv'
<1> SUFFICES ASSUME IInv, [Next]_vars PROVE IInv'
  OBVIOUS
<1>1. TypeOK'
  BY TypeStep DEF IInv
<1>2. CASE Boot \/ Crash
  BY <1>1, <1>2, BootStep DEF IInv
<1>3. ASSUME NEW c \in Callers, Write(c) PROVE IInv'
  BY <1>1, <1>3, CallStep, WriteCacheStep, WriteTableStep, RefuseTableStep DEF IInv, Write
<1>4. ASSUME NEW r \in Resources, CreateRow(r) \/ DeleteRow(r) PROVE IInv'
  BY <1>1, <1>4, RowStep DEF IInv
<1>5. CASE Aside
  <2>1. UNCHANGED <<phase, row, cache, table, call, toClean, clean, stored, gone>>
    BY <1>5 DEF Aside, SummaryTotal, SummaryCount, SummaryReply, vars, history
  <2>2. Coupled' /\ Settled'
    BY <2>1, Untouched DEF IInv
  <2>3. Confined'
    BY <2>1 DEF IInv, Confined
  <2> QED BY <1>1, <2>2, <2>3 DEF IInv
<1> QED BY <1>2, <1>3, <1>4, <1>5 DEF Next, Aside

-----------------------------------------------------------------------------
(* The summary. *)

\* Between its two reads the total still counts the live resources, unless one was
\* deleted or appeared.
Honest ==
  /\ phase # "up" => summary.pc = "idle"
  /\ summary.pc = "count" /\ gone = {} /\ ~summary.raced => summary.total = Cardinality(Live)
  /\ NegativeNeedsDeletion

\* Every cached status is then one of a live resource.
LEMMA CountedAreLive ==
  ASSUME IInv, phase = "up", gone = {}
  PROVE  Counted \in Nat /\ Cardinality(Live) \in Nat /\ Counted <= Cardinality(Live)
<1> DEFINE known == {r \in Resources : cache[r] \in Status}
<1>1. IsFiniteSet(Live)
  BY FS_Subset, HealthStorageAssumption DEF Live
<1>2. known \subseteq Live
  BY DEF IInv, Confined, Live, Status, None
<1>3. IsFiniteSet(known) /\ Cardinality(known) <= Cardinality(Live)
  BY <1>1, <1>2, FS_Subset
<1> QED
  BY <1>1, <1>3, FS_CardinalityType DEF Counted

LEMMA HonestStep ==
  ASSUME IInv, Honest, [Next]_vars
  PROVE  Honest'
<1> USE DEF Honest, NegativeNeedsDeletion
<1>0. summary \in [pc : {"idle", "count", "done"}, total : Nat, unknown : Int, raced : BOOLEAN]
  BY DEF IInv, TypeOK
<1>1. CASE Boot \/ Crash
  <2>1. summary' = NoSummary \/ (summary' = summary /\ phase # "up")
    BY <1>1 DEF Boot, BeginBoot, CleanRecord, LoadCache, Crash
  <2> QED
    BY <2>1 DEF NoSummary
<1>2. ASSUME NEW c \in Callers, Write(c) PROVE Honest'
  <2>1. UNCHANGED <<phase, row, summary, gone>>
    BY <1>2 DEF Write, Request, Pick, Report, WriteCache, WriteTable, RefuseTable, history
  <2> QED
    BY <2>1 DEF Live
<1>3. ASSUME NEW r \in Resources, CreateRow(r) PROVE Honest'
  <2>1. /\ summary' = [summary EXCEPT !.raced = @ \/ summary.pc = "count"]
        /\ UNCHANGED <<phase, gone>>
    BY <1>3 DEF CreateRow, history
  <2>2. /\ summary'.pc = summary.pc /\ summary'.unknown = summary.unknown
        /\ summary.pc = "count" \/ summary.raced => summary'.raced
    BY <1>0, <2>1
  <2> QED
    BY <2>1, <2>2
<1>4. ASSUME NEW r \in Resources, DeleteRow(r) PROVE Honest'
  <2>1. gone' # {} /\ UNCHANGED <<phase, summary>>
    BY <1>4 DEF DeleteRow
  <2> QED
    BY <2>1
<1>5. CASE SummaryTotal
  <2>1. /\ phase = "up" /\ UNCHANGED <<phase, row, gone>>
        /\ summary'.pc = "count" /\ summary'.total = Cardinality(Live)
    BY <1>5 DEF SummaryTotal, history
  <2> QED
    BY <2>1 DEF Live
<1>6. CASE SummaryCount
  <2>1. /\ summary.pc = "count" /\ phase = "up" /\ UNCHANGED <<phase, gone>>
        /\ summary' = [summary EXCEPT !.pc = "done", !.unknown = summary.total - Counted]
    BY <1>6 DEF SummaryCount, history
  <2>2. /\ summary'.pc = "done" /\ summary'.raced = summary.raced
        /\ summary'.unknown = summary.total - Counted
    BY <1>0, <2>1
  <2>3. gone = {} /\ ~summary.raced => summary'.unknown >= 0
    BY <2>1, <2>2, CountedAreLive
  <2>4. gone = {} /\ ~summary.raced => ~(summary'.unknown < 0)
    <3> SUFFICES ASSUME gone = {}, ~summary.raced PROVE ~(summary'.unknown < 0)
      OBVIOUS
    <3>1. summary.total - Counted \in Int
      BY <1>0, <2>1, CountedAreLive
    <3> QED
      BY <2>2, <2>3, <3>1
  <2> QED
    BY <2>1, <2>2, <2>4
<1>7. CASE SummaryReply \/ UNCHANGED vars
  <2>1. /\ summary' = NoSummary \/ summary' = summary
        /\ UNCHANGED <<phase, row, gone>>
    BY <1>7 DEF SummaryReply, vars, history
  <2> QED
    BY <2>1 DEF NoSummary, Live
<1> QED
  BY <1>1, <1>2, <1>3, <1>4, <1>5, <1>6, <1>7 DEF Next

-----------------------------------------------------------------------------
(* The lists. *)

LEMMA Least ==
  ASSUME NEW T \in SUBSET Nat, T # {} PROVE \E x \in T : \A y \in T : x <= y
<1>1. PICK x \in T : \A y \in T : ~(<<y, x>> \in OpToRel(<, Nat))
  BY NatLessThanWellFounded, WFMin
<1>2. \A y \in T : ~(y < x)
  BY <1>1 DEF OpToRel
<1> QED
  BY <1>2

LEMMA Grows ==
  ASSUME NEW p \in Nat, NEW q \in Nat, NEW size \in Nat, p <= q
  PROVE  p * size <= q * size
<1>1. PICK d \in Nat : q = p + d
  <2>1. q - p \in Nat /\ q = p + (q - p)
    OBVIOUS
  <2> QED
    BY <2>1
<1>2. (p + d) * size = p * size + d * size
  OBVIOUS
<1>3. p * size \in Nat /\ d * size \in Nat
  OBVIOUS
<1>4. \A a, b, c \in Nat : c = a + b => a <= c
  OBVIOUS
<1> QED
  BY <1>1, <1>2, <1>3, <1>4

\* Every place is on a page, and later pages have later places.
LEMMA PlaceHasPage ==
  ASSUME NEW size \in Nat, size >= 1, NEW i \in Nat, i >= 1
  PROVE  \E p \in 1..i : (p - 1) * size < i /\ i <= p * size
<1> DEFINE T == {p \in Nat : i <= p * size}
<1>1. i \in T
  <2>1. \A n \in Nat : 1 * n = n
    OBVIOUS
  <2>2. 1 * i <= size * i /\ size * i = i * size
    BY Grows
  <2> QED
    BY <2>1, <2>2
<1>2. PICK p \in T : \A q \in T : p <= q
  <2>1. T \in SUBSET Nat
    OBVIOUS
  <2> HIDE DEF T
  <2> QED
    BY <1>1, <2>1, Least
<1>3. p \in Nat /\ p <= i /\ i <= p * size
  BY <1>1, <1>2
<1>4. p # 0
  <2>1. 0 * size = 0
    OBVIOUS
  <2> QED
    BY <1>3, <2>1
<1>5. p - 1 \in Nat /\ p - 1 \notin T
  <2>1. p - 1 \in Nat /\ ~(p <= p - 1)
    BY <1>3, <1>4
  <2> HIDE DEF T
  <2> QED
    BY <1>2, <2>1
<1>6. (p - 1) * size < i
  <2>1. (p - 1) * size \in Nat
    BY <1>5
  <2> QED
    BY <1>5, <2>1
<1> QED
  BY <1>3, <1>4, <1>6

LEMMA PagesFollow ==
  ASSUME NEW size \in Nat, NEW p \in Nat, NEW q \in Nat, p >= 1, p < q, NEW i \in Nat, NEW j \in Nat,
         i <= p * size, (q - 1) * size < j
  PROVE  i < j
<1>1. q - 1 \in Nat /\ p <= q - 1
  OBVIOUS
<1>2. p * size <= (q - 1) * size
  BY <1>1, Grows
<1>3. p * size \in Nat /\ (q - 1) * size \in Nat
  BY <1>1
<1> QED
  BY <1>2, <1>3

\* The list as the sort leaves it: each record at one place.
LEMMA ListIs ==
  ASSUME NEW S, IsFiniteSet(S), NEW records \in SetToSeqs(S)
  PROVE  /\ Len(records) = Cardinality(S) /\ Cardinality(S) \in Nat
         /\ records \in Bijection(1..Cardinality(S), S)
<1> DEFINE D == 1..Cardinality(S)
<1>1. Cardinality(S) \in Nat
  BY FS_CardinalityType
<1>2. records \in [D -> S] /\ \A i, j \in D : i # j => records[i] # records[j]
  BY DEF SetToSeqs
<1>3. Len(records) = Cardinality(S)
  BY <1>1, <1>2
<1>4. records \in Injection(D, S)
  BY <1>2 DEF Injection, IsInjective
<1>5. Cardinality(D) = Cardinality(S)
  BY <1>1, FS_Interval
<1>6. records \in Surjection(D, S)
  <2> HIDE DEF D
  <2> QED
    BY <1>4, <1>5, FS_Injection
<1> QED
  BY <1>1, <1>3, <1>4, <1>6 DEF Bijection

LEMMA ListAgrees == ASSUME IInv PROVE ListsAgree
<1> SUFFICES ASSUME phase = "up", NEW records \in SetToSeqs(Records),
                    NEW size \in 1..Cardinality(Resources)
             PROVE  LET pages == 1..(Cardinality(Resources) + 1)
                        listed == UNION {ItemsOf(records, p, size) : p \in pages}
                        shown == {records[i] : i \in listed}
                    IN  /\ shown = Records \cap Live
                        /\ \A p, q \in pages :
                             \A i \in ItemsOf(records, p, size), j \in ItemsOf(records, q, size) :
                                p < q => i < j
                        /\ Len(records) - Cardinality(listed) <= Cardinality(gone)
                        /\ Issues = {r \in shown : cache[r] = "Unavailable"}
                        /\ gone = {} => Cardinality(Live) - Counted = Cardinality(Live \ shown)
  BY DEF ListsAgree
<1> DEFINE R == Records
           N == Cardinality(Resources)
           n == Cardinality(R)
           D == 1..n
           pages == 1..(N + 1)
           listed == UNION {ItemsOf(records, p, size) : p \in pages}
           shown == {records[i] : i \in listed}
<1>1. /\ IsFiniteSet(Resources) /\ N \in Nat /\ R \subseteq Resources
      /\ row \in [Resources -> {"fresh", "live", "deleted"}] /\ cache \in [Resources -> Value]
      /\ gone \subseteq Resources
      /\ \A r \in R : row[r] = "live" \/ r \in gone
  BY HealthStorageAssumption, FS_CardinalityType DEF IInv, TypeOK, Records, Confined
<1>2. IsFiniteSet(R) /\ n \in Nat /\ n <= N /\ IsFiniteSet(gone) /\ IsFiniteSet(Live)
  BY <1>1, FS_Subset, FS_CardinalityType DEF Live
<1>3. /\ Len(records) = n
      /\ records \in Bijection(D, R)
  <2>1. IsFiniteSet(Records)
    BY <1>2
  <2>2. /\ Len(records) = Cardinality(Records)
        /\ records \in Bijection(1..Cardinality(Records), Records)
    BY <2>1, ListIs
  <2> QED
    BY <2>2
<1>4. /\ records \in [D -> R]
      /\ \A i, j \in D : records[i] = records[j] => i = j
      /\ \A r \in R : \E i \in D : records[i] = r
  BY <1>3 DEF Bijection, Injection, IsInjective, Surjection
<1> HIDE DEF R, N, n
<1>5. \A p \in pages : \A i : i \in ItemsOf(records, p, size) <=>
          i \in D /\ (p - 1) * size < i /\ i <= p * size /\ row[records[i]] = "live"
  BY <1>3 DEF ItemsOf, PageOf
<1>6. listed = {i \in D : row[records[i]] = "live"}
  <2>1. ASSUME NEW i \in D PROVE \E p \in pages : (p - 1) * size < i /\ i <= p * size
    <3>1. i \in Nat /\ i >= 1 /\ size \in Nat /\ size >= 1
      BY <1>1, <1>2
    <3>2. PICK p \in 1..i : (p - 1) * size < i /\ i <= p * size
      BY <3>1, PlaceHasPage
    <3>3. p \in pages
      BY <1>1, <1>2, <3>1
    <3> QED
      BY <3>2, <3>3
  <2> HIDE DEF pages, D
  <2> QED
    BY <1>5, <2>1
<1>7. shown = R \cap Live
  BY <1>1, <1>4, <1>6 DEF Live
<1>8. ASSUME NEW p \in pages, NEW q \in pages, NEW i \in ItemsOf(records, p, size),
             NEW j \in ItemsOf(records, q, size), p < q
      PROVE  i < j
  <2>1. i \in D /\ i <= p * size /\ j \in D /\ (q - 1) * size < j
    BY <1>5
  <2>2. p \in Nat /\ q \in Nat /\ p >= 1 /\ size \in Nat /\ i \in Nat /\ j \in Nat
    BY <1>1, <1>2, <2>1
  <2> QED
    BY <1>8, <2>1, <2>2, PagesFollow
<1>9. Len(records) - Cardinality(listed) <= Cardinality(gone)
  <2> DEFINE Off == D \ listed
  <2>1. IsFiniteSet(D) /\ Cardinality(D) = n
    BY <1>2, FS_Interval
  <2>2. listed \subseteq D
    BY <1>6
  <2>3. Off = {i \in D : row[records[i]] # "live"}
    BY <1>6
  <2> HIDE DEF D, listed
  <2>4. D \cap listed = listed /\ IsFiniteSet(listed)
    BY <2>1, <2>2, FS_Subset
  <2>5. Cardinality(Off) = n - Cardinality(listed)
    BY <2>1, <2>4, FS_Difference
  <2> DEFINE f == [i \in Off |-> records[i]]
  <2>6. \A i \in Off : i \in D /\ records[i] \in gone
    BY <1>1, <1>4, <2>3
  <2>7. f \in Injection(Off, gone)
    <3>1. f \in [Off -> gone]
      BY <2>6
    <3>2. \A i, j \in Off : f[i] = f[j] => i = j
      BY <1>4, <2>6
    <3> HIDE DEF f, Off
    <3> QED
      BY <3>1, <3>2 DEF Injection, IsInjective
  <2>8. Cardinality(Off) <= Cardinality(gone)
    <3> HIDE DEF f, Off
    <3> QED
      BY <1>2, <2>7, FS_Injection
  <2> HIDE DEF Off
  <2> QED
    BY <1>3, <2>5, <2>8
<1>10. Issues = {r \in shown : cache[r] = "Unavailable"}
  <2>1. \A r \in Resources : cache[r] = "Unavailable" => r \in R
    BY DEF R, Records, None
  <2> HIDE DEF shown
  <2> QED
    BY <1>1, <1>7, <2>1 DEF Issues, WithStatus, Live
<1>11. ASSUME gone = {} PROVE Cardinality(Live) - Counted = Cardinality(Live \ shown)
  <2>1. R \subseteq Live
    BY <1>1, <1>11 DEF Live
  <2>2. {r \in Resources : cache[r] \in Status} = R
    BY <1>1 DEF R, Records, Value, Status, None
  <2>3. shown = R
    BY <1>7, <2>1
  <2> HIDE DEF shown
  <2>4. Cardinality(Live \ R) = Cardinality(Live) - Cardinality(Live \cap R) /\ Live \cap R = R
    BY <1>2, <2>1, FS_Difference
  <2>5. Cardinality(Live) \in Nat /\ Cardinality(R) \in Nat
    BY <1>2, FS_CardinalityType DEF n
  <2> QED
    BY <2>2, <2>3, <2>4, <2>5 DEF Counted
<1> HIDE DEF shown, listed
<1> QED
  BY <1>7, <1>8, <1>9, <1>10, <1>11 DEF shown, listed, R, N

-----------------------------------------------------------------------------
(* Theorems. *)

\* Every variable keeps its type, and between starts nothing is cached and
\* nobody is served.
THEOREM TypeCorrect == Spec => []TypeOK
<1>1. IInv => TypeOK
  BY DEF IInv
<1> QED BY <1>1, InitHolds, InvStep, PTL DEF Spec

\* With any number of writers, cache and table differ about a resource nobody
\* is writing only after a refused write or overlapping writes of it.
THEOREM CacheAgrees == Spec => []CacheMatchesTable
<1>1. IInv => CacheMatchesTable
  BY DEF IInv, Coupled, CacheMatchesTable
<1> QED BY <1>1, InitHolds, InvStep, PTL DEF Spec

\* A write that finished alone is kept by the table and shown to readers until
\* the next write of that resource, over any number of crashes and starts.
THEOREM FinishedWriteIsKept == Spec => []FinishedWriteHolds
<1>1. IInv => FinishedWriteHolds
  BY DEF IInv, Settled, FinishedWriteHolds
<1> QED BY <1>1, InitHolds, InvStep, PTL DEF Spec

\* The records of resources deleted in an earlier run never reach the cache.
THEOREM OrphansAreOfThisRun == Spec => []OrphansAreRecent
<1>1. IInv => OrphansAreRecent
  BY DEF IInv, Confined, OrphansAreRecent
<1> QED BY <1>1, InitHolds, InvStep, PTL DEF Spec

\* Without a deletion in this run or a resource that appeared between its two
\* reads, a summary never reports a negative number of unknown resources.
THEOREM SummaryIsHonest == Spec => []NegativeNeedsDeletion
<1>1. Init => IInv /\ Honest
  <2>1. Init => Honest
    BY DEF Init, Honest, NoSummary, NegativeNeedsDeletion
  <2> QED
    BY <2>1, InitHolds
<1>2. IInv /\ Honest /\ [Next]_vars => (IInv /\ Honest)'
  BY InvStep, HonestStep
<1>3. IInv /\ Honest => NegativeNeedsDeletion
  BY DEF Honest
<1> QED
  BY <1>1, <1>2, <1>3, PTL DEF Spec

\* The pages of a list (service_query.go), whatever its order and the size of a
\* page, show each existing resource with a record once and in order, and miss of
\* the total no more than was deleted in this run.
THEOREM ListsAreWhole == Spec => []ListsAgree
<1>1. IInv => ListsAgree
  BY ListAgrees
<1> QED
  BY <1>1, InitHolds, InvStep, PTL DEF Spec
=============================================================================
