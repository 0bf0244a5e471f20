---------------------------- MODULE HealthQueries ----------------------------
(***************************************************************************)
(* The lists of app/health/service_query.go: the health lists of           *)
(* platforms, keys and models, page by page, and the list of issues.  Each *)
(* takes a snapshot of the cached records, sorts it by the time of the     *)
(* last check and then looks up the rows its records belong to; a record   *)
(* without a row is dropped, after the page was cut.                       *)
(*                                                                         *)
(* Times are abstracted: the records may stand in any order, as they do    *)
(* where times are equal, since the map gives them in any order and the    *)
(* sort is not stable.  A request here meets no write between its two      *)
(* reads.  Page numbers at which (page - 1) * pageSize overflows are left  *)
(* out.  A row has a name: the issues drop records whose resource has no    *)
(* name, which are those without a row.                                    *)
(***************************************************************************)
EXTENDS HealthStorage, SequencesExt

\* GetByResourceType, GetByStatus.
Records == {r \in Resources : cache[r] # None}
WithStatus(s) == {r \in Resources : cache[r] = s}

\* Seeded bug: pages are counted from zero.
PageOf_fromZero(records, page, size) ==
  {i \in 1..Len(records) : page * size < i /\ i <= (page + 1) * size}

\* The places of a page in the list, which the slice cuts to those there are;
\* pages begin at one.
PageOf(records, page, size) ==
  {i \in 1..Len(records) : (page - 1) * size < i /\ i <= page * size}

\* Items of a page, in the order of the list.  Total counts the records, with and
\* without a row.
ItemsOf(records, page, size) ==
  {i \in PageOf(records, page, size) : row[records[i]] = "live"}

Issues == {r \in WithStatus("Unavailable") : row[r] = "live"}

-----------------------------------------------------------------------------

\* Whoever walks the pages of a list meets every existing resource with a
\* record, and only these, once and in the order of the list, although resources
\* whose row is gone are cut out of the pages.
\* The total promises no more items than were deleted in this run, the issues
\* are what the list shows as unavailable, and while nothing was deleted the
\* unknown of the summary are those the list does not show.
ListsAgree ==
  phase = "up" =>
    \A records \in SetToSeqs(Records), size \in 1..Cardinality(Resources) :
      LET pages == 1..(Cardinality(Resources) + 1)
          listed == UNION {ItemsOf(records, p, size) : p \in pages}
          shown == {records[i] : i \in listed}
      IN  /\ shown = Records \cap Live
          /\ \A p, q \in pages :
               \A i \in ItemsOf(records, p, size), j \in ItemsOf(records, q, size) :
                  p < q => i < j
          /\ Len(records) - Cardinality(listed) <= Cardinality(gone)
          /\ Issues = {r \in shown : cache[r] = "Unavailable"}
          /\ gone = {} => Cardinality(Live) - Counted = Cardinality(Live \ shown)
=============================================================================
