----------------------------- MODULE Statistics -----------------------------
(***************************************************************************)
(* The statistics service (internal/app/stats): what it answers from the   *)
(* request_logs table while requests go on being logged.  The table only   *)
(* grows, so what a statement read is the number of logs there were when   *)
(* it ran: an operation is the statements it has executed, each with that  *)
(* number, and its answer a function of the prefixes they saw.             *)
(*                                                                         *)
(* Platforms and models stand for their names.  A rank is the descending   *)
(* sequence of its figures; which of two equal entries comes first (the    *)
(* database, or the order of names) is left out.  Ratios are left as the   *)
(* two numbers they divide.                                                *)
(***************************************************************************)
EXTENDS Integers, Sequences, FiniteSets, SequencesExt, TLC

CONSTANTS
  Rows,        \* what a request can leave in the log, apart from its time
  Null,        \* a NULL column
  Unknown,     \* the label of logs without an original model name
  NoName,      \* that missing name
  NoModel,     \* model-status without the model_name parameter
  Models,      \* the values of that parameter
  Hour,        \* ticks of an hour
  Ranges,      \* trendRangeConfigs: records of granularity and points
  Durations,   \* the durations asked of the deprecated operations
  DefaultDuration,  \* what they take for 0; the first-byte average's window
  TopN,        \* dashboardTopN and the Limit of the rank queries
  Few,         \* below this many values no percentile is cut: 10 in the code
  LowerPercent, UpperPercent,   \* percentileLower and percentileUpper
  PageSize, Pages,
  MaxLogs, MaxTime,
  MaxAge       \* how long after its timestamp a request is logged, at most

ASSUME HourAssumption == Hour \in Nat \ {0} /\ MaxTime \in Nat /\ MaxLogs \in Nat
ASSUME RangesAssumption ==
  \A r \in Ranges : /\ r.granularity \in {Hour * k : k \in 1..24}
                    /\ r.points \in Nat \ {0}
ASSUME RowsAssumption ==
  \A row \in Rows :
    /\ row.ok \in BOOLEAN
    /\ {row.prompt, row.completion, row.total, row.firstByte} \subseteq Int \cup {Null}
ASSUME NullAssumption == Null \notin Int
ASSUME LimitsAssumption ==
  /\ {TopN, Few, LowerPercent, UpperPercent, Pages, MaxAge} \subseteq Nat
  /\ PageSize \in Nat \ {0}
ASSUME NamesAssumption == NoName \notin Models

VARIABLES
  now,
  logs,    \* request_logs, in the order of insertion
  op,      \* the operation a client has asked for and its argument
  at,      \* time.Now() when it began
  seen,    \* per executed statement: the length of logs
  status   \* 0 while it runs, then the HTTP status

vars == <<now, logs, op, at, seen, status>>

NoOp == [name |-> "none"]

Dashboards == [name : {"dashboard"}, range : Ranges]

Statuses == [name : {"status"}, range : Ranges, model : Models \union {NoModel}]

Lists == [name : {"list"}, page : 1..Pages, success : {"any", "true", "false"}]

Deprecated == [name : {"overview", "callRank", "usageRank"}, duration : Durations]

----------------------------------------------------------------------------
(* Selections from the first n logs.                                       *)

Count(S) == Cardinality(S)

SumOf(S, figure) == FoldSet(LAMBDA i, sum : sum + figure[i], 0, S)

(* ptrIntToInt64, and COALESCE(SUM(..), 0) over rows *)
Value(x) == IF x = Null THEN 0 ELSE x

Since(n, duration) == {i \in 1..n : logs[i].time >= at - duration}

Succeeded(S) == {i \in S : logs[i].ok}

(* Seeded bug: the window ends at the last full hour. *)
CeilToHour_floor(t) == (t \div Hour) * Hour

CeilToHour(t) == IF t % Hour = 0 THEN t ELSE (t \div Hour + 1) * Hour

WindowEnd == CeilToHour(at)

WindowStart(range) == WindowEnd - range.granularity * range.points

Window(n, range) ==
  {i \in 1..n : /\ logs[i].time >= WindowStart(range)
                /\ logs[i].time < WindowEnd}

(* The trend point of a log. *)
Point(i, range) == (logs[i].time - WindowStart(range)) \div range.granularity

(* The n largest figures, largest first. *)
Top(figures, n) ==
  LET all   == Count(DOMAIN figures)
      order == CHOOSE o \in Bijection(1..all, DOMAIN figures) :
                 \A i, j \in 1..all : i < j => figures[o[i]] >= figures[o[j]]
  IN  [k \in 1..(IF all < n THEN all ELSE n) |-> figures[order[k]]]

----------------------------------------------------------------------------
(* The average of the first-byte times: the smallest and the largest are   *)
(* left out when there are enough of them.                                 *)

Sorted(values) == SortSeq(values, <)

Kept(values) ==
  IF Len(values) < Few THEN values
  ELSE LET lower == (Len(values) * LowerPercent) \div 100
           upper == (Len(values) * UpperPercent) \div 100
       IN  SubSeq(Sorted(values), lower + 1, IF lower >= upper THEN lower + 1 ELSE upper)

FirstBytes(S) ==
  LET valid == {i \in S : logs[i].firstByte # Null /\ logs[i].firstByte > 0}
  IN  [k \in 1..Cardinality(valid) |-> logs[SetToSeq(valid)[k]].firstByte]

----------------------------------------------------------------------------
(* The dashboard, from the rows of one statement.                          *)

Label == [i \in DOMAIN logs |-> IF logs[i].model = NoName THEN Unknown ELSE logs[i].model]

(* A log without a total counts the sum of its parts, if one is positive. *)
Tokens ==
  [i \in DOMAIN logs |->
     LET prompt     == Value(logs[i].prompt)
         completion == Value(logs[i].completion)
     IN  IF logs[i].total # Null THEN logs[i].total
         ELSE IF prompt > 0 \/ completion > 0 THEN prompt + completion
         ELSE 0]

HasUsage(i) == \/ logs[i].total # Null
               \/ logs[i].prompt # Null
               \/ logs[i].completion # Null

(* What a log is counted under, and what it counts for. *)
PlatformOf == [i \in DOMAIN logs |-> logs[i].platform]
ModelOf == [i \in DOMAIN logs |-> logs[i].model]
One == [i \in DOMAIN logs |-> 1]

PerKey(S, key, figure) ==
  [k \in {key[i] : i \in S} |-> SumOf({i \in S : key[i] = k}, figure)]

(* build..RankItems: the requests, and the tokens, of the first TopN. *)
CallItems(S, key) == Top(PerKey(S, key, One), TopN)

UsageItems(S, key) == Top(PerKey(S, key, Tokens), TopN)

Dashboard(n, range) ==
  LET rows   == Window(n, range)
      used   == {i \in rows : HasUsage(i)}
      points == [p \in 0..(range.points - 1) |-> {i \in rows : Point(i, range) = p}]
  IN  [requests      |-> Count(rows),
       successes     |-> Count(Succeeded(rows)),
       firstBytes    |-> Kept(FirstBytes(rows)),
       prompt        |-> SumOf(rows, [i \in DOMAIN logs |-> Value(logs[i].prompt)]),
       completion    |-> SumOf(rows, [i \in DOMAIN logs |-> Value(logs[i].completion)]),
       tokens        |-> SumOf(rows, Tokens),
       models        |-> Count({Label[i] : i \in rows}),
       platforms     |-> Count({PlatformOf[i] : i \in rows}),
       requestsAt    |-> [p \in DOMAIN points |-> Count(points[p])],
       tokensAt      |-> [p \in DOMAIN points |-> SumOf(points[p], Tokens)],
       modelCalls    |-> CallItems(rows, Label),
       platformCalls |-> CallItems(rows, PlatformOf),
       modelUsage    |-> UsageItems(used, Label),
       platformUsage |-> UsageItems(used, PlatformOf),
       usage         |-> SumOf(used, Tokens)]

StatusOf(rows, key, range) ==
  [m \in {key[i] : i \in rows} |->
     LET own == {i \in rows : key[i] = m}
     IN  [requests   |-> Count(own),
          successes  |-> Count(Succeeded(own)),
          requestsAt |-> [p \in 0..(range.points - 1) |->
                            Count({i \in own : Point(i, range) = p})]]]

(* Seeded bug: logs without a model name are not put under the label. *)
ModelStatus_unlabelled(n, range, model) ==
  StatusOf({i \in Window(n, range) : model = NoModel \/ ModelOf[i] = model}, ModelOf, range)

(* The status of the models, or of the one the client names. *)
ModelStatus(n, range, model) ==
  StatusOf({i \in Window(n, range) : model = NoModel \/ ModelOf[i] = model}, Label, range)

(* The deprecated operations, which ask the database once per figure.  The *)
(* average's goroutine takes its own time and a window of its own; it      *)
(* starts within the tick in which the operation began.                    *)
RequestCounts(duration) ==
  LET total == Count(Since(seen["total"], duration))
  IN  [requests  |-> total,
       successes |-> IF total = 0 THEN 0
                     ELSE Count(Succeeded(Since(seen["success"], duration)))]

AverageFirstByteTime ==
  Kept(FirstBytes({i \in 1..seen["firstByte"] : logs[i].time >= at - DefaultDuration}))

TokenStats(duration) ==
  SumOf(Since(seen["tokens"], duration), [i \in DOMAIN logs |-> Value(logs[i].total)])

Overview(duration) ==
  RequestCounts(duration) @@ [firstBytes |-> AverageFirstByteTime,
                              tokens     |-> TokenStats(duration)]

CallRank(duration, key) ==
  [requests |-> Count(Since(seen["total"], duration)),
   items    |-> Top(PerKey(Since(seen["groups"], duration), key, One), TopN)]

(* Seeded bug: the entries are counted without the limit on time. *)
ModelCallRank_ever(duration) ==
  [requests |-> Count(Since(seen["total"], duration)),
   items    |-> Top(PerKey(1..seen["groups"], ModelOf, One), TopN)]

ModelCallRank(duration) == CallRank(duration, ModelOf)

PlatformCallRank(duration) == CallRank(duration, PlatformOf)

Total == [i \in DOMAIN logs |-> Value(logs[i].total)]

Metered(S) == {i \in S : logs[i].total # Null}

UsageRank(duration, key) ==
  [tokens |-> SumOf(Metered(Since(seen["total"], duration)), Total),
   items  |-> Top(PerKey(Metered(Since(seen["groups"], duration)), key, Total), TopN)]

ModelUsageRank(duration) == UsageRank(duration, ModelOf)

PlatformUsageRank(duration) == UsageRank(duration, PlatformOf)

(* ListRequestLogs: how many logs a page has, and the number of all that   *)
(* the answer states.  Of the filters, the one on success stands for all.  *)
Matching(n) ==
  {i \in 1..n : op.success = "any" \/ (op.success = "true") = logs[i].ok}

Offset == (op.page - 1) * PageSize

PageLength ==
  LET rest == Count(Matching(seen["page"])) - Offset
  IN  IF rest < 0 THEN 0 ELSE IF rest > PageSize THEN PageSize ELSE rest

(* Seeded bug: a full page is taken for the last one. *)
IsLastPage_full == 0 < PageLength /\ PageLength <= PageSize

(* FindByPage does not count when the page shows where the list ends. *)
IsLastPage == 0 < PageLength /\ PageLength < PageSize

ListedCount ==
  IF IsLastPage THEN PageLength + Offset ELSE Count(Matching(seen["count"]))

----------------------------------------------------------------------------
(* The statements of an operation.  Those of the overview run in three     *)
(* goroutines, the others one after the other.                             *)

Ran(s) == s \in DOMAIN seen

Statements ==
  CASE op.name = "dashboard" -> {"rows", "names"}
    [] op.name = "status"    -> {"rows"}
    [] op.name = "overview"  -> {"total", "success", "firstByte", "tokens"}
    [] op.name \in {"callRank", "usageRank"} -> {"total", "groups"}
    [] op.name = "list"      -> {"page", "count"}
    [] OTHER                 -> {}

Ready(s) ==
  /\ s \in Statements
  /\ ~Ran(s)
  /\ CASE s = "names"   -> Ran("rows")
       [] s = "success" -> Ran("total") /\ Count(Since(seen["total"], op.duration)) > 0
       [] s = "groups"  -> Ran("total")
       [] s = "count"   -> Ran("page") /\ ~IsLastPage
       [] OTHER         -> TRUE

Finished == status = 0 /\ op # NoOp /\ \A s \in Statements : ~Ready(s)

(* An answered operation, with its name. *)
Done(name) == op.name = name /\ Finished

Init ==
  /\ now = 0
  /\ logs = <<>>
  /\ op = NoOp
  /\ at = 0
  /\ seen = <<>>
  /\ status = 200

LogOf(row, time) ==
  [ok |-> row.ok, model |-> row.model, platform |-> row.platform,
   prompt |-> row.prompt, completion |-> row.completion, total |-> row.total,
   firstByte |-> row.firstByte, time |-> time]

(* portal logs a request when it is over, under the time it began. *)
CreateRequestLog ==
  /\ Len(logs) < MaxLogs
  /\ \E row \in Rows, age \in 0..MaxAge :
       /\ now - age >= 0
       /\ logs' = Append(logs, LogOf(row, now - age))
  /\ UNCHANGED <<now, op, at, seen, status>>

Tick ==
  /\ now < MaxTime
  /\ now' = now + 1
  /\ UNCHANGED <<logs, op, at, seen, status>>

(* A parameter that cannot be parsed is refused before anything is read. *)
Refuse ==
  /\ status # 0
  /\ status' = 400
  /\ UNCHANGED <<now, logs, op, at, seen>>

Begin(o) ==
  /\ status # 0
  /\ op' = o
  /\ at' = now
  /\ status' = 0
  /\ UNCHANGED <<now, logs, seen>>

GetDashboard == Refuse \/ \E o \in Dashboards : Begin(o)

GetModelStatus == Refuse \/ \E o \in Statuses : Begin(o)

ListRequestLogs == Refuse \/ \E o \in Lists : Begin(o)

(* No route leads to the deprecated operations; they are the service's. *)
CallDeprecated == \E o \in Deprecated : Begin(o)

Execute(s) ==
  /\ Ready(s)
  /\ seen' = [x \in DOMAIN seen \cup {s} |-> IF x = s THEN Len(logs) ELSE seen[x]]
  /\ UNCHANGED <<now, logs, op, at, status>>

End(code) ==
  /\ status' = code
  /\ op' = NoOp
  /\ at' = 0
  /\ seen' = <<>>
  /\ UNCHANGED <<now, logs>>

(* One error is enough for a 500; what the other goroutines of the overview *)
(* still read is dropped.                                                   *)
StatementFails(s) == Ready(s) /\ End(500)

Answer == Finished /\ End(200)

Next ==
  \/ CreateRequestLog
  \/ Tick
  \/ GetDashboard
  \/ GetModelStatus
  \/ ListRequestLogs
  \/ CallDeprecated
  \/ \E s \in Statements : Execute(s) \/ StatementFails(s)
  \/ Answer

Spec == Init /\ [][Next]_vars

----------------------------------------------------------------------------

TypeOK ==
  /\ now \in 0..MaxTime
  /\ Len(logs) <= MaxLogs
  /\ \A i \in DOMAIN logs : logs[i].time \in 0..now
  /\ op \in Dashboards \union Statuses \union Lists \union Deprecated \union {NoOp}
  /\ at \in 0..now
  /\ \A s \in DOMAIN seen : seen[s] \in 0..Len(logs)
  /\ status \in {0, 200, 400, 500}

SumSeq(s) == FoldLeft(LAMBDA x, y : x + y, 0, s)

SumFun(f) == SumOf(DOMAIN f, f)

(* The parts of one dashboard belong together: the points of the trend add  *)
(* up to the overview's requests and tokens, so does the usage the ranks    *)
(* are shares of, and a rank that was not cut adds up to the requests; and  *)
(* the average of first-byte times is taken of at least one if there is one.*)
(* (GetDashboard fills all of them in one loop over one result, but selects *)
(* the rows by the window and the points by dividing.)                      *)
DashboardAddsUp ==
  Done("dashboard") =>
    LET d == Dashboard(seen["rows"], op.range)
    IN  /\ SumFun(d.requestsAt) = d.requests
        /\ SumFun(d.tokensAt) = d.tokens
        /\ d.usage = d.tokens
        /\ d.models <= TopN => SumSeq(d.modelCalls) = d.requests
        /\ d.platforms <= TopN => SumSeq(d.platformUsage) = d.tokens
        /\ d.successes <= d.requests
        /\ d.firstBytes = <<>> =>
             \A i \in Window(seen["rows"], op.range) : Value(logs[i].firstByte) <= 0

(* Every request that had been logged when the dashboard was asked for, and *)
(* began before that and in the last points * granularity less an hour, is  *)
(* in it: rounding the end of the window up to a full hour loses at most an *)
(* hour at the other end.                                                   *)
DashboardIsCurrent ==
  Done("dashboard") =>
    LET span == op.range.granularity * op.range.points
    IN  \A i \in 1..seen["rows"] :
          (logs[i].time < at /\ logs[i].time >= at - span + Hour)
            => i \in Window(seen["rows"], op.range)

(* One dashboard, asked for while logs are written (dashboard.go): types,   *)
(* its parts agree with each other and it is up to date.                    *)
DashboardInv == TypeOK /\ DashboardAddsUp /\ DashboardIsCurrent

(* Dashboard and model status agree on the same logs, although each counts  *)
(* on its own: a model has as many requests in one as in the other, and its *)
(* points add up to them.  Asking for one model gives what the list says of *)
(* it, except for the label of logs without a name, which is no value of    *)
(* the column that the filter compares.                                     *)
StatusAgreesWithDashboard ==
  Done("status") =>
    LET n   == seen["rows"]
        all == ModelStatus(n, op.range, NoModel)
        one == ModelStatus(n, op.range, op.model)
    IN  /\ Top([m \in DOMAIN all |-> all[m].requests], TopN)
             = Dashboard(n, op.range).modelCalls
        /\ \A m \in DOMAIN one : SumFun(one[m].requestsAt) = one[m].requests
        /\ op.model \notin {NoModel, Unknown} =>
             /\ DOMAIN one = DOMAIN all \intersect {op.model}
             /\ \A m \in DOMAIN one : one[m] = all[m]

Written(first, second) == seen[second] - seen[first]

(* The deprecated operations read a total and its parts in two statements   *)
(* without a transaction: the parts can be larger than the total, a success *)
(* rate or a share more than one, but only by logs that were written while  *)
(* the operation ran.                                                       *)
PartsOutrunTotalByWrites ==
  /\ (Done("overview") /\ Ran("success")) =>
       LET o == RequestCounts(op.duration)
       IN  o.successes <= o.requests + Written("total", "success")
  /\ Done("callRank") =>
       \A rank \in {ModelCallRank(op.duration), PlatformCallRank(op.duration)} :
          SumSeq(rank.items) <= rank.requests + Written("total", "groups")

(* What replaces the deprecated ranks says the same as they did where every *)
(* log that has tokens has a total: with nothing written in between, the    *)
(* usage rank of a duration is that of the same logs by the dashboard's     *)
(* rules.  (Without a total the dashboard adds up the parts, and the rank   *)
(* leaves the log out.)                                                     *)
UsageRanksAgree ==
  (Done("usageRank") /\ Written("total", "groups") = 0) =>
    LET rows == Since(seen["groups"], op.duration)
        used == {i \in rows : HasUsage(i)}
        rank == PlatformUsageRank(op.duration)
    IN  (\A i \in used : logs[i].total # Null) =>
          /\ rank.items = UsageItems(used, PlatformOf)
          /\ rank.tokens = SumOf(rows, Tokens)

(* What the operations of two statements are off by (overview.go, rank.go)  *)
(* is what was written in between, and nothing if nothing was.              *)
RankInv == PartsOutrunTotalByWrites /\ UsageRanksAgree

(* The number a page of the request list states is the number of matching   *)
(* logs at some moment between its two statements, also on the last page,   *)
(* where it is computed from the page instead of counted.                   *)
ListCountIsHonest ==
  Done("list") => /\ ListedCount >= Count(Matching(seen["page"]))
                  /\ ListedCount <= Count(Matching(Len(logs)))

=============================================================================
