------------------------------- MODULE DailyLog -------------------------------
(***************************************************************************)
(* The log files of logger/daily_handler.go.  A handler made by WithAttrs  *)
(* or WithGroup is a copy with a lock of its own that shares the open file *)
(* of its parent; whichever handler logs first on a new day closes the     *)
(* file under all that share it and opens the new one for itself alone.    *)
(*                                                                         *)
(* Handle is three steps: rotate reads the date, takes the lock and        *)
(* compares, and gives the lock up before the record is written under it.  *)
(* A file is a number; the number of one that is closed and that nobody    *)
(* holds is used again, and one that nobody holds is closed (os.File has   *)
(* a finalizer).                                                           *)
(***************************************************************************)
EXTENDS Integers, FiniteSets

CONSTANTS
  Goroutines,  \* those that log
  Lasting,     \* the handlers made at the start, of the loggers of the app
  Derived,     \* the handlers of loggers that live as long as a request
  MaxDay       \* bound: days the process runs into

ASSUME DayAssumption == MaxDay \in Nat
ASSUME HandlerAssumption == IsFiniteSet(Lasting \cup Derived) /\ Lasting \cap Derived = {}

Handlers == Lasting \cup Derived
Days == 0..MaxDay
Files == 1..(Cardinality(Handlers) + 1)

VARIABLES
  day,       \* the date
  handler,   \* per handler its currentDate and its file
  open,      \* the files that are not closed
  call,      \* per goroutine: the Handle call it is in
  spoiled    \* history: days whose file a call with an older date closed

logVars == <<day, handler, open, call, spoiled>>

NoHandler == [date |-> -1, file |-> 0]
NoCall == [at |-> "none"]

Exists(h) == handler[h] # NoHandler

LogInit ==
  /\ day = 0
  /\ handler = [h \in Handlers |-> IF h \in Lasting THEN [date |-> 0, file |-> 1] ELSE NoHandler]
  /\ open = {1}
  /\ call = [g \in Goroutines |-> NoCall]
  /\ spoiled = {}

Midnight ==
  /\ day < MaxDay
  /\ day' = day + 1
  /\ UNCHANGED <<handler, open, call, spoiled>>

Log(g, h) ==
  /\ call[g] = NoCall
  /\ Exists(h)
  /\ call' = [call EXCEPT ![g] = [at |-> "dated", handler |-> h, date |-> day]]
  /\ UNCHANGED <<day, handler, open, spoiled>>

\* The file os.OpenFile returns to handler h.
Opened(h) == CHOOSE f \in Files : f \notin {handler[k].file : k \in Handlers \ {h}}

\* Seeded bug: the file is opened anew for every record.
Rotate_always(g) ==
  /\ call[g].at = "dated"
  /\ LET h == call[g].handler
     IN  /\ handler' = [handler EXCEPT ![h] = [date |-> call[g].date, file |-> Opened(h)]]
         /\ open' = (open \ {handler[h].file}) \cup {Opened(h)}
         /\ call' = [call EXCEPT ![g].at = "rotated"]
  /\ UNCHANGED <<day, spoiled>>

\* Under the lock: any other date than the handler's, an older one too, closes
\* the file.  If the new one cannot be opened the record is given up.
Rotate(g) ==
  /\ call[g].at = "dated"
  /\ LET h == call[g].handler
         date == call[g].date
     IN  IF handler[h].date = date
         THEN /\ call' = [call EXCEPT ![g].at = "rotated"]
              /\ UNCHANGED <<handler, open, spoiled>>
         ELSE /\ spoiled' = spoiled \cup (IF date < handler[h].date THEN {handler[h].date} ELSE {})
              /\ \/ /\ handler' = [handler EXCEPT ![h] = [date |-> date, file |-> Opened(h)]]
                    /\ open' = (open \ {handler[h].file}) \cup {Opened(h)}
                    /\ call' = [call EXCEPT ![g].at = "rotated"]
                 \/ /\ open' = open \ {handler[h].file}
                    /\ call' = [call EXCEPT ![g] = NoCall]
                    /\ UNCHANGED handler
  /\ UNCHANGED day

\* Under the lock again; the record of a closed file is lost.
Write(g) ==
  /\ call[g].at = "rotated"
  /\ call' = [call EXCEPT ![g] = NoCall]
  /\ UNCHANGED <<day, handler, open, spoiled>>

\* WithAttrs, WithGroup.
Derive(h, from) ==
  /\ ~Exists(h)
  /\ handler' = [handler EXCEPT ![h] = handler[from]]
  /\ UNCHANGED <<day, open, call, spoiled>>

\* The logger is garbage, and with it a file that only it held.
Forget(h) ==
  /\ handler' = [handler EXCEPT ![h] = NoHandler]
  /\ open' = open \cap {handler[k].file : k \in Handlers \ {h}}
  /\ UNCHANGED <<day, call, spoiled>>

\* Close, of the handler InitLogger returned.
CloseLog(h) ==
  /\ open' = open \ {handler[h].file}
  /\ UNCHANGED <<day, handler, call, spoiled>>
=============================================================================
