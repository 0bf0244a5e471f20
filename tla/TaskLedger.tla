----------------------------- MODULE TaskLedger -----------------------------
(***************************************************************************)
(* What the asynchronous model-batch task service promises, without its    *)
(* queue, its caches, its worker and its restarts: a row of the            *)
(* model_batch_tasks table goes from pending to running to a final status, *)
(* one task runs at a time, one attempt commits its business transaction   *)
(* at most once, and the final status tells whether the attempt committed. *)
(* An attempt may be abandoned (crash, lost status update): the row then   *)
(* stays "running" until a later attempt concludes it.                     *)
(***************************************************************************)
EXTENDS Naturals

CONSTANT Tasks      \* the identifiers of the rows

VARIABLES
  ledger,           \* status of each row ("absent" before it is inserted)
  applied,          \* how often the task's business transaction committed
  attempt           \* the attempt under way, or NoAttempt

ledgerVars == <<ledger, applied, attempt>>

Unfinished == {"pending", "running"}
Terminal   == {"succeeded", "failed"}
NoAttempt  == [task |-> 0, committed |-> FALSE]
Attempts   == [task : Tasks, committed : BOOLEAN]

LedgerInit ==
  /\ ledger  = [t \in Tasks |-> "absent"]
  /\ applied = [t \in Tasks |-> 0]
  /\ attempt = NoAttempt

Submit(t) ==
  /\ ledger[t] = "absent"
  /\ ledger' = [ledger EXCEPT ![t] = "pending"]
  /\ UNCHANGED <<applied, attempt>>

Begin(t) ==
  /\ attempt = NoAttempt
  /\ ledger[t] \in Unfinished
  /\ ledger' = [ledger EXCEPT ![t] = "running"]
  /\ attempt' = [task |-> t, committed |-> FALSE]
  /\ UNCHANGED applied

Commit(t) ==
  /\ attempt = [task |-> t, committed |-> FALSE]
  /\ applied' = [applied EXCEPT ![t] = @ + 1]
  /\ attempt' = [task |-> t, committed |-> TRUE]
  /\ UNCHANGED ledger

Conclude(t) ==
  /\ \E c \in BOOLEAN :
       /\ attempt = [task |-> t, committed |-> c]
       /\ ledger' = [ledger EXCEPT ![t] = IF c THEN "succeeded" ELSE "failed"]
  /\ attempt' = NoAttempt
  /\ UNCHANGED applied

Abandon ==
  /\ attempt # NoAttempt
  /\ attempt' = NoAttempt
  /\ UNCHANGED <<ledger, applied>>

LedgerNext ==
  \/ \E t \in Tasks : Submit(t) \/ Begin(t) \/ Commit(t) \/ Conclude(t)
  \/ Abandon

LedgerSpec == LedgerInit /\ [][LedgerNext]_ledgerVars
=============================================================================
