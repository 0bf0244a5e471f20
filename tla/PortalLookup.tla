---------------------------- MODULE PortalLookup ----------------------------
(***************************************************************************)
(* How the portal library finds the endpoint of a request through          *)
(* infra/portal/repository/repository.go, while requests of the control    *)
(* plane change the platform's endpoints (EndpointDefault).  A lookup is   *)
(* two statements outside any transaction: a join that finds the models    *)
(* whose platform has an endpoint that matches, and a preload of the       *)
(* matching endpoints, of which the first is taken unchecked.  The model,  *)
(* the platform and the type of an endpoint do not change meanwhile.       *)
(***************************************************************************)
EXTENDS EndpointDefault

VARIABLES
  lookup,   \* the lookup: what it matches and how far it is
  cleared   \* history: what was taken from the platform on purpose since the join

lookupVars == <<vars, lookup, cleared>>

NoLookup == [by |-> "none", pc |-> "idle"]

\* FindModelsWithDefaultEndpoint matches the default, FindModelsWithEndpoint the
\* type and variant, which all endpoints have here.
Matching(by) == IF by = "default" THEN defaults ELSE rows

LookupInit == Init /\ lookup = NoLookup /\ cleared = {}

\* The join.  Without a match the library is told that there is no such model.
Find(by) ==
  /\ lookup.pc = "idle"
  /\ Matching(by) # {}
  /\ lookup' = [by |-> by, pc |-> "preload"]
  /\ UNCHANGED <<vars, cleared>>

\* Endpoints[0] is returned; of an empty list it is a run-time error.
Preload ==
  /\ lookup.pc = "preload"
  /\ IF Matching(lookup.by) = {}
     THEN lookup' = [lookup EXCEPT !.pc = "panic"] /\ UNCHANGED cleared
     ELSE lookup' = NoLookup /\ cleared' = {}
  /\ UNCHANGED vars

Recover ==
  /\ lookup.pc = "panic"
  /\ lookup' = NoLookup
  /\ cleared' = {}
  /\ UNCHANGED vars

\* What the commit of s takes away because its request asks for it: a batch that
\* leaves no default, the delete of the last endpoint, the delete of one that was
\* no default when the delete looked at it.
Asked(s) ==
  (IF tx[s].op = "batch" /\ DefaultsOf(s) = {} THEN {"flag"} ELSE {})
  \cup (IF tx[s].op = "delete" /\ RowsOf(s) = {} THEN {"endpoint"} ELSE {})
  \cup (IF tx[s].op = "delete" /\ ~tx[s].seen THEN {"unseen"} ELSE {})

ControlPlane ==
  /\ Next
  /\ cleared' = IF lookup.pc = "preload"
                THEN cleared \cup UNION {Asked(s) : s \in {c \in Sessions : Commit(c)}}
                ELSE cleared
  /\ UNCHANGED lookup

LookupNext ==
  \/ ControlPlane
  \/ \E by \in {"default", "typed"} : Find(by)
  \/ Preload
  \/ Recover

LookupSpec == LookupInit /\ [][LookupNext]_lookupVars

-----------------------------------------------------------------------------

(* repository.go:119 trusts that a platform with a matching endpoint in    *)
(* the join has one in the preload.  However the two statements fall       *)
(* between the steps of adds, updates, batches and deletes, it fails only  *)
(* if a request took the endpoint or the flag away on purpose, or deleted  *)
(* an endpoint that had become the default since it looked: a delete that  *)
(* hands the default on, and a batch that moves it, never do.              *)
LookupFailsOnlyIfAsked ==
  lookup.pc = "panic" =>
     IF lookup.by = "default" THEN cleared # {} ELSE "endpoint" \in cleared
=============================================================================
