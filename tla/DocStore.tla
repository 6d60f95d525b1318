------------------------------ MODULE DocStore ------------------------------
(***************************************************************************)
(* What a persistence of the handlers (Save, Delete, LoadAll) promises to  *)
(* its callers (src/modules/defaultset/state_backends.go): every call acts *)
(* once, at one moment, on one document or, a LoadAll, on all of them.  A  *)
(* call that returns nil has acted before it returns.  A call that returns *)
(* an error may have acted, may act later, or may never act.               *)
(***************************************************************************)
CONSTANTS Calls, Keys, NoKey, Absent, Unreadable, Nil

VARIABLES docs,    \* the documents: each is named by the Save that wrote it
          request, \* what each call was asked to do
          status,  \* "idle", "called", "ok" or "err"
          acted,   \* the calls that have acted
          seen,    \* LoadAll: the documents at the moment it acted
          result   \* LoadAll: what it returned

vars == <<docs, request, status, acted, seen, result>>

Requests == [kind : {"save", "delete"}, key : Keys]
              \cup [kind : {"load"}, key : {NoKey}]

Documents == Calls \cup {Absent, Unreadable}
Tables    == [Keys -> Documents]

\* A call that saves or deletes leaves this in place of the document.
Left(c) == IF request[c].kind = "save" THEN c ELSE Absent

Init ==
  /\ docs \in [Keys -> {Absent, Unreadable}]
  /\ request = [c \in Calls |-> Nil] /\ status = [c \in Calls |-> "idle"]
  /\ acted = {}
  /\ seen = [c \in Calls |-> Nil] /\ result = [c \in Calls |-> Nil]

Begin(c) ==
  /\ status[c] = "idle"
  /\ status' = [status EXCEPT ![c] = "called"]
  /\ \E r \in Requests : request' = [request EXCEPT ![c] = r]
  /\ UNCHANGED <<docs, acted, seen, result>>

Act(c) ==
  /\ status[c] # "idle" /\ c \notin acted
  /\ acted' = acted \cup {c}
  /\ IF request[c].kind = "load"
     THEN seen' = [seen EXCEPT ![c] = docs] /\ UNCHANGED docs
     ELSE docs' = [docs EXCEPT ![request[c].key] = Left(c)] /\ UNCHANGED seen
  /\ UNCHANGED <<request, status, result>>

\* A LoadAll returns every document there was; it must be able to read each.
Return(c) ==
  /\ status[c] = "called" /\ c \in acted
  /\ status' = [status EXCEPT ![c] = "ok"]
  /\ request[c].kind = "load" => \A k \in Keys : seen[c][k] # Unreadable
  /\ result' = [result EXCEPT ![c] = seen[c]]
  /\ UNCHANGED <<docs, request, acted, seen>>

Fail(c) ==
  /\ status[c] = "called"
  /\ status' = [status EXCEPT ![c] = "err"]
  /\ UNCHANGED <<docs, request, acted, seen, result>>

Next == \E c \in Calls : Begin(c) \/ Act(c) \/ Return(c) \/ Fail(c)

Spec == Init /\ [][Next]_vars
=============================================================================
