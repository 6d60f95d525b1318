------------------------------- MODULE PGStore -------------------------------
(***************************************************************************)
(* The PostgreSQL persistence of flow definitions, variables and archived  *)
(* runs (src/modules/defaultset/state_backends.go).  The three types have  *)
(* the same methods on a table of their own; this module is one of them.   *)
(* Every call of Save, Delete and LoadAll opens a connection, creates the  *)
(* table if it is missing, sends one statement and closes the connection.  *)
(* Calls come from any number of handlers and processes.                   *)
(*                                                                         *)
(* The server does what PostgreSQL does: a statement executes at one       *)
(* moment; CREATE TABLE IF NOT EXISTS looks first and creates afterwards,  *)
(* and fails if the table was created in between; what a client has sent   *)
(* may execute although the client has given up.                           *)
(*                                                                         *)
(* A document is named by the Save that writes it; keys are compared after *)
(* TrimSpace, as the statements have them.  A document that LoadAll cannot *)
(* decode (JSON of another shape, an owner that is not 32 bits wide) comes *)
(* from outside and is Unreadable.                                         *)
(***************************************************************************)
CONSTANTS Calls,     \* calls of Save, Delete and LoadAll, each made at most once
          Keys,      \* primary keys
          NoKey, Absent, Unreadable,
          Nil        \* nil, or what a call has not been given yet

ASSUME NamesAssumption ==
  /\ Calls \cap {Absent, Unreadable, Nil} = {}
  /\ Absent # Unreadable /\ NoKey \notin Keys
  /\ Nil \notin [Keys -> Calls \cup {Absent, Unreadable}]

VARIABLES
  table,   \* whether the table exists
  rows,    \* its row for each key
  pc,      \* where each call is
  request, \* what it was asked to do
  session, \* what the server does for it
  fetched, \* LoadAll: the rows the server answered with
  docs,    \* LoadAll: the documents it returned
  before   \* history: the calls that had returned nil when it was made

vars == <<table, rows, pc, request, session, fetched, docs, before>>

Requests == [kind : {"save", "delete"}, key : Keys]
              \cup [kind : {"load"}, key : {NoKey}]
Documents == Calls \cup {Absent, Unreadable}

Points   == {"idle", "connect", "schema", "statement", "ok", "err"}
Returned == {"ok", "err"}
\* "check" and "create" are the two halves of ensureSchema's statement, and
\* "ready" and "refused" its answers; "run" and "done" are of the call's own.
Working  == {"check", "create", "run"}
Sessions == {"none", "ready", "refused", "done", "gone"} \cup Working

Init ==
  /\ table \in BOOLEAN
  /\ rows \in [Keys -> IF table THEN {Absent, Unreadable} ELSE {Absent}]
  /\ pc = [c \in Calls |-> "idle"] /\ request = [c \in Calls |-> Nil]
  /\ session = [c \in Calls |-> "none"]
  /\ fetched = [c \in Calls |-> Nil] /\ docs = [c \in Calls |-> Nil]
  /\ before = [c \in Calls |-> {}]

ClientAt(c, from, to) == pc[c] = from /\ pc' = [pc EXCEPT ![c] = to]
ServerAt(c, from, to) == session[c] = from /\ session' = [session EXCEPT ![c] = to]

-----------------------------------------------------------------------------
\* The call

Begin(c) ==
  /\ ClientAt(c, "idle", "connect")
  /\ \E r \in Requests : request' = [request EXCEPT ![c] = r]
  /\ before' = [before EXCEPT ![c] = {d \in Calls : pc[d] = "ok"}]
  /\ UNCHANGED <<table, rows, session, fetched, docs>>

\* withPGConn connects, and ensureSchema sends its statement.
Connect(c) ==
  /\ ClientAt(c, "connect", "schema") /\ ServerAt(c, "none", "check")
  /\ UNCHANGED <<table, rows, request, fetched, docs, before>>

\* The server does not answer, or the document cannot be marshalled: nothing is sent.
ConnectFails(c) ==
  /\ ClientAt(c, "connect", "err")
  /\ UNCHANGED <<table, rows, request, session, fetched, docs, before>>

\* The table is there: the statement of the call itself is sent.
SendStatement(c) ==
  /\ ClientAt(c, "schema", "statement") /\ ServerAt(c, "ready", "run")
  /\ UNCHANGED <<table, rows, request, fetched, docs, before>>

\* ensureSchema returns the error of the server.
SchemaFails(c) ==
  /\ session[c] = "refused" /\ ClientAt(c, "schema", "err")
  /\ UNCHANGED <<table, rows, request, session, fetched, docs, before>>

Acknowledge(c) ==
  /\ session[c] = "done" /\ request[c].kind # "load"
  /\ ClientAt(c, "statement", "ok")
  /\ UNCHANGED <<table, rows, request, session, fetched, docs, before>>

Readable(t) == \A k \in Keys : t[k] # Unreadable

ReturnDocs(c) ==
  /\ ClientAt(c, "statement", "ok")
  /\ docs' = [docs EXCEPT ![c] = fetched[c]]
  /\ UNCHANGED <<table, rows, request, session, fetched, before>>

\* Mutant: a row is taken as it is, without the check of its value.
ScanUnchecked(c) ==
  session[c] = "done" /\ request[c].kind = "load" /\ ReturnDocs(c)
Scan(c) ==
  /\ session[c] = "done" /\ request[c].kind = "load"
  /\ Readable(fetched[c]) /\ ReturnDocs(c)

\* One row that cannot be decoded: LoadAll returns an error and no documents.
ScanFails(c) ==
  /\ session[c] = "done" /\ request[c].kind = "load" /\ ~Readable(fetched[c])
  /\ ClientAt(c, "statement", "err")
  /\ UNCHANGED <<table, rows, request, session, fetched, docs, before>>

\* The connection breaks, ctx is done, or the process ends: the call does not
\* learn what has become, or will become, of what it sent.
GiveUpWith(c, answer) ==
  /\ \E p \in {"schema", "statement"} : ClientAt(c, p, answer)
  /\ UNCHANGED <<table, rows, request, session, fetched, docs, before>>

\* Mutant: the error of Exec is dropped.
GiveUpSilently(c) == GiveUpWith(c, IF request[c].kind = "load" THEN "err" ELSE "ok")
GiveUp(c)         == GiveUpWith(c, "err")

-----------------------------------------------------------------------------
\* The server

\* Mutant: CREATE TABLE without IF NOT EXISTS.
CreateAlways(c) ==
  /\ ServerAt(c, "check", "create")
  /\ UNCHANGED <<table, rows, pc, request, fetched, docs, before>>

\* IF NOT EXISTS: the server looks for the table.
CheckTable(c) ==
  /\ ServerAt(c, "check", IF table THEN "ready" ELSE "create")
  /\ UNCHANGED <<table, rows, pc, request, fetched, docs, before>>

\* It creates the table, or finds that another session just has.
CreateTable(c) ==
  /\ ServerAt(c, "create", IF table THEN "refused" ELSE "ready")
  /\ table' = TRUE
  /\ UNCHANGED <<rows, pc, request, fetched, docs, before>>

ExecuteLeaving(c, row) ==
  /\ ServerAt(c, "run", "done") /\ request[c].kind # "load"
  /\ rows' = [rows EXCEPT ![request[c].key] = row]
  /\ UNCHANGED <<table, pc, request, fetched, docs, before>>

\* Mutant: INSERT ... ON CONFLICT DO NOTHING.
ExecuteIfAbsent(c) ==
  ExecuteLeaving(c, IF request[c].kind = "delete" THEN Absent
                    ELSE IF rows[request[c].key] = Absent THEN c
                    ELSE rows[request[c].key])

\* INSERT ... ON CONFLICT DO UPDATE, or DELETE.
Execute(c) == ExecuteLeaving(c, IF request[c].kind = "save" THEN c ELSE Absent)

\* SELECT: all rows of one moment.
Fetch(c) ==
  /\ ServerAt(c, "run", "done") /\ request[c].kind = "load"
  /\ fetched' = [fetched EXCEPT ![c] = rows]
  /\ UNCHANGED <<table, rows, pc, request, docs, before>>

\* The server notices that its client is gone before it has done its work.
Drop(c) ==
  /\ pc[c] = "err" /\ session[c] \in Working
  /\ session' = [session EXCEPT ![c] = "gone"]
  /\ UNCHANGED <<table, rows, pc, request, fetched, docs, before>>

-----------------------------------------------------------------------------
ClientStep(c) ==
  \/ Begin(c) \/ Connect(c) \/ ConnectFails(c) \/ SendStatement(c)
  \/ SchemaFails(c) \/ Acknowledge(c) \/ Scan(c) \/ ScanFails(c) \/ GiveUp(c)
ServerStep(c) ==
  CheckTable(c) \/ CreateTable(c) \/ Execute(c) \/ Fetch(c) \/ Drop(c)

\* Every call was made and has returned.
Finished ==
  /\ \A c \in Calls : pc[c] \in Returned /\ session[c] \notin Working
  /\ UNCHANGED vars

Next == (\E c \in Calls : ClientStep(c) \/ ServerStep(c)) \/ Finished

Spec == Init /\ [][Next]_vars

-----------------------------------------------------------------------------
\* Every variable has a value of its type; what LoadAll returns is always made of
\* documents it could decode (state_backends.go:181, 286, 381).
TypeOK ==
  /\ table \in BOOLEAN
  /\ rows \in [Keys -> Documents]
  /\ pc \in [Calls -> Points]
  /\ request \in [Calls -> Requests \cup {Nil}]
  /\ session \in [Calls -> Sessions]
  /\ fetched \in [Calls -> [Keys -> Documents] \cup {Nil}]
  /\ docs \in [Calls -> [Keys -> Documents \ {Unreadable}] \cup {Nil}]
  /\ before \in [Calls -> SUBSET Calls]

Writes(c, k) == pc[c] # "idle" /\ request[c].kind # "load" /\ request[c].key = k

\* The last acknowledged write is what the table holds, whatever other calls do in
\* the meantime to other keys, to the table or to the connection: Save and Delete
\* return nil only when the row is theirs, and a write that was acknowledged before
\* never comes back.  (Overlapping or unanswered writes to the key may be later.)
LastAckedWins ==
  \A c \in Calls, k \in Keys :
    /\ Writes(c, k) /\ pc[c] = "ok"
    /\ \A d \in Calls \ {c} : Writes(d, k) => d \in before[c]
    => rows[k] = IF request[c].kind = "save" THEN c ELSE Absent

\* The race of two sessions for the table is a thing of its first moments: once a
\* call has returned nil, no call that is made afterwards fails in ensureSchema.
SchemaSettled ==
  \A c \in Calls : session[c] = "refused" => before[c] = {}

\* Save, Delete and LoadAll are atomic, and nil means done.
Store == INSTANCE DocStore WITH
  docs   <- rows,
  status <- [c \in Calls |-> IF pc[c] \in {"idle"} \cup Returned THEN pc[c]
                             ELSE "called"],
  acted  <- {c \in Calls : session[c] = "done"},
  seen   <- fetched,
  result <- docs

ImplementsDocStore == Store!Spec
-----------------------------------------------------------------------------
\* What the properties rest on, proved with them in PGStoreProofs

\* A call has a session from the moment it is connected, and returns nil only when
\* the server has done its work; the history names calls that returned nil.
InStep ==
  \A c \in Calls :
    /\ pc[c] \in {"idle", "connect"} => session[c] = "none"
    /\ pc[c] # "idle" => request[c] \in Requests
    /\ pc[c] = "ok" => session[c] = "done"
    /\ \A d \in before[c] : pc[d] = "ok"

\* Only a LoadAll is answered with rows, and only a call that returns returns them.
Answered ==
  \A c \in Calls :
    /\ session[c] = "done" /\ request[c].kind = "load" => fetched[c] # Nil
    /\ session[c] # "done" \/ request[c].kind # "load" => fetched[c] = Nil
    /\ pc[c] # "ok" => docs[c] = Nil

\* Whoever is past ensureSchema has seen the table; whoever found none was made
\* before any call had returned nil.
TableThere ==
  \A c \in Calls :
    /\ session[c] \in {"ready", "refused", "run", "done"} => table
    /\ session[c] \in {"create", "refused"} => before[c] = {}

\* LastAckedWins holds from the moment the server executes the write.
LastDone ==
  \A c \in Calls, k \in Keys :
    /\ Writes(c, k) /\ session[c] = "done"
    /\ \A d \in Calls \ {c} : Writes(d, k) => d \in before[c]
    => rows[k] = IF request[c].kind = "save" THEN c ELSE Absent

\* The inductive invariant.
Inv == TypeOK /\ InStep /\ Answered /\ TableThere /\ LastDone

=============================================================================
