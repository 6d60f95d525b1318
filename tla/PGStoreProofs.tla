----------------------------- MODULE PGStoreProofs -----------------------------
(***************************************************************************)
(* Proofs about PGStore for any set of calls and keys: its invariants, and *)
(* that it implements DocStore step by step.                               *)
(***************************************************************************)
EXTENDS PGStore, TLAPS

\* Nothing was asked for yet, and nothing is acknowledged.
LEMMA InitInv == ASSUME Init PROVE Inv
<1> USE NamesAssumption DEF Init
<1>1. TypeOK
  BY DEF TypeOK, Documents, Points, Sessions
<1>2. InStep
  BY DEF InStep
<1>3. Answered /\ TableThere
  BY DEF Answered, TableThere
<1>4. LastDone
  BY DEF LastDone, Writes
<1> QED BY <1>1, <1>2, <1>3, <1>4 DEF Inv

\* The types, and what a call, its session and the table know of each other.
Coupled == TypeOK /\ InStep /\ Answered /\ TableThere

LEMMA CoupledStep == ASSUME Coupled, [Next]_vars PROVE Coupled'
<1> USE NamesAssumption
<1> USE DEF Coupled, TypeOK, InStep, Answered, TableThere, ClientAt, ServerAt,
            Documents, Points, Sessions, Working, Returned
<1>1. ASSUME NEW c \in Calls, ClientStep(c) PROVE Coupled'
  <2>1. CASE Begin(c)
    <3>1. PICK r \in Requests : request' = [request EXCEPT ![c] = r]
      BY <2>1 DEF Begin
    <3>2. {d \in Calls : pc[d] = "ok"} # {} => table
      OBVIOUS
    <3> QED BY <2>1, <3>1, <3>2 DEF Begin
  <2>2. CASE Connect(c) BY <2>2 DEF Connect
  <2>3. CASE ConnectFails(c) BY <2>3 DEF ConnectFails
  <2>4. CASE SendStatement(c) BY <2>4 DEF SendStatement
  <2>5. CASE SchemaFails(c) BY <2>5 DEF SchemaFails
  <2>6. CASE Acknowledge(c) BY <2>6 DEF Acknowledge
  <2>7. CASE Scan(c)
    <3>1. fetched[c] \in [Keys -> Documents \ {Unreadable}]
      BY <2>7 DEF Scan, Readable
    <3> QED BY <2>7, <3>1 DEF Scan, ReturnDocs
  <2>8. CASE ScanFails(c) BY <2>8 DEF ScanFails
  <2>9. CASE GiveUp(c) BY <2>9 DEF GiveUp, GiveUpWith
  <2> QED BY <1>1, <2>1, <2>2, <2>3, <2>4, <2>5, <2>6, <2>7, <2>8, <2>9
          DEF ClientStep
<1>2. ASSUME NEW c \in Calls, ServerStep(c) PROVE Coupled'
  <2>1. CASE CheckTable(c)
    <3>1. before[c] # {} => table
      OBVIOUS
    <3> QED BY <2>1, <3>1 DEF CheckTable
  <2>2. CASE CreateTable(c) BY <2>2 DEF CreateTable
  <2>3. CASE Execute(c)
    <3>1. request[c] \in Requests /\ request[c].key \in Keys
      BY <2>3 DEF Execute, ExecuteLeaving, Requests
    <3> QED BY <2>3, <3>1 DEF Execute, ExecuteLeaving
  <2>4. CASE Fetch(c) BY <2>4 DEF Fetch
  <2>5. CASE Drop(c) BY <2>5 DEF Drop
  <2> QED BY <1>2, <2>1, <2>2, <2>3, <2>4, <2>5 DEF ServerStep
<1>3. CASE UNCHANGED vars BY <1>3 DEF vars
<1> QED BY <1>1, <1>2, <1>3 DEF Next, Finished

-----------------------------------------------------------------------------
\* A step that executes no statement of a write keeps LastDone if the writes that
\* were made stay what they are, the sessions that were done stay so, and nobody
\* new is done.
LEMMA LastDoneFrame ==
  ASSUME LastDone, rows' = rows, before' = before, request' = request,
         \A c \in Calls : pc[c] # "idle" <=> pc'[c] # "idle",
         \A c \in Calls, k \in Keys :
           Writes(c, k) /\ session'[c] = "done" => session[c] = "done"
  PROVE  LastDone'
<1>1. \A c \in Calls, k \in Keys : Writes(c, k)' <=> Writes(c, k)
  BY DEF Writes
<1> QED BY <1>1 DEF LastDone

\* The two steps that matter: a call that is made later than all others has none
\* done yet, and the statement that executes is the last of its key, because no
\* write that counts it among the earlier ones is done before it.
LEMMA LastDoneStep == ASSUME Coupled, LastDone, [Next]_vars PROVE LastDone'
<1> USE NamesAssumption
<1> USE DEF ClientAt, ServerAt
<1>1. ASSUME NEW c \in Calls, Begin(c) PROVE LastDone'
  <2>1. PICK r \in Requests : request' = [request EXCEPT ![c] = r]
    BY <1>1 DEF Begin
  <2>2. /\ pc[c] = "idle" /\ session'[c] # "done"
        /\ \A d \in Calls : c \notin before[d]
    BY <1>1 DEF Begin, Coupled, InStep
  <2>3. \A d \in Calls \ {c}, k \in Keys : Writes(d, k)' <=> Writes(d, k)
    BY <1>1, <2>1 DEF Begin, Writes, Coupled, TypeOK
  <2>4. \A k \in Keys : ~Writes(c, k)
    BY <2>2 DEF Writes
  <2>5. \A d \in Calls \ {c} : before'[d] = before[d] /\ request'[d] = request[d]
    BY <1>1, <2>1 DEF Begin, Coupled, TypeOK
  <2>6. rows' = rows /\ session' = session
    BY <1>1 DEF Begin
  <2> QED BY <2>2, <2>3, <2>4, <2>5, <2>6 DEF LastDone
<1>2. ASSUME NEW c \in Calls, ClientStep(c), ~Begin(c) PROVE LastDone'
  <2>1. rows' = rows /\ before' = before /\ request' = request
    BY <1>2 DEF ClientStep, Connect, ConnectFails, SendStatement, SchemaFails,
       Acknowledge, Scan, ReturnDocs, ScanFails, GiveUp, GiveUpWith
  <2>2. \A d \in Calls : pc[d] # "idle" <=> pc'[d] # "idle"
    BY <1>2 DEF ClientStep, Connect, ConnectFails, SendStatement, SchemaFails,
       Acknowledge, Scan, ReturnDocs, ScanFails, GiveUp, GiveUpWith, Coupled, TypeOK
  <2>3. \A d \in Calls : session'[d] = "done" => session[d] = "done"
    BY <1>2 DEF ClientStep, Connect, ConnectFails, SendStatement, SchemaFails,
       Acknowledge, Scan, ReturnDocs, ScanFails, GiveUp, GiveUpWith, Coupled, TypeOK
  <2> QED BY <2>1, <2>2, <2>3, LastDoneFrame
<1>3. ASSUME NEW c \in Calls, ServerStep(c), ~Execute(c) PROVE LastDone'
  <2>1. rows' = rows /\ before' = before /\ request' = request /\ pc' = pc
    BY <1>3 DEF ServerStep, CheckTable, CreateTable, Fetch, Drop
  <2>2. \A d \in Calls, k \in Keys :
          Writes(d, k) /\ session'[d] = "done" => session[d] = "done"
    BY <1>3 DEF ServerStep, CheckTable, CreateTable, Fetch, Drop, Writes, Coupled,
       TypeOK
  <2> QED BY <2>1, <2>2, LastDoneFrame
<1>4. ASSUME NEW c \in Calls, Execute(c) PROVE LastDone'
  <2>1. /\ rows' = [rows EXCEPT ![request[c].key] =
                      IF request[c].kind = "save" THEN c ELSE Absent]
        /\ session' = [session EXCEPT ![c] = "done"] /\ session[c] = "run"
        /\ request[c].kind # "load"
        /\ UNCHANGED <<pc, request, before>>
    BY <1>4 DEF Execute, ExecuteLeaving
  <2>2. \A d \in Calls : c \notin before[d]
    BY <2>1 DEF Coupled, InStep
  <2>3. pc[c] # "idle" /\ request[c].key \in Keys
    BY <2>1 DEF Coupled, InStep, Requests
  <2>4. \A d \in Calls, k \in Keys : Writes(d, k)' <=> Writes(d, k)
    BY <2>1 DEF Writes
  <2>5. \A k \in Keys : Writes(c, k) <=> k = request[c].key
    BY <2>1, <2>3 DEF Writes
  <2>6. \A d \in Calls \ {c} : session'[d] = session[d]
    BY <2>1 DEF Coupled, TypeOK
  <2>7. \A k \in Keys :
          rows'[k] = IF k = request[c].key
                     THEN IF request[c].kind = "save" THEN c ELSE Absent
                     ELSE rows[k]
    BY <2>1 DEF Coupled, TypeOK
  <2> QED BY <2>1, <2>2, <2>4, <2>5, <2>6, <2>7 DEF LastDone
<1>5. CASE UNCHANGED vars
  BY <1>5, LastDoneFrame DEF vars
<1> QED BY <1>1, <1>2, <1>3, <1>4, <1>5 DEF Next, Finished, ServerStep

\* The invariant holds for any set of calls and keys, in every interleaving of
\* clients, broken connections and the server.
THEOREM Invariance == Spec => []Inv
<1>1. Init => Inv
  BY InitInv
<1>2. Inv /\ [Next]_vars => Inv'
  BY CoupledStep, LastDoneStep DEF Inv, Coupled
<1> QED BY <1>1, <1>2, PTL DEF Spec

\* The type invariant; LoadAll never returns a document that it could not decode.
THEOREM TypeCorrect == Spec => []TypeOK
<1>1. Inv => TypeOK
  BY DEF Inv
<1> QED BY <1>1, Invariance, PTL

\* The last acknowledged write to a key is what the table holds.
THEOREM LastAcknowledgedWins == Spec => []LastAckedWins
<1>1. Inv => LastAckedWins
  BY DEF Inv, InStep, LastDone, LastAckedWins
<1> QED BY <1>1, Invariance, PTL

\* ensureSchema fails only for calls made before any call had returned nil.
THEOREM SchemaSettles == Spec => []SchemaSettled
<1>1. Inv => SchemaSettled
  BY DEF Inv, TableThere, SchemaSettled
<1> QED BY <1>1, Invariance, PTL

-----------------------------------------------------------------------------
\* Every step of a call or of the server is a step of DocStore, or none.

LEMMA InitMaps == ASSUME Init PROVE Store!Init
<1>1. rows \in [Keys -> {Absent, Unreadable}]
  BY DEF Init
<1> QED BY <1>1 DEF Init, Store!Init, Returned

LEMMA StepMaps == ASSUME Coupled, [Next]_vars PROVE [Store!Next]_(Store!vars)
<1> USE NamesAssumption
<1> USE DEF ClientAt, ServerAt, Returned
<1> DEFINE Status == [c \in Calls |-> IF pc[c] \in {"idle"} \cup Returned
                                      THEN pc[c] ELSE "called"]
           Acted == {c \in Calls : session[c] = "done"}
           Same == /\ rows' = rows /\ request' = request /\ Status' = Status
                   /\ Acted' = Acted /\ fetched' = fetched /\ docs' = docs
<1>1. ASSUME Same PROVE UNCHANGED Store!vars
  BY <1>1 DEF Store!vars
<1>2. ASSUME NEW c \in Calls, ClientStep(c) PROVE [Store!Next]_(Store!vars)
  <2>1. CASE Begin(c)
    <3>1. Status' = [Status EXCEPT ![c] = "called"] /\ Status[c] = "idle"
      BY <2>1 DEF Begin, Coupled, TypeOK
    <3>2. Acted' = Acted
      BY <2>1 DEF Begin
    <3>3. \E r \in Requests : request' = [request EXCEPT ![c] = r]
      BY <2>1 DEF Begin
    <3>4. Store!Begin(c)
      BY <2>1, <3>1, <3>2, <3>3 DEF Begin, Store!Begin, Store!Requests, Requests
    <3> QED BY <3>4 DEF Store!Next
  <2>2. CASE Connect(c) \/ SendStatement(c)
    <3>1. Status' = Status /\ Acted' = Acted
      BY <2>2 DEF Connect, SendStatement, Coupled, TypeOK
    <3> QED BY <2>2, <3>1, <1>1 DEF Connect, SendStatement
  <2>3. CASE ConnectFails(c) \/ SchemaFails(c) \/ ScanFails(c) \/ GiveUp(c)
    <3>1. Status' = [Status EXCEPT ![c] = "err"] /\ Status[c] = "called"
      BY <2>3 DEF ConnectFails, SchemaFails, ScanFails, GiveUp, GiveUpWith, Coupled,
         TypeOK
    <3>2. /\ Acted' = Acted
          /\ UNCHANGED <<rows, request, fetched, docs>>
      BY <2>3 DEF ConnectFails, SchemaFails, ScanFails, GiveUp, GiveUpWith
    <3>3. Store!Fail(c)
      BY <3>1, <3>2 DEF Store!Fail
    <3> QED BY <3>3 DEF Store!Next
  <2>4. CASE Acknowledge(c) \/ Scan(c)
    <3>1. Status' = [Status EXCEPT ![c] = "ok"] /\ Status[c] = "called"
      BY <2>4 DEF Acknowledge, Scan, ReturnDocs, Coupled, TypeOK
    <3>2. /\ Acted' = Acted /\ c \in Acted
          /\ UNCHANGED <<rows, request, fetched>>
      BY <2>4 DEF Acknowledge, Scan, ReturnDocs
    <3>3. request[c].kind = "load" => \A k \in Keys : fetched[c][k] # Unreadable
      BY <2>4 DEF Acknowledge, Scan, Readable
    <3>4. docs' = [docs EXCEPT ![c] = fetched[c]]
      <4>1. CASE Acknowledge(c)
        <5>1. fetched[c] = Nil /\ docs[c] = Nil
          BY <4>1 DEF Acknowledge, Coupled, Answered
        <5> QED BY <4>1, <5>1 DEF Acknowledge, Coupled, TypeOK
      <4>2. CASE Scan(c)
        BY <4>2 DEF Scan, ReturnDocs
      <4> QED BY <2>4, <4>1, <4>2
    <3>5. Store!Return(c)
      BY <3>1, <3>2, <3>3, <3>4 DEF Store!Return
    <3> QED BY <3>5 DEF Store!Next
  <2> QED BY <1>2, <2>1, <2>2, <2>3, <2>4 DEF ClientStep
<1>3. ASSUME NEW c \in Calls, ServerStep(c) PROVE [Store!Next]_(Store!vars)
  <2>1. CASE CheckTable(c) \/ CreateTable(c) \/ Drop(c)
    <3>1. Acted' = Acted
      BY <2>1 DEF CheckTable, CreateTable, Drop, Working, Coupled, TypeOK
    <3>2. UNCHANGED <<rows, request, pc, fetched, docs>>
      BY <2>1 DEF CheckTable, CreateTable, Drop
    <3> QED BY <3>1, <3>2, <1>1
  <2>2. CASE Execute(c) \/ Fetch(c)
    <3>1. Acted' = Acted \cup {c} /\ c \notin Acted
      BY <2>2 DEF Execute, ExecuteLeaving, Fetch, Coupled, TypeOK
    <3>2. Status[c] # "idle"
      BY <2>2 DEF Execute, ExecuteLeaving, Fetch, Coupled, InStep
    <3>3. Store!Act(c)
      <4>1. CASE Execute(c)
        BY <4>1, <3>1, <3>2 DEF Execute, ExecuteLeaving, Store!Act, Store!Left
      <4>2. CASE Fetch(c)
        BY <4>2, <3>1, <3>2 DEF Fetch, Store!Act
      <4> QED BY <2>2, <4>1, <4>2
    <3> QED BY <3>3 DEF Store!Next
  <2> QED BY <1>3, <2>1, <2>2 DEF ServerStep
<1>4. CASE UNCHANGED vars
  BY <1>4, <1>1 DEF vars
<1> QED BY <1>2, <1>3, <1>4 DEF Next, Finished

\* Save, Delete and LoadAll over PostgreSQL implement the atomic store.
THEOREM Refinement == Spec => ImplementsDocStore
<1>1. Init => Store!Init
  BY InitMaps
<1>2. Inv /\ [Next]_vars => [Store!Next]_(Store!vars)
  BY StepMaps DEF Inv, Coupled
<1> QED BY <1>1, <1>2, Invariance, PTL DEF Spec, ImplementsDocStore, Store!Spec
================================================================================
