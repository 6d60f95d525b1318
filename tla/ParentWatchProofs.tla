--------------------------- MODULE ParentWatchProofs ---------------------------
(***************************************************************************)
(* The safety of the parent watcher for any set of connections: Inv is     *)
(* inductive, one step per action, and its conjuncts are the properties.   *)
(***************************************************************************)
EXTENDS ParentWatch, TLAPS

\* Nothing is up, sent or remembered at first.
LEMMA InitInv == ASSUME Init PROVE Inv
<1> USE ConnsAssumption DEF Init
<1>1. TypeOK
  BY DEF TypeOK, InIteration
<1>2. \A c \in Conns : sent[c] = 0
  OBVIOUS
<1>3. Remembered /\ MetaInitialized
  BY <1>2 DEF Remembered, MetaInitialized, InIteration
<1>4. RegisteredOnce /\ NodeIDFirst
  BY <1>2 DEF RegisteredOnce, NodeIDFirst
<1> QED BY <1>1, <1>3, <1>4 DEF Inv

\* Every step keeps the invariant.  What carries a register is decided by Find,
\* which takes up a connection, and by the sends; FindNone may forget everything,
\* because a connection that is gone does not come back.
LEMMA InvStep == ASSUME Inv, [Next]_vars PROVE Inv'
<1> USE ConnsAssumption
<1> USE DEF Inv, TypeOK, Goto, world, last, InIteration
<1>1. CASE Tick
  BY <1>1 DEF Tick, Remembered, RegisteredOnce, MetaInitialized, NodeIDFirst
<1>2. CASE Exit
  BY <1>2 DEF Exit, ExitIf, Remembered, RegisteredOnce, MetaInitialized, NodeIDFirst
<1>3. CASE Work
  <2>1. CASE FindNone
    BY <2>1 DEF FindNone, FindNoneTo, Remembered, RegisteredOnce, MetaInitialized,
       NodeIDFirst
  <2>2. CASE Find
    BY <2>2 DEF Find, AfterMeta, Remembered, RegisteredOnce, MetaInitialized,
       NodeIDFirst
  <2>3. CASE KeepNodeID
    BY <2>3 DEF KeepNodeID, AfterMeta, Remembered, RegisteredOnce, MetaInitialized,
       NodeIDFirst
  <2>4. CASE NodeIDMissing
    BY <2>4 DEF NodeIDMissing, Remembered, RegisteredOnce, MetaInitialized,
       NodeIDFirst
  <2>5. CASE SetNodeID
    BY <2>5 DEF SetNodeID, SetNodeIDTo, AfterMeta, Remembered, RegisteredOnce,
       MetaInitialized, NodeIDFirst
  <2>6. CASE SendRegister
    <3>1. /\ pc = "register" /\ pc' = "wait" /\ conn \in Conns
          /\ sent' = [sent EXCEPT ![conn] = @ + 1] /\ registered' = conn
          /\ UNCHANGED <<parent, used, cancelled, nodeID, selfID, conn, metaInit>>
      BY <2>6 DEF SendRegister, SendRemembering, Remembered
    <3>2. sent[conn] = 0
      BY <3>1 DEF Remembered, RegisteredOnce
    <3>3. /\ sent'[conn] = 1
          /\ \A c \in Conns : c # conn => sent'[c] = sent[c]
      BY <3>1, <3>2
    <3>4. TypeOK'
      BY <3>1, <3>2
    <3>5. Remembered'
      BY <3>1, <3>3 DEF Remembered
    <3>6. RegisteredOnce' /\ MetaInitialized' /\ NodeIDFirst'
      BY <3>1, <3>3 DEF RegisteredOnce, MetaInitialized, NodeIDFirst
    <3> QED BY <3>4, <3>5, <3>6
  <2>7. CASE SendFails
    BY <2>7 DEF SendFails, FailRemembering, Remembered, RegisteredOnce,
       MetaInitialized, NodeIDFirst
  <2> QED BY <1>3, <2>1, <2>2, <2>3, <2>4, <2>5, <2>6, <2>7 DEF Work
<1>4. CASE \E c \in Conns : Connect(c)
  BY <1>4 DEF Connect, Remembered, RegisteredOnce, MetaInitialized, NodeIDFirst
<1>5. CASE Disconnect
  BY <1>5 DEF Disconnect, Remembered, RegisteredOnce, MetaInitialized, NodeIDFirst
<1>6. CASE AssignNodeID
  BY <1>6 DEF AssignNodeID, Remembered, RegisteredOnce, MetaInitialized, NodeIDFirst
<1>7. CASE Cancel
  BY <1>7 DEF Cancel, Remembered, RegisteredOnce, MetaInitialized, NodeIDFirst
<1>8. CASE Ended \/ UNCHANGED vars
  BY <1>8 DEF Ended, vars, Remembered, RegisteredOnce, MetaInitialized, NodeIDFirst
<1> QED BY <1>1, <1>2, <1>3, <1>4, <1>5, <1>6, <1>7, <1>8 DEF Next

\* The inductive invariant holds in every behaviour.
THEOREM Invariance == Spec => []Inv
BY InitInv, InvStep, PTL DEF Spec

\* The watcher's variables have values of their Go types, and an iteration works on
\* a connection, never on nil (runtime.go:385).
THEOREM TypeCorrect == Spec => []TypeOK
<1>1. Inv => TypeOK
  BY DEF Inv
<1> QED BY <1>1, Invariance, PTL

\* No connection carries two registers, however the parent link breaks and comes
\* back between the steps of the watcher (runtime.go:423).
THEOREM RegistersOnce == Spec => []RegisteredOnce
<1>1. Inv => RegisteredOnce
  BY DEF Inv
<1> QED BY <1>1, Invariance, PTL

\* A connection that carried a register has a node id (runtime.go:412).
THEOREM NodeIDPrecedes == Spec => []NodeIDFirst
<1>1. Inv => NodeIDFirst
  BY DEF Inv
<1> QED BY <1>1, Invariance, PTL

=============================================================================
