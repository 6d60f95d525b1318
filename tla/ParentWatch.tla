------------------------------ MODULE ParentWatch ------------------------------
(***************************************************************************)
(* The goroutine that startParentBootstrapWatcher starts                   *)
(* (src/hubruntime/runtime.go:385): on every tick it looks for the parent  *)
(* connection of its server, makes sure that the connection has a node id, *)
(* and sends one register on it.  Connections come and go between any two  *)
(* of its steps, handlers set node ids, a send may fail, and Stop or the   *)
(* host may cancel it; HubRuntime has who starts and who cancels it.       *)
(*                                                                         *)
(* The connections are those of the core server (external): it dials the   *)
(* next parent when the last one is gone, and no two have the same ID.     *)
(***************************************************************************)
EXTENDS Naturals

CONSTANTS Conns, \* the parent connections of the server, each up at most once
          None   \* the empty ID

ASSUME ConnsAssumption == None \notin Conns

VARIABLES
  parent,     \* the connection with the role parent in the connection manager
  used,       \* the connections there have been
  nodeID,     \* the meta nodeID of each: 0 (or none), 1 (the fallback), 2 (assigned)
  sent,       \* the registers sent on each
  selfID,     \* opts.SelfID is not empty
  cancelled,  \* watchCtx is done
  pc,         \* where the watcher is in its loop
  conn,       \* its local conn
  metaInit,   \* its lastMetaInitConnID
  registered  \* its lastRegisterConnID

world == <<parent, used, cancelled>>
last  == <<metaInit, registered>>
vars  == <<world, nodeID, sent, selfID, pc, conn, last>>

Init ==
  /\ parent = None /\ used = {} /\ cancelled = FALSE
  /\ nodeID = [c \in Conns |-> 0] /\ sent = [c \in Conns |-> 0]
  /\ selfID \in BOOLEAN
  /\ pc = "wait" /\ conn = None
  /\ metaInit = None /\ registered = None

Goto(from, to) == pc = from /\ pc' = to

-----------------------------------------------------------------------------
\* The watcher

\* The select, with the ticker: also when watchCtx is done as well.
Tick ==
  /\ Goto("wait", "find")
  /\ UNCHANGED <<world, nodeID, sent, selfID, conn, last>>

ExitIf(ready) ==
  /\ ready /\ Goto("wait", "done")
  /\ UNCHANGED <<world, nodeID, sent, selfID, conn, last>>

\* Mutant: without a connection the context is not looked at.
ExitConnected == ExitIf(cancelled /\ parent # None)
Exit          == ExitIf(cancelled)

FindNoneTo(next) ==
  /\ parent = None /\ Goto("find", next)
  /\ conn' = None /\ metaInit' = None /\ registered' = None
  /\ UNCHANGED <<world, nodeID, sent, selfID>>

\* Mutant: the iteration goes on without a connection.
FindNoneGoesOn == FindNoneTo("getMeta")

\* findParentConn finds none: everything about the last connection is forgotten.
FindNone == FindNoneTo("wait")

\* Where the iteration goes on once connection c has its node id.
AfterMeta(c) == IF selfID /\ registered # c THEN "register" ELSE "wait"

Find ==
  /\ parent # None
  /\ Goto("find", IF metaInit = parent THEN AfterMeta(parent) ELSE "getMeta")
  /\ conn' = parent
  /\ UNCHANGED <<world, nodeID, sent, selfID, last>>

\* ensureConnNodeIDNonZero reads the node id, and returns when it is not zero.
KeepNodeID ==
  /\ Goto("getMeta", AfterMeta(conn)) /\ nodeID[conn] # 0
  /\ metaInit' = conn
  /\ UNCHANGED <<world, nodeID, sent, selfID, conn, registered>>

NodeIDMissing ==
  /\ Goto("getMeta", "setMeta") /\ nodeID[conn] = 0
  /\ UNCHANGED <<world, nodeID, sent, selfID, conn, last>>

\* It sets the fallback, whatever has been set since it read.
SetNodeIDTo(n) ==
  /\ Goto("setMeta", AfterMeta(conn))
  /\ nodeID' = [nodeID EXCEPT ![conn] = n]
  /\ metaInit' = conn
  /\ UNCHANGED <<world, sent, selfID, conn, registered>>

\* Mutant: the fallback of an unknown parent is 0.
SetNothing == SetNodeIDTo(0)
SetNodeID  == SetNodeIDTo(1)

\* SendWithHeader takes the frame: it may do so on a connection that is gone.
SendRemembering(id) ==
  /\ Goto("register", "wait")
  /\ sent' = [sent EXCEPT ![conn] = @ + 1]
  /\ registered' = id
  /\ UNCHANGED <<world, nodeID, selfID, conn, metaInit>>

\* Mutant: lastRegisterConnID is not set.
SendForgets  == SendRemembering(registered)
SendRegister == SendRemembering(conn)

FailRemembering(id) ==
  /\ Goto("register", "wait")
  /\ registered' = id
  /\ UNCHANGED <<world, nodeID, sent, selfID, conn, metaInit>>

\* Mutant: lastRegisterConnID is set before the error is looked at.
FailOnce == FailRemembering(conn)

\* The register is sent again at the next tick.  The connection is assumed to send
\* nothing of a frame that it refuses: the code could not tell.
SendFails == FailRemembering(registered)

-----------------------------------------------------------------------------
\* The world: the core server, the handlers, Stop

Connect(c) ==
  /\ parent = None /\ c \notin used
  /\ parent' = c /\ used' = used \cup {c}
  /\ UNCHANGED <<nodeID, sent, selfID, cancelled, pc, conn, last>>

Disconnect ==
  /\ parent # None /\ parent' = None
  /\ UNCHANGED <<used, nodeID, sent, selfID, cancelled, pc, conn, last>>

\* A handler learns the node id of the other side of the connection.
AssignNodeID ==
  /\ parent # None
  /\ nodeID' = [nodeID EXCEPT ![parent] = 2]
  /\ UNCHANGED <<world, sent, selfID, pc, conn, last>>

Cancel ==
  /\ ~cancelled /\ cancelled' = TRUE
  /\ UNCHANGED <<parent, used, nodeID, sent, selfID, pc, conn, last>>

Work == \/ FindNone \/ Find \/ KeepNodeID \/ NodeIDMissing \/ SetNodeID
        \/ SendRegister \/ SendFails

Ended == pc = "done" /\ UNCHANGED vars

Next == \/ Tick \/ Exit \/ Work \/ Ended
        \/ (\E c \in Conns : Connect(c)) \/ Disconnect \/ AssignNodeID \/ Cancel

Spec == Init /\ [][Next]_vars

\* The ticker goes on and the goroutine is scheduled.  select takes any of the
\* cases that are ready, and the ticker is ready once in 300 ms only, so a done
\* context is not passed over for ever.  A send that is tried again and again
\* succeeds at last.
FairSpec == /\ Spec /\ WF_vars(Tick) /\ WF_vars(Work)
            /\ SF_vars(Exit) /\ SF_vars(SendRegister)

-----------------------------------------------------------------------------
InIteration == pc \in {"getMeta", "setMeta", "register"}

\* The watcher's variables have values of their Go types, and an iteration works on
\* a connection, never on the nil that findParentConn may return.
TypeOK ==
  /\ parent \in Conns \cup {None} /\ used \subseteq Conns
  /\ cancelled \in BOOLEAN /\ selfID \in BOOLEAN
  /\ nodeID \in [Conns -> {0, 1, 2}] /\ sent \in [Conns -> Nat]
  /\ pc \in {"wait", "find", "getMeta", "setMeta", "register", "done"}
  /\ conn \in Conns \cup {None} /\ (InIteration => conn # None)
  /\ metaInit \in Conns \cup {None} /\ registered \in Conns \cup {None}

\* "Once" (change document 2026-02-25, item 2): however often the parent link
\* breaks and comes back, and wherever the watcher is meanwhile, no connection
\* carries two registers.
RegisteredOnce == \A c \in Conns : sent[c] <= 1

\* When a register is sent its connection has a node id, so that the answer passes
\* the check of the source, and it never loses it.
NodeIDFirst == \A c \in Conns : sent[c] > 0 => nodeID[c] # 0

\* A parent connection that stays up gets its register, after failed sends too.
Registers ==
  \A c \in Conns :
    parent = c /\ selfID ~> sent[c] > 0 \/ parent # c \/ cancelled

\* A cancelled watcher ends, wherever it is in its loop.
Ends == cancelled ~> pc = "done"

-----------------------------------------------------------------------------
\* What the safety properties rest on, proved with them in ParentWatchProofs

\* A connection that carried a register is remembered, or gone for good and not the
\* one the watcher is at.  While the watcher is at a connection that has gone, the
\* one that came after it is not the remembered one.
Remembered ==
  /\ {parent, registered} \subseteq used \cup {None}
  /\ InIteration => conn \in used /\ (registered = parent => parent \in {conn, None})
  /\ pc = "register" => registered # conn
  /\ \A c \in Conns : sent[c] > 0 =>
       c \in used /\ (registered = c \/ (parent # c /\ ~(InIteration /\ conn = c)))

\* The connection whose meta is initialized has a node id, and so has the one a
\* register is about to go out on.
MetaInitialized ==
  /\ \A c \in Conns : metaInit = c => nodeID[c] # 0
  /\ pc = "register" => nodeID[conn] # 0

\* The inductive invariant.
Inv == TypeOK /\ Remembered /\ RegisteredOnce /\ MetaInitialized /\ NodeIDFirst

=============================================================================
