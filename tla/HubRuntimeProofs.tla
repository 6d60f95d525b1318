--------------------------- MODULE HubRuntimeProofs ---------------------------
(***************************************************************************)
(* Proofs about HubRuntime for any sets of Start and Stop calls, any       *)
(* initial WorkDir, serial and concurrent hosts: its type invariant, the   *)
(* ownership of servers and of watcher goroutines, and the action property *)
(* on the published server.  The invariant Inv is proved inductive in      *)
(* three layers, each using the ones before it: types and locals, who owns *)
(* a server, who owns a watcher.                                           *)
(***************************************************************************)
EXTENDS HubRuntime, TLAPS

Typed == TypeOK /\ LocalsSet

\* The first layer is inductive: every step of Start, Stop, restoreWorkDir and of
\* the watcher keeps the types, and sets a local variable before its use.
LEMMA TypedStep == ASSUME Typed, [Next]_vars PROVE Typed'
<1> USE CallsAssumption, NoneAssumption, WorkDirAssumption
<1> USE DEF Typed, TypeOK, LocalsSet, Calls, Points, StartPoints, StopPoints,
            Returned, Paths, Goto, fields, process, made, startLocals,
            stopLocals, locals
<1>1. ASSUME NEW c \in Starts, CheckStart(c) PROVE Typed'
  BY <1>1 DEF CheckStart, CheckStartOr
<1>2. ASSUME NEW c \in Starts, StartStep(c) PROVE Typed'
  <2>1. CASE ResolveWorkDir(c)
    <3>1. dir[c] \in Paths \cup {Relative}
      BY <2>1 DEF ResolveWorkDir
    <3>2. Named(dir[c]) \in Paths \cup {Relative}
      BY <3>1 DEF Named
    <3>3. PICK abs \in {Named(dir[c]), dir[c]} : dir' = [dir EXCEPT ![c] = abs]
      BY <2>1 DEF ResolveWorkDir
    <3>4. abs \in Paths \cup {Relative}
      BY <3>1, <3>2
    <3> QED BY <2>1, <3>3, <3>4 DEF ResolveWorkDir
  <2>2. CASE GetPrevDir(c) BY <2>2 DEF GetPrevDir
  <2>3. CASE EnterWorkDir(c)
    <3>1. cwd' \in Paths
      BY <2>3 DEF EnterWorkDir, Named
    <3> QED BY <2>3, <3>1 DEF EnterWorkDir
  <2>4. CASE RememberPrevDir(c) BY <2>4 DEF RememberPrevDir
  <2>5. CASE ApplyWorkDirFails(c) BY <2>5 DEF ApplyWorkDirFails
  <2>6. CASE LoadConfig(c) BY <2>6 DEF LoadConfig
  <2>7. CASE StartServer(c) BY <2>7 DEF StartServer
  <2>8. CASE StartFails(c) BY <2>8 DEF StartFails, StartFailsTo
  <2>9. CASE Publish(c) BY <2>9 DEF Publish, SetPublished
  <2>10. CASE LosePublish(c) BY <2>10 DEF LosePublish, LosePublishTo
  <2>11. CASE UnwindServer(c) BY <2>11 DEF UnwindServer
  <2>12. CASE StartWatcher(c) BY <2>12 DEF StartWatcher, StartWatcherUnless
  <2> QED BY <1>2, <2>1, <2>2, <2>3, <2>4, <2>5, <2>6, <2>7, <2>8, <2>9,
             <2>10, <2>11, <2>12 DEF StartStep
<1>3. ASSUME NEW t \in Stops, TakeServer(t) PROVE Typed'
  BY <1>3 DEF TakeServer, TakeServerLeaving
<1>4. ASSUME NEW t \in Stops, StopStep(t) PROVE Typed'
  <2>1. CASE CancelWatcher(t) BY <2>1 DEF CancelWatcher, CancelWatches
  <2>2. CASE CancelContext(t) BY <2>2 DEF CancelContext
  <2>3. CASE StopServer(t) BY <2>3 DEF StopServer
  <2> QED BY <1>4, <2>1, <2>2, <2>3 DEF StopStep
<1>5. ASSUME NEW c \in Calls, RestoreStep(c) PROVE Typed'
  <2>1. CASE TakePrevDir(c) BY <2>1 DEF TakePrevDir, TakePrevDirUnless, Results
  <2>2. CASE ChdirBack(c) BY <2>2 DEF ChdirBack, Results
  <2>3. CASE ChdirBackFails(c) BY <2>3 DEF ChdirBackFails, Results
  <2> QED BY <1>5, <2>1, <2>2, <2>3 DEF RestoreStep
<1>6. ASSUME NEW c \in Starts, HostCancels(c) PROVE Typed'
  BY <1>6 DEF HostCancels
<1>7. ASSUME NEW w \in Starts, WatcherExits(w) PROVE Typed'
  BY <1>7 DEF WatcherExits
<1>8. CASE UNCHANGED vars
  BY <1>8 DEF vars
<1> QED
  BY <1>1, <1>2, <1>3, <1>4, <1>5, <1>6, <1>7, <1>8 DEF Next, HostFinished

-----------------------------------------------------------------------------
Owned == PublishedAt /\ TakenOnce /\ OwnedServers

\* A step of call c that touches neither the published server, a server's state
\* nor what a Stop holds, and that is not about to publish, unwind or stop, keeps
\* the second layer.
LEMMA OwnedFrame ==
  ASSUME Typed, Owned, NEW c \in Calls, NEW p \in Points,
         UNCHANGED <<srv, server, held, heldWatch>>,
         pc' = [pc EXCEPT ![c] = p],
         c \in Starts =>
           /\ pc[c] \in {"publish", "unwind"} <=> p \in {"publish", "unwind"}
           /\ pc[c] \in {"watch", "ok"} <=> p \in {"watch", "ok"},
         c \in Stops =>
           p # "idle" /\ (pc[c] \in StopPoints <=> p \in StopPoints)
  PROVE  Owned'
<1> USE CallsAssumption, NoneAssumption DEF Typed, TypeOK, Calls
<1>1. \A d \in Starts :
        /\ pc'[d] \in {"publish", "unwind"} <=> pc[d] \in {"publish", "unwind"}
        /\ pc'[d] \in {"watch", "ok"} <=> pc[d] \in {"watch", "ok"}
  OBVIOUS
<1>2. \A t \in Stops : /\ pc'[t] \in StopPoints <=> pc[t] \in StopPoints
                       /\ pc'[t] = "idle" => pc[t] = "idle"
  OBVIOUS
<1> QED BY <1>1, <1>2 DEF Owned, PublishedAt, TakenOnce, OwnedServers, WillStop

\* The second layer is inductive: the steps that move a server between its owners
\* are StartServer, Publish, LosePublish, UnwindServer, TakeServer and StopServer.
LEMMA OwnedStep == ASSUME Typed, Owned, [Next]_vars PROVE Owned'
<1> USE CallsAssumption, NoneAssumption
<1> USE DEF Goto, fields, process, made, startLocals, stopLocals, locals
<1> DEFINE Frame(c) ==
      /\ UNCHANGED <<srv, server, held, heldWatch>>
      /\ \E p \in Points :
           /\ pc' = [pc EXCEPT ![c] = p]
           /\ c \in Starts =>
                /\ pc[c] \in {"publish", "unwind"} <=> p \in {"publish", "unwind"}
                /\ pc[c] \in {"watch", "ok"} <=> p \in {"watch", "ok"}
           /\ c \in Stops =>
                p # "idle" /\ (pc[c] \in StopPoints <=> p \in StopPoints)
<1>1. ASSUME NEW c \in Calls, Frame(c) PROVE Owned'
  BY <1>1, OwnedFrame
<1>2. ASSUME NEW c \in Starts, CheckStart(c) PROVE Owned'
  <2>1. PICK p \in {"err", "load", "resolve"} :
          pc[c] = "idle" /\ pc' = [pc EXCEPT ![c] = p]
    BY <1>2 DEF CheckStart, CheckStartOr
  <2>2. Frame(c)
    <3>1. UNCHANGED <<srv, server, held, heldWatch>>
      BY <1>2 DEF CheckStart, CheckStartOr
    <3>2. c \notin Stops /\ p \in Points
      BY DEF Points, StartPoints, Returned
    <3> QED BY <2>1, <3>1, <3>2
  <2> QED BY <1>1, <2>2 DEF Calls
<1> HIDE DEF Frame
<1>3. ASSUME NEW c \in Starts, StartStep(c) PROVE Owned'
  <2> USE DEF Points, StartPoints, StopPoints, Returned, Calls
  <2>1. CASE ResolveWorkDir(c) \/ GetPrevDir(c) \/ EnterWorkDir(c)
             \/ RememberPrevDir(c) \/ ApplyWorkDirFails(c) \/ LoadConfig(c)
             \/ StartFails(c) \/ LosePublish(c) \/ StartWatcher(c)
    <3>1. Frame(c)
      BY <2>1 DEF Frame, ResolveWorkDir, GetPrevDir, EnterWorkDir,
         RememberPrevDir, ApplyWorkDirFails, LoadConfig, StartFails, StartFailsTo,
         LosePublish, LosePublishTo, StartWatcher, StartWatcherUnless
    <3> QED BY <1>1, <3>1
  <2>2. CASE StartServer(c)
    BY <2>2 DEF StartServer, Typed, TypeOK, Owned, PublishedAt, TakenOnce,
       OwnedServers, WillStop
  <2>3. CASE Publish(c)
    BY <2>3 DEF Publish, SetPublished, Typed, TypeOK, Owned, PublishedAt, TakenOnce,
       OwnedServers, WillStop
  <2>4. CASE UnwindServer(c)
    BY <2>4 DEF UnwindServer, Typed, TypeOK, Owned, PublishedAt, TakenOnce,
       OwnedServers, WillStop
  <2> QED BY <1>3, <2>1, <2>2, <2>3, <2>4 DEF StartStep
<1>4. ASSUME NEW t \in Stops, TakeServer(t) PROVE Owned'
  BY <1>4 DEF TakeServer, TakeServerLeaving, Typed, TypeOK, Owned, PublishedAt,
     TakenOnce, OwnedServers, WillStop, StopPoints, Calls
<1>5. ASSUME NEW t \in Stops, StopStep(t) PROVE Owned'
  <2> USE DEF Points, StopPoints, Calls
  <2>1. CASE CancelWatcher(t) \/ CancelContext(t)
    <3>1. Frame(t)
      BY <2>1 DEF Frame, CancelWatcher, CancelWatches, CancelContext
    <3> QED BY <1>1, <3>1
  <2>2. CASE StopServer(t)
    BY <2>2 DEF StopServer, Typed, TypeOK, Owned, PublishedAt, TakenOnce,
       OwnedServers, WillStop
  <2> QED BY <1>5, <2>1, <2>2 DEF StopStep
<1>6. ASSUME NEW c \in Calls, RestoreStep(c) PROVE Owned'
  <2>1. Frame(c)
    BY <1>6 DEF Frame, RestoreStep, TakePrevDir, TakePrevDirUnless, ChdirBack,
       ChdirBackFails, Results, Points, StopPoints, Returned, Calls
  <2> QED BY <1>1, <2>1
<1>7. ASSUME UNCHANGED <<srv, server, held, heldWatch, pc>> PROVE Owned'
  BY <1>7 DEF Owned, PublishedAt, TakenOnce, OwnedServers, WillStop
<1>8. ASSUME NEW c \in Starts, HostCancels(c) \/ WatcherExits(c) PROVE Owned'
  BY <1>7, <1>8 DEF HostCancels, WatcherExits
<1>9. CASE UNCHANGED vars
  BY <1>7, <1>9 DEF vars
<1> QED
  BY <1>2, <1>3, <1>4, <1>5, <1>6, <1>8, <1>9 DEF Next, HostFinished

-----------------------------------------------------------------------------
Watched == WatcherBound /\ WatcherOwned

\* A step that leaves the published server and the watchers alone, at most
\* cancels contexts, and does not move a Stop to or from "stopWatch", keeps the
\* third layer.
LEMMA WatchedFrame ==
  ASSUME Typed, Watched,
         UNCHANGED <<srv, watchCancel, watching, watchSrv, held, heldWatch>>,
         cancelled \subseteq cancelled', watchOff \subseteq watchOff',
         \A t \in Stops : pc[t] = "stopWatch" => pc'[t] = "stopWatch"
  PROVE  Watched'
BY DEF Typed, TypeOK, Watched, WatcherBound, WatcherOwned, WatcherDone

\* The third layer is inductive, given who owns a server: StartWatcher, TakeServer,
\* CancelWatcher and Publish are the steps that change what a watcher belongs to.
LEMMA WatchedStep == ASSUME Typed, Owned, Watched, [Next]_vars PROVE Watched'
<1> USE CallsAssumption, NoneAssumption
<1> USE DEF Goto, fields, process, made, startLocals, stopLocals, locals
<1>1. ASSUME NEW c \in Calls, NEW p \in Points,
             UNCHANGED <<srv, watchCancel, watching, watchSrv, held, heldWatch>>,
             cancelled \subseteq cancelled', watchOff \subseteq watchOff',
             pc' = [pc EXCEPT ![c] = p], pc[c] # "stopWatch"
      PROVE  Watched'
  <2>1. \A t \in Stops : pc[t] = "stopWatch" => pc'[t] = "stopWatch"
    BY <1>1 DEF Typed, TypeOK, Calls
  <2> QED BY <1>1, <2>1, WatchedFrame
<1>2. ASSUME NEW c \in Starts, CheckStart(c) PROVE Watched'
  <2>1. PICK p \in {"err", "load", "resolve"} :
          pc[c] = "idle" /\ pc' = [pc EXCEPT ![c] = p]
    BY <1>2 DEF CheckStart, CheckStartOr
  <2>2. p \in Points /\ c \in Calls /\ pc[c] # "stopWatch"
    BY <2>1 DEF Points, StartPoints, Returned, Calls
  <2> QED BY <1>1, <1>2, <2>1, <2>2 DEF CheckStart, CheckStartOr
<1>3. ASSUME NEW c \in Starts, StartStep(c) PROVE Watched'
  <2> USE DEF Points, StartPoints, Returned, Calls
  <2>1. CASE ResolveWorkDir(c) \/ GetPrevDir(c) \/ EnterWorkDir(c)
             \/ RememberPrevDir(c) \/ ApplyWorkDirFails(c) \/ LoadConfig(c)
             \/ StartFails(c) \/ StartServer(c) \/ LosePublish(c)
             \/ UnwindServer(c)
    <3>1. UNCHANGED <<srv, watchCancel, watching, watchSrv, held, heldWatch>>
          /\ cancelled \subseteq cancelled' /\ watchOff \subseteq watchOff'
      BY <2>1 DEF ResolveWorkDir, GetPrevDir, EnterWorkDir, RememberPrevDir,
         ApplyWorkDirFails, LoadConfig, StartFails, StartFailsTo, StartServer,
         LosePublish, LosePublishTo, UnwindServer
    <3>2. PICK p \in Points : pc' = [pc EXCEPT ![c] = p] /\ pc[c] # "stopWatch"
      BY <2>1 DEF ResolveWorkDir, GetPrevDir, EnterWorkDir, RememberPrevDir,
         ApplyWorkDirFails, LoadConfig, StartFails, StartFailsTo, StartServer,
         LosePublish, LosePublishTo, UnwindServer
    <3> QED BY <1>1, <3>1, <3>2
  <2>2. CASE Publish(c)
    BY <2>2 DEF Publish, SetPublished, Typed, TypeOK, Watched, WatcherBound,
       WatcherOwned, WatcherDone
  <2>3. CASE StartWatcher(c)
    <3>1. \A t \in Stops : pc'[t] = pc[t]
      BY <2>3 DEF StartWatcher, StartWatcherUnless, Typed, TypeOK
    <3>2. CASE srv = None \/ watchCancel # None
      BY <2>3, <3>1, <3>2, WatchedFrame DEF StartWatcher, StartWatcherUnless
    <3>3. CASE ~(srv = None \/ watchCancel # None)
      BY <2>3, <3>1, <3>3 DEF StartWatcher, StartWatcherUnless, Typed, TypeOK, Watched,
         WatcherBound, WatcherOwned, WatcherDone
    <3> QED BY <3>2, <3>3
  <2> QED BY <1>3, <2>1, <2>2, <2>3 DEF StartStep
<1>4. ASSUME NEW t \in Stops, TakeServer(t) PROVE Watched'
  <2>1. /\ pc'[t] = "stopWatch" /\ held'[t] = srv /\ heldWatch'[t] = watchCancel
        /\ srv' = None /\ watchCancel' = None
        /\ UNCHANGED <<watching, watchSrv, watchOff, cancelled>>
    BY <1>4 DEF TakeServer, TakeServerLeaving, Typed, TypeOK, Calls
  <2>2. \A u \in Stops : pc[u] = "stopWatch" =>
          u # t /\ UNCHANGED <<held[u], heldWatch[u], pc[u]>>
    BY <1>4 DEF TakeServer, TakeServerLeaving, Typed, TypeOK, Calls
  <2>3. ASSUME NEW w \in watching, ~WatcherDone(w)
        PROVE  \E u \in Stops : /\ heldWatch'[u] = w /\ held'[u] = watchSrv[w]
                                /\ pc'[u] = "stopWatch"
    BY <2>1, <2>2, <2>3 DEF Watched, WatcherOwned
  <2> QED BY <2>1, <2>3 DEF Typed, TypeOK, Watched, WatcherBound,
             WatcherOwned, WatcherDone
<1>5. ASSUME NEW t \in Stops, StopStep(t) PROVE Watched'
  <2> USE DEF Points, StopPoints, Calls
  <2>1. CASE CancelWatcher(t)
    BY <2>1 DEF CancelWatcher, CancelWatches, Typed, TypeOK, Watched, WatcherBound,
       WatcherOwned, WatcherDone
  <2>2. CASE CancelContext(t)
    BY <1>1, <2>2 DEF CancelContext
  <2>3. CASE StopServer(t)
    BY <1>1, <2>3 DEF StopServer
  <2> QED BY <1>5, <2>1, <2>2, <2>3 DEF StopStep
<1>6. ASSUME NEW c \in Calls, RestoreStep(c) PROVE Watched'
  <2>1. UNCHANGED <<srv, watchCancel, watching, watchSrv, held, heldWatch,
                    cancelled, watchOff>>
    BY <1>6 DEF RestoreStep, TakePrevDir, TakePrevDirUnless, ChdirBack, ChdirBackFails
  <2>2. PICK p \in Points : pc' = [pc EXCEPT ![c] = p] /\ pc[c] # "stopWatch"
    BY <1>6 DEF RestoreStep, TakePrevDir, TakePrevDirUnless, ChdirBack,
       ChdirBackFails, Results, Points, Returned
  <2> QED BY <1>1, <2>1, <2>2
<1>7. ASSUME NEW c \in Starts, HostCancels(c) PROVE Watched'
  BY <1>7, WatchedFrame DEF HostCancels
<1>8. ASSUME NEW w \in Starts, WatcherExits(w) PROVE Watched'
  BY <1>8 DEF WatcherExits, Typed, TypeOK, Watched, WatcherBound, WatcherOwned,
     WatcherDone
<1>9. CASE UNCHANGED vars
  BY <1>9, WatchedFrame DEF vars
<1> QED
  BY <1>2, <1>3, <1>4, <1>5, <1>6, <1>7, <1>8, <1>9 DEF Next, HostFinished

-----------------------------------------------------------------------------
\* A new Runtime satisfies the inductive invariant.
LEMMA InitInv == Init => Inv
<1> SUFFICES ASSUME Init PROVE Inv
  OBVIOUS
<1> USE CallsAssumption, NoneAssumption, WorkDirAssumption DEF Init, Calls
<1>1. TypeOK /\ LocalsSet
  BY DEF TypeOK, LocalsSet, Points, StartPoints, StopPoints, Returned, Paths, Home
<1>2. PublishedAt /\ TakenOnce /\ OwnedServers
  BY DEF PublishedAt, TakenOnce, OwnedServers, WillStop, StopPoints
<1>3. WatcherBound /\ WatcherOwned
  BY DEF WatcherBound, WatcherOwned
<1> QED BY <1>1, <1>2, <1>3 DEF Inv

\* Every step of every call keeps it.
LEMMA InvStep == Inv /\ [Next]_vars => Inv'
BY TypedStep, OwnedStep, WatchedStep DEF Inv, Typed, Owned, Watched

\* The inductive invariant holds in every reachable state of any number of Start
\* and Stop calls.
THEOREM Invariance == Spec => []Inv
BY InitInv, InvStep, PTL DEF Spec

\* No field of Runtime, local variable of Start or Stop, or process variable
\* leaves its range.
THEOREM TypeCorrect == Spec => []TypeOK
<1>1. Inv => TypeOK
  BY DEF Inv
<1> QED BY <1>1, Invariance, PTL

\* Concurrent Starts and Stops leak no server and stop none twice: a running one
\* is published, in the Start that made it, or in a Stop about to stop it.
THEOREM ServersOwned == Spec => []OwnedServers
<1>1. Inv => OwnedServers
  BY DEF Inv
<1> QED BY <1>1, Invariance, PTL

\* The server of a Start that succeeded is taken by at most one Stop.
THEOREM ServersTakenOnce == Spec => []TakenOnce
<1>1. Inv => TakenOnce
  BY DEF Inv
<1> QED BY <1>1, Invariance, PTL

\* No watcher goroutine is leaked, or left with a server that was replaced.
THEOREM WatchersOwned == Spec => []WatcherOwned
<1>1. Inv => WatcherOwned
  BY DEF Inv
<1> QED BY <1>1, Invariance, PTL

\* Two watchers that were not told to end never serve one server, so at most one
\* of them sends register on its parent link.
THEOREM WatchersUnique == Spec => []OneWatcherPerServer
<1>1. Inv => OneWatcherPerServer
  <2> SUFFICES ASSUME Inv, NEW v \in watching, NEW w \in watching,
                      ~WatcherDone(v), ~WatcherDone(w), watchSrv[v] = watchSrv[w]
               PROVE  v = w
    BY DEF OneWatcherPerServer
  <2> DEFINE Current(x) == watchCancel = x /\ srv = watchSrv[x]
             Held(x, t) == heldWatch[t] = x /\ held[t] = watchSrv[x]
  <2>1. watchSrv[v] \in Starts
    BY DEF Inv, WatcherBound
  <2>2. Current(v) \/ \E t \in Stops : Held(v, t)
    BY DEF Inv, WatcherOwned
  <2>3. Current(w) \/ \E t \in Stops : Held(w, t)
    BY DEF Inv, WatcherOwned
  <2>4. \A t \in Stops : held[t] = watchSrv[v] =>
          srv # watchSrv[v] /\ \A u \in Stops : held[u] = watchSrv[v] => u = t
    BY <2>1 DEF Inv, TakenOnce
  <2>5. CASE Current(v)
    BY <2>3, <2>4, <2>5
  <2>6. CASE \E t \in Stops : Held(v, t)
    BY <2>3, <2>4, <2>6
  <2> QED BY <2>2, <2>5, <2>6
<1> QED BY <1>1, Invariance, PTL

\* A published server is never overwritten by another Start: only a Stop removes
\* it, and that Stop then holds it.
THEOREM PublishedLeavesThroughStop == Spec => LeavesThroughStop
<1> DEFINE Leaves == \A c \in Starts : srv = c /\ srv' # c =>
                       srv' = None /\ \E t \in Stops : held[t] # c /\ held'[t] = c
<1>1. Inv /\ [Next]_vars => [Leaves]_vars
  <2> SUFFICES ASSUME Inv, Next, NEW c \in Starts, srv = c, srv' # c
               PROVE  srv' = None /\ \E t \in Stops : held[t] # c /\ held'[t] = c
    OBVIOUS
  <2>1. \E t \in Stops : TakeServer(t)
    <3>1. ASSUME NEW d \in Starts, StartStep(d) PROVE srv' = srv
      BY <3>1, NoneAssumption DEF StartStep, ResolveWorkDir, GetPrevDir,
         EnterWorkDir, RememberPrevDir, ApplyWorkDirFails, LoadConfig,
         StartServer, StartFails, StartFailsTo, Publish, SetPublished, LosePublish,
         LosePublishTo, UnwindServer, StartWatcher, StartWatcherUnless, fields
    <3>2. ASSUME NEW d \in Starts,
                 CheckStart(d) \/ HostCancels(d) \/ WatcherExits(d)
          PROVE  srv' = srv
      BY <3>2 DEF CheckStart, CheckStartOr, HostCancels, WatcherExits, fields
    <3>3. ASSUME NEW t \in Stops, StopStep(t) PROVE srv' = srv
      BY <3>3 DEF StopStep, CancelWatcher, CancelWatches, CancelContext, StopServer,
         fields
    <3>4. ASSUME NEW d \in Calls, RestoreStep(d) PROVE srv' = srv
      BY <3>4 DEF RestoreStep, TakePrevDir, TakePrevDirUnless, ChdirBack,
         ChdirBackFails, fields
    <3> QED BY <3>1, <3>2, <3>3, <3>4 DEF Next, HostFinished, vars, fields
  <2>2. PICK t \in Stops : TakeServer(t)
    BY <2>1
  <2>3. held'[t] = c /\ srv' = None
    BY <2>2 DEF TakeServer, TakeServerLeaving, Inv, TypeOK
  <2>4. held[t] # c
    BY DEF Inv, TakenOnce
  <2> QED BY <2>3, <2>4
<1> QED BY <1>1, Invariance, PTL DEF Spec, LeavesThroughStop

-----------------------------------------------------------------------------
\* No server is made for a Start but by its own StartServer.
LEMMA NotMadeStep == ASSUME Inv, NotMade, [Next]_vars PROVE NotMade'
<1> USE CallsAssumption, NoneAssumption
<1> USE DEF Inv, TypeOK, NotMade, Goto, fields, process, made, startLocals,
            stopLocals, locals, Calls
<1>1. ASSUME NEW c \in Calls, NEW p \in Points,
             pc' = [pc EXCEPT ![c] = p], UNCHANGED server,
             pc[c] \in {"idle", "resolve", "getwd", "chdir", "remember", "load",
                        "serve"}
               \/ p \in Returned \cup {"unwind", "restore", "chdirBack", "watch"}
                          \cup StopPoints
      PROVE  NotMade'
  BY <1>1 DEF Returned, StopPoints
<1>2. ASSUME NEW c \in Starts, CheckStart(c) PROVE NotMade'
  BY <1>1, <1>2 DEF CheckStart, CheckStartOr, Points, StartPoints, Returned
<1>3. ASSUME NEW c \in Starts, StartStep(c) PROVE NotMade'
  <2> USE DEF Points, StartPoints, Returned
  <2>1. CASE ResolveWorkDir(c) \/ GetPrevDir(c) \/ EnterWorkDir(c)
             \/ RememberPrevDir(c) \/ ApplyWorkDirFails(c) \/ LoadConfig(c)
             \/ StartFails(c) \/ Publish(c) \/ LosePublish(c) \/ StartWatcher(c)
    <3>1. UNCHANGED server
      BY <2>1 DEF ResolveWorkDir, GetPrevDir, EnterWorkDir, RememberPrevDir,
         ApplyWorkDirFails, LoadConfig, StartFails, StartFailsTo, Publish,
         SetPublished, LosePublish, LosePublishTo, StartWatcher, StartWatcherUnless
    <3>2. PICK p \in Points :
            /\ pc' = [pc EXCEPT ![c] = p]
            /\ pc[c] \in {"resolve", "getwd", "chdir", "remember", "load", "serve"}
                 \/ p \in Returned \cup {"unwind", "watch"}
      BY <2>1 DEF ResolveWorkDir, GetPrevDir, EnterWorkDir, RememberPrevDir,
         ApplyWorkDirFails, LoadConfig, StartFails, StartFailsTo, Publish,
         SetPublished, LosePublish, LosePublishTo, StartWatcher, StartWatcherUnless
    <3> QED BY <1>1, <3>1, <3>2
  <2>2. CASE StartServer(c)
    BY <2>2 DEF StartServer
  <2>3. CASE UnwindServer(c)
    BY <2>3 DEF UnwindServer
  <2> QED BY <1>3, <2>1, <2>2, <2>3 DEF StartStep
<1>4. ASSUME NEW t \in Stops, TakeServer(t) PROVE NotMade'
  BY <1>1, <1>4 DEF TakeServer, TakeServerLeaving, Points, StopPoints
<1>5. ASSUME NEW t \in Stops, StopStep(t) PROVE NotMade'
  <2>1. CASE CancelWatcher(t) \/ CancelContext(t)
    BY <1>1, <2>1 DEF CancelWatcher, CancelWatches, CancelContext, Points, StopPoints
  <2>2. CASE StopServer(t)
    <3>1. \A c \in Starts : pc'[c] = pc[c]
      BY <2>2 DEF StopServer
    <3>2. \A c \in Starts : held[t] = c => pc[c] \in {"watch", "ok"}
      BY DEF PublishedAt
    <3>3. \A c \in Starts : held[t] # c => server'[c] = server[c]
      BY <2>2 DEF StopServer
    <3> QED BY <3>1, <3>2, <3>3
  <2> QED BY <1>5, <2>1, <2>2 DEF StopStep
<1>6. ASSUME NEW c \in Calls, RestoreStep(c) PROVE NotMade'
  BY <1>1, <1>6 DEF RestoreStep, TakePrevDir, TakePrevDirUnless, ChdirBack,
     ChdirBackFails, Results, Points, Returned
<1>7. ASSUME UNCHANGED <<server, pc>> PROVE NotMade'
  BY <1>7
<1>8. ASSUME NEW c \in Starts, HostCancels(c) \/ WatcherExits(c) PROVE NotMade'
  BY <1>7, <1>8 DEF HostCancels, WatcherExits
<1>9. CASE UNCHANGED vars
  BY <1>7, <1>9 DEF vars
<1> QED
  BY <1>2, <1>3, <1>4, <1>5, <1>6, <1>8, <1>9 DEF Next, HostFinished

\* Every step uses the slot as ServerSlot allows, or leaves it alone.
LEMMA SlotStep ==
  ASSUME Inv, NotMade, [Next]_vars PROVE [Slot!Next]_(Slot!slotVars)
<1> USE CallsAssumption, NoneAssumption
<1> USE DEF Inv, TypeOK, Goto, fields, process, made, startLocals, stopLocals, locals
<1>1. ASSUME UNCHANGED <<srv, held, server>> PROVE UNCHANGED Slot!slotVars
  BY <1>1 DEF Slot!slotVars, Entered
<1>2. ASSUME NEW c \in Starts, StartStep(c) PROVE [Slot!Next]_(Slot!slotVars)
  <2>1. CASE ResolveWorkDir(c) \/ GetPrevDir(c) \/ EnterWorkDir(c)
             \/ RememberPrevDir(c) \/ ApplyWorkDirFails(c) \/ LoadConfig(c)
             \/ StartFails(c) \/ LosePublish(c) \/ StartWatcher(c)
    BY <1>1, <2>1 DEF ResolveWorkDir, GetPrevDir, EnterWorkDir, RememberPrevDir,
       ApplyWorkDirFails, LoadConfig, StartFails, StartFailsTo, LosePublish,
       LosePublishTo, StartWatcher, StartWatcherUnless
  <2>2. CASE StartServer(c)
    <3>1. server[c] = "none"
      BY <2>2 DEF StartServer, NotMade
    <3>2. Slot!Launch(c)
      BY <2>2, <3>1 DEF StartServer, Slot!Launch, Entered
    <3> QED BY <3>2 DEF Slot!Next
  <2>3. CASE Publish(c)
    <3>1. server[c] = "running" /\ c \notin Entered
      BY <2>3 DEF Publish, SetPublished, OwnedServers, PublishedAt, Entered
    <3>2. srv = None /\ srv' = c /\ UNCHANGED <<held, server>>
      BY <2>3 DEF Publish, SetPublished
    <3>3. Entered' = Entered \cup {c}
      BY <3>2 DEF Entered
    <3>4. Slot!Enter(c)
      BY <3>1, <3>2, <3>3 DEF Slot!Enter
    <3> QED BY <3>4 DEF Slot!Next
  <2>4. CASE UnwindServer(c)
    <3>1. server[c] = "running" /\ srv # c
      BY <2>4 DEF UnwindServer, OwnedServers, PublishedAt
    <3>2. Slot!Shut(c)
      BY <2>4, <3>1 DEF UnwindServer, Slot!Shut, Entered
    <3> QED BY <3>2 DEF Slot!Next
  <2> QED BY <1>2, <2>1, <2>2, <2>3, <2>4 DEF StartStep
<1>3. ASSUME NEW t \in Stops, TakeServer(t) PROVE [Slot!Next]_(Slot!slotVars)
  <2>1. held[t] = None
    BY <1>3 DEF TakeServer, TakeServerLeaving, PublishedAt
  <2>2. srv' = None /\ held' = [held EXCEPT ![t] = srv] /\ UNCHANGED server
    BY <1>3 DEF TakeServer, TakeServerLeaving
  <2>3. Entered' = Entered
    BY <2>1, <2>2 DEF Entered
  <2>4. CASE srv = None
    BY <2>2, <2>3, <2>4 DEF Slot!slotVars
  <2>5. CASE srv # None
    BY <2>2, <2>3, <2>5 DEF Slot!Next, Slot!Leave
  <2> QED BY <2>4, <2>5
<1>4. ASSUME NEW t \in Stops, StopStep(t) PROVE [Slot!Next]_(Slot!slotVars)
  <2>1. CASE CancelWatcher(t) \/ CancelContext(t)
    BY <1>1, <2>1 DEF CancelWatcher, CancelWatches, CancelContext
  <2>2. CASE StopServer(t)
    <3>1. /\ pc[t] = "stopSrv" /\ UNCHANGED <<srv, held>>
          /\ server' = [c \in Starts |-> IF held[t] = c THEN "stopped" ELSE server[c]]
      BY <2>2 DEF StopServer
    <3>2. Entered' = Entered
      BY <3>1 DEF Entered
    <3>3. CASE held[t] = None
      <4>1. server' = server
        BY <3>1, <3>3
      <4> QED BY <3>1, <3>2, <4>1 DEF Slot!slotVars
    <3>4. CASE held[t] \in Starts
      <4>1. server[held[t]] = "running" /\ srv # held[t]
        BY <3>1, <3>4 DEF OwnedServers, WillStop, StopPoints, TakenOnce
      <4>2. server' = [server EXCEPT ![held[t]] = "stopped"]
        BY <3>1
      <4>3. Slot!Shut(held[t])
        BY <3>1, <3>2, <4>1, <4>2 DEF Slot!Shut
      <4> QED BY <3>4, <4>3 DEF Slot!Next
    <3> QED BY <3>3, <3>4
  <2> QED BY <1>4, <2>1, <2>2 DEF StopStep
<1>5. ASSUME NEW c \in Calls, RestoreStep(c) PROVE UNCHANGED Slot!slotVars
  BY <1>1, <1>5 DEF RestoreStep, TakePrevDir, TakePrevDirUnless, ChdirBack,
     ChdirBackFails
<1>6. ASSUME NEW c \in Starts, CheckStart(c) \/ HostCancels(c) \/ WatcherExits(c)
      PROVE  UNCHANGED Slot!slotVars
  BY <1>1, <1>6 DEF CheckStart, CheckStartOr, HostCancels, WatcherExits
<1>7. CASE UNCHANGED vars
  BY <1>1, <1>7 DEF vars
<1> QED BY <1>2, <1>3, <1>4, <1>5, <1>6, <1>7 DEF Next, HostFinished

\* Start and Stop implement the slot: whatever calls run at once, a server enters it
\* once, only while it is empty, runs as long as it is there, and is stopped once.
THEOREM Refinement == Spec => ImplementsSlot
<1>1. Init => Slot!Init /\ NotMade
  BY NoneAssumption DEF Init, Slot!Init, Entered, NotMade
<1>2. Inv /\ NotMade /\ [Next]_vars => NotMade'
  BY NotMadeStep
<1>3. Inv /\ NotMade /\ [Next]_vars => [Slot!Next]_(Slot!slotVars)
  BY SlotStep
<1> QED BY <1>1, <1>2, <1>3, Invariance, PTL DEF Spec, ImplementsSlot, Slot!Spec

\* A watcher that was not told to end serves a server that runs: none is left with a
\* server that was stopped, and StartWatcher binds none to one.
THEOREM WatchersServe ==
  Spec => [](\A w \in watching : ~WatcherDone(w) => server[watchSrv[w]] = "running")
<1>1. Inv => \A w \in watching : ~WatcherDone(w) => server[watchSrv[w]] = "running"
  BY DEF Inv, WatcherOwned, WatcherBound, OwnedServers, WillStop, StopPoints
<1> QED BY <1>1, Invariance, PTL

===============================================================================
