---------------------------- MODULE HubSerialProofs ----------------------------
(***************************************************************************)
(* Proofs about HubRuntime when the host makes one call at a time, for any *)
(* number of Start and Stop calls and any initial WorkDir: the process     *)
(* finds its way back to its first directory, and the configuration that   *)
(* a server was started with is still the one its relative path names.     *)
(***************************************************************************)
EXTENDS HubRuntimeProofs

\* A call that works, or that the host makes now, is the only one: every other is
\* not made yet or has returned.
LEMMA Alone ==
  ASSUME Serial, OneCall, NEW c \in Calls, Active(c) \/ MayCall(c)
  PROVE  \A d \in Calls \ {c} : ~Active(d)
BY DEF OneCall, MayCall, Active

\* A step of such a call moves it alone.
LEMMA MovesAlone ==
  ASSUME Serial, Typed, OneCall, NEW c \in Calls, NEW p, NEW q \in Points,
         Goto(c, p, q), p # "idle" \/ MayCall(c), p \notin Returned
  PROVE  /\ pc[c] = p /\ pc'[c] = q
         /\ \A d \in Calls \ {c} : ~Active(d) /\ pc'[d] = pc[d]
<1>1. pc[c] = p /\ pc'[c] = q /\ \A d \in Calls \ {c} : pc'[d] = pc[d]
  BY DEF Goto, Typed, TypeOK
<1>2. Active(c) \/ MayCall(c)
  BY <1>1 DEF Active
<1> QED BY <1>1, <1>2, Alone

\* A new Runtime: no call was made, and the process is where it began.
LEMMA SerialInit == Init => SerialInv
BY CallsAssumption, NoneAssumption
DEF Init, SerialInv, OneCall, WayHome, PrevTaken, LoadedHere, Active, Returned, Calls

\* Every step of the one call that works keeps its way home, and leaves the cwd
\* alone while a server starts or is published.
LEMMA SerialStep == ASSUME Serial, Typed, SerialInv, [Next]_vars PROVE SerialInv'
<1> USE CallsAssumption, NoneAssumption
<1> USE DEF fields, process, made, startLocals, stopLocals, locals, Calls
<1> DEFINE Moves(c, p, q) ==
      /\ pc[c] = p /\ pc'[c] = q
      /\ \A d \in Calls \ {c} : ~Active(d) /\ pc'[d] = pc[d]
<1>0. ASSUME NEW c \in Calls, NEW p, NEW q \in Points, Goto(c, p, q),
             p # "idle" \/ MayCall(c), p \notin Returned
      PROVE  Moves(c, p, q)
  BY <1>0, MovesAlone DEF SerialInv
<1> USE DEF SerialInv, OneCall, WayHome, PrevTaken, LoadedHere, Active, Returned
<1>1. ASSUME NEW c \in Starts, CheckStart(c) PROVE SerialInv'
  <2>1. PICK q \in {"err", "load", "resolve"} :
          /\ Goto(c, "idle", q)
          /\ q = IF srv # None THEN "err"
                 ELSE IF workDir = None THEN "load" ELSE "resolve"
    BY <1>1 DEF CheckStart, CheckStartOr
  <2>2. Moves(c, "idle", q)
    BY <1>0, <1>1, <2>1 DEF CheckStart, CheckStartOr, Points, StartPoints
  <2>3. UNCHANGED <<srv, workdirPrev, cwd, stranded, prev, loadDir>>
    BY <1>1 DEF CheckStart, CheckStartOr
  <2> QED BY <2>1, <2>2, <2>3
<1>2. ASSUME NEW c \in Starts, StartStep(c) PROVE SerialInv'
  <2> USE DEF Points, StartPoints
  <2>1. CASE ResolveWorkDir(c)
    <3>1. Moves(c, "resolve", "getwd")
      BY <1>0, <2>1 DEF ResolveWorkDir
    <3> QED BY <2>1, <3>1 DEF ResolveWorkDir
  <2>2. CASE GetPrevDir(c)
    <3>1. Moves(c, "getwd", "chdir")
      BY <1>0, <2>2 DEF GetPrevDir
    <3>2. prev' = [prev EXCEPT ![c] = cwd] /\ prev'[c] = cwd
      BY <2>2 DEF GetPrevDir, Typed, TypeOK
    <3> QED BY <2>2, <3>1, <3>2 DEF GetPrevDir
  <2>3. CASE EnterWorkDir(c)
    <3>1. Moves(c, "chdir", "remember")
      BY <1>0, <2>3 DEF EnterWorkDir
    <3> QED BY <2>3, <3>1 DEF EnterWorkDir
  <2>4. CASE RememberPrevDir(c)
    <3>1. Moves(c, "remember", "load")
      BY <1>0, <2>4 DEF RememberPrevDir
    <3>2. workdirPrev' # None
      BY <2>4, <3>1 DEF RememberPrevDir, Typed, LocalsSet, Paths
    <3> QED BY <2>4, <3>1, <3>2 DEF RememberPrevDir
  <2>5. CASE ApplyWorkDirFails(c)
    <3>1. PICK p \in {"resolve", "getwd", "chdir"} : Goto(c, p, "err")
      BY <2>5 DEF ApplyWorkDirFails
    <3>2. Moves(c, p, "err")
      BY <1>0, <3>1
    <3> QED BY <2>5, <3>2 DEF ApplyWorkDirFails
  <2>6. CASE LoadConfig(c)
    <3>1. Moves(c, "load", "serve")
      BY <1>0, <2>6 DEF LoadConfig
    <3>2. loadDir' = [loadDir EXCEPT ![c] = cwd] /\ loadDir'[c] = cwd
      BY <2>6 DEF LoadConfig, Typed, TypeOK
    <3> QED BY <2>6, <3>1, <3>2 DEF LoadConfig
  <2>7. CASE StartServer(c)
    <3>1. Moves(c, "serve", "publish")
      BY <1>0, <2>7 DEF StartServer
    <3> QED BY <2>7, <3>1 DEF StartServer
  <2>8. CASE StartFails(c)
    <3>1. PICK p \in {"load", "serve"} : Goto(c, p, "restore")
      BY <2>8 DEF StartFails, StartFailsTo
    <3>2. Moves(c, p, "restore")
      BY <1>0, <3>1
    <3> QED BY <2>8, <3>2 DEF StartFails, StartFailsTo
  <2>9. CASE Publish(c)
    <3>1. PICK q \in {"watch", "ok"} : Goto(c, "publish", q)
      BY <2>9 DEF Publish, SetPublished
    <3>2. Moves(c, "publish", q)
      BY <1>0, <3>1
    <3> QED BY <2>9, <3>2 DEF Publish, SetPublished
  <2>10. CASE LosePublish(c)
    <3>1. srv # None /\ Moves(c, "publish", "unwind")
      BY <1>0, <2>10 DEF LosePublish, LosePublishTo
    <3> QED BY <3>1
  <2>11. CASE UnwindServer(c)
    <3>1. Moves(c, "unwind", "restore")
      BY <1>0, <2>11 DEF UnwindServer
    <3> QED BY <2>11, <3>1 DEF UnwindServer
  <2>12. CASE StartWatcher(c)
    <3>1. Moves(c, "watch", "ok")
      BY <1>0, <2>12 DEF StartWatcher, StartWatcherUnless
    <3>2. UNCHANGED <<srv, workdirPrev, cwd, stranded, prev, loadDir>>
      BY <2>12 DEF StartWatcher, StartWatcherUnless
    <3> QED BY <3>1, <3>2
  <2> QED BY <1>2, <2>1, <2>2, <2>3, <2>4, <2>5, <2>6, <2>7, <2>8, <2>9,
             <2>10, <2>11, <2>12 DEF StartStep
<1>3. ASSUME NEW t \in Stops, TakeServer(t) PROVE SerialInv'
  <2>1. Moves(t, "idle", "stopWatch")
    BY <1>0, <1>3 DEF TakeServer, TakeServerLeaving, Points, StopPoints
  <2> QED BY <1>3, <2>1 DEF TakeServer, TakeServerLeaving
<1>4. ASSUME NEW t \in Stops, StopStep(t) PROVE SerialInv'
  <2>1. PICK p \in {"stopWatch", "stopCtx", "stopSrv"},
             q \in {"stopCtx", "stopSrv", "restore"} : Goto(t, p, q)
    BY <1>4 DEF StopStep, CancelWatcher, CancelWatches, CancelContext, StopServer
  <2>2. Moves(t, p, q)
    BY <1>0, <2>1 DEF Points, StopPoints
  <2>3. UNCHANGED <<srv, workdirPrev, cwd, stranded, prev, loadDir>>
    BY <1>4 DEF StopStep, CancelWatcher, CancelWatches, CancelContext, StopServer
  <2> QED BY <2>2, <2>3
<1>5. ASSUME NEW c \in Calls, RestoreStep(c) PROVE SerialInv'
  <2>1. CASE TakePrevDir(c)
    <3>1. PICK q \in {"ok", "err", "chdirBack"} :
            Goto(c, "restore", q) /\ (q = "chdirBack" <=> workdirPrev # None)
      BY <2>1 DEF TakePrevDir, TakePrevDirUnless, Results, Returned
    <3>2. Moves(c, "restore", q)
      BY <1>0, <3>1 DEF Points
    <3>3. prev' = [prev EXCEPT ![c] = workdirPrev] /\ prev'[c] = workdirPrev
      BY <2>1 DEF TakePrevDir, TakePrevDirUnless, Typed, TypeOK
    <3> QED BY <2>1, <3>1, <3>2, <3>3 DEF TakePrevDir, TakePrevDirUnless
  <2>2. CASE ChdirBack(c)
    <3>1. PICK q \in {"ok", "err"} : Goto(c, "chdirBack", q)
      BY <2>2 DEF ChdirBack, Results, Returned
    <3>2. Moves(c, "chdirBack", q)
      BY <1>0, <3>1 DEF Points
    <3> QED BY <2>2, <3>2 DEF ChdirBack
  <2>3. CASE ChdirBackFails(c)
    <3>1. PICK q \in {"ok", "err"} : Goto(c, "chdirBack", q)
      BY <2>3 DEF ChdirBackFails, Results, Returned
    <3>2. Moves(c, "chdirBack", q)
      BY <1>0, <3>1 DEF Points
    <3> QED BY <2>3, <3>2 DEF ChdirBackFails
  <2> QED BY <1>5, <2>1, <2>2, <2>3 DEF RestoreStep
<1>6. ASSUME UNCHANGED <<srv, workdirPrev, cwd, stranded, prev, loadDir, pc>>
      PROVE  SerialInv'
  BY <1>6
<1>7. ASSUME NEW c \in Starts, HostCancels(c) \/ WatcherExits(c) PROVE SerialInv'
  BY <1>6, <1>7 DEF HostCancels, WatcherExits
<1>8. CASE UNCHANGED vars
  BY <1>6, <1>8 DEF vars
<1> QED
  BY <1>1, <1>2, <1>3, <1>4, <1>5, <1>7, <1>8 DEF Next, HostFinished

-----------------------------------------------------------------------------
\* In every reachable state of a serial host, one call works at a time, and the
\* first directory is the cwd or is kept by whoever will go back to it.
THEOREM SerialInvariance == ASSUME Serial PROVE Spec => []SerialInv
<1>1. Inv /\ SerialInv /\ [Next]_vars => SerialInv'
  BY SerialStep DEF Inv, Typed
<1> QED BY <1>1, SerialInit, Invariance, PTL DEF Spec

\* With one call at a time and nothing published, the process is back in its first
\* directory unless a Chdir has failed, after any failed Start and any Stop.
THEOREM WorkDirRestored == ASSUME Serial PROVE Spec => []CwdRestored
<1>1. SerialInv => CwdRestored
  BY DEF SerialInv, WayHome, PrevTaken, CwdRestored, Quiescent, Returned
<1> QED BY <1>1, SerialInvariance, PTL

\* With one call at a time, the directory a published server's configuration was
\* loaded from is the working directory, where SetPersistent will write it.
THEOREM ConfigDirKept == ASSUME Serial PROVE Spec => []ConfigDirStable
<1>1. SerialInv => ConfigDirStable
  BY DEF SerialInv, LoadedHere, ConfigDirStable
<1> QED BY <1>1, SerialInvariance, PTL
===============================================================================
