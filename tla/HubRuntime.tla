------------------------------ MODULE HubRuntime ------------------------------
(***************************************************************************)
(* The life cycle of hubruntime.Runtime (src/hubruntime/runtime.go): any   *)
(* number of goroutines of the host process call Start and Stop on one     *)
(* Runtime.  Both methods hold the mutex only for short critical sections, *)
(* so a call is a sequence of atomic steps, each of them one critical      *)
(* section or one effect on the process (its working directory, a server,  *)
(* a context), and the steps of different calls interleave.                *)
(*                                                                         *)
(* A Start call makes at most one server, one context and one watcher      *)
(* goroutine, so each of these is named by the Start call that made it.    *)
(* A path is the number of elements below the initial working directory:   *)
(* joining a relative WorkDir to the path p gives p + 1.                   *)
(***************************************************************************)
EXTENDS Naturals

CONSTANTS
  Starts,          \* the calls of Start, each made at most once
  Stops,           \* the calls of Stop, each made at most once
  Serial,          \* TRUE: the host makes a call only when the last has returned
  InitialWorkDirs, \* the values of Options.WorkDir to start from
  None,            \* nil, or the empty string
  Relative         \* a WorkDir given as a relative path

ASSUME CallsAssumption == Starts \cap Stops = {} /\ Serial \in BOOLEAN
ASSUME NoneAssumption ==
  /\ None \notin Starts \cup Stops \cup Nat \cup {Relative}
  /\ Relative \notin Nat
ASSUME WorkDirAssumption == InitialWorkDirs \subseteq {None, Relative} \cup Nat

Calls == Starts \cup Stops

VARIABLES
  \* fields of Runtime, read and written under its mutex
  srv,         \* srv with the startCtx and startCancel set and cleared with it
  watchCancel, \* parentWatchCancel: the watcher it cancels
  workdirPrev, \* the directory to go back to
  workDir,     \* opts.WorkDir
  \* the process
  cwd,         \* its working directory
  stranded,    \* history: some Chdir back has failed
  \* what Start calls made
  server,      \* the state of each server
  cancelled,   \* the contexts startCtx that are cancelled
  watching,    \* the watcher goroutines that run
  watchSrv,    \* the server (and startCtx) each watcher was given
  watchOff,    \* the watchers whose own context is cancelled
  \* local variables of the calls
  pc,          \* where each call is
  dir,         \* Start: opts.WorkDir, then its absolute form
  prev,        \* the local prev of applyWorkDir and of restoreWorkDir
  loadDir,     \* Start: the directory its configuration was loaded from
  parent,      \* Start: opts.ParentEnable && parentTarget != ""
  held,        \* Stop: its local srv (and cancel)
  heldWatch,   \* Stop: its local parentCancel
  overtaken    \* history: Start calls in flight when a Stop took the server

fields  == <<srv, watchCancel, workdirPrev, workDir>>
process == <<cwd, stranded>>
made    == <<server, cancelled, watching, watchSrv, watchOff>>
startLocals == <<dir, loadDir, parent>>
stopLocals  == <<held, heldWatch, overtaken>>
locals  == <<startLocals, stopLocals, prev>>
vars == <<fields, process, made, locals, pc>>

Paths == Nat
Home  == 0

StartPoints == {"resolve", "getwd", "chdir", "remember", "load", "serve",
                "publish", "watch", "unwind"}
StopPoints  == {"stopWatch", "stopCtx", "stopSrv"}
Returned    == {"ok", "err"}
Points == {"idle", "restore", "chdirBack"} \cup StartPoints \cup StopPoints
            \cup Returned

Init ==
  /\ srv = None /\ watchCancel = None /\ workdirPrev = None
  /\ workDir \in InitialWorkDirs
  /\ cwd = Home /\ stranded = FALSE
  /\ server = [c \in Starts |-> "none"] /\ cancelled = {}
  /\ watching = {} /\ watchSrv = [c \in Starts |-> None] /\ watchOff = {}
  /\ pc = [c \in Calls |-> "idle"] /\ prev = [c \in Calls |-> None]
  /\ dir = [c \in Starts |-> None] /\ loadDir = [c \in Starts |-> None]
  /\ parent = [c \in Starts |-> FALSE]
  /\ held = [t \in Stops |-> None] /\ heldWatch = [t \in Stops |-> None]
  /\ overtaken = {}

Goto(c, from, to) == pc[c] = from /\ pc' = [pc EXCEPT ![c] = to]

\* A call is made when the host decides; a serial host waits for the last one.
MayCall(c) == Serial => \A d \in Calls \ {c} : pc[d] \in {"idle"} \cup Returned

-----------------------------------------------------------------------------
\* Start.  Where a helper takes the point to go on at, a step of the code is the
\* helper with the right point, and its mutant with a wrong one.

\* The first critical section: refuse when a server is published, else copy opts.
CheckStartOr(c, refused) ==
  /\ MayCall(c)
  /\ Goto(c, "idle", IF srv # None THEN refused
                     ELSE IF workDir = None THEN "load" ELSE "resolve")
  /\ dir' = IF srv # None THEN dir ELSE [dir EXCEPT ![c] = workDir]
  /\ UNCHANGED <<fields, process, made, loadDir, parent, stopLocals, prev>>

\* Mutant: "already started" also goes through restoreWorkDir.
CheckStartRestores(c) == CheckStartOr(c, "restore")
CheckStart(c)         == CheckStartOr(c, "err")

\* The directory a path names now.
Named(path) == IF path = Relative THEN cwd + 1 ELSE path

\* applyWorkDir, first Getwd: a relative directory is joined to the cwd, or stays
\* relative when Getwd fails; then it is made.
ResolveWorkDir(c) ==
  /\ Goto(c, "resolve", "getwd")
  /\ \E abs \in {Named(dir[c]), dir[c]} : dir' = [dir EXCEPT ![c] = abs]
  /\ UNCHANGED <<fields, process, made, loadDir, parent, stopLocals, prev>>

\* applyWorkDir, second Getwd: the directory to come back to.
GetPrevDir(c) ==
  /\ Goto(c, "getwd", "chdir")
  /\ prev' = [prev EXCEPT ![c] = cwd]
  /\ UNCHANGED <<fields, process, made, startLocals, stopLocals>>

EnterWorkDir(c) ==
  /\ Goto(c, "chdir", "remember")
  /\ cwd' = Named(dir[c])
  /\ UNCHANGED <<fields, stranded, made, locals>>

\* applyWorkDir, critical section: whatever workdirPrev held is overwritten.
RememberPrevDir(c) ==
  /\ Goto(c, "remember", "load")
  /\ workdirPrev' = prev[c]
  /\ UNCHANGED <<srv, watchCancel, workDir, process, made, locals>>

\* MkdirAll, the second Getwd or Chdir fails: nothing to restore.
ApplyWorkDirFails(c) ==
  /\ \E p \in {"resolve", "getwd", "chdir"} : Goto(c, p, "err")
  /\ UNCHANGED <<fields, process, made, locals>>

\* buildConfig reads config/runtime_config.json below the cwd; together with the
\* options it settles whether there is a parent to bootstrap with.
LoadConfig(c) ==
  /\ Goto(c, "load", "serve")
  /\ loadDir' = [loadDir EXCEPT ![c] = cwd]
  /\ \E b \in BOOLEAN : parent' = [parent EXCEPT ![c] = b]
  /\ UNCHANGED <<fields, process, made, dir, stopLocals, prev>>

\* Address checks, certificate, self-registration and assembly are done; the
\* server listens.
StartServer(c) ==
  /\ Goto(c, "serve", "publish")
  /\ server' = [server EXCEPT ![c] = "running"]
  /\ UNCHANGED <<fields, process, cancelled, watching, watchSrv, watchOff, locals>>

\* Any step from buildConfig to srv.Start fails.  (The context cancelled when
\* srv.Start fails has no server and no watcher, and is not represented.)
StartFailsTo(c, next) ==
  /\ \E p \in {"load", "serve"} : Goto(c, p, next)
  /\ UNCHANGED <<fields, process, made, locals>>

\* Mutant: restoreWorkDir is forgotten.
StartFailsInPlace(c) == StartFailsTo(c, "err")
StartFails(c)        == StartFailsTo(c, "restore")

\* The last critical section, when no other Start has published: opts (with the
\* WorkDir that was entered), srv, startCtx and startCancel are set.  Mutant of Publish:
\* SetPublished alone, without looking at srv again.
SetPublished(c) ==
  /\ Goto(c, "publish", IF parent[c] THEN "watch" ELSE "ok")
  /\ srv' = c /\ workDir' = dir[c]
  /\ UNCHANGED <<watchCancel, workdirPrev, process, made, locals>>

Publish(c) == srv = None /\ SetPublished(c)

\* The last critical section, when another Start was first: cancel the context.
LosePublishTo(c, next) ==
  /\ srv # None /\ Goto(c, "publish", next)
  /\ cancelled' = cancelled \cup {c}
  /\ UNCHANGED <<fields, process, server, watching, watchSrv, watchOff, locals>>

\* Mutant: the loser does not stop its server.
LosePublishLeaks(c) == LosePublishTo(c, "restore")
LosePublish(c)      == LosePublishTo(c, "unwind")

\* The loser stops the server it had started.
UnwindServer(c) ==
  /\ Goto(c, "unwind", "restore")
  /\ server' = [server EXCEPT ![c] = "stopped"]
  /\ UNCHANGED <<fields, process, cancelled, watching, watchSrv, watchOff, locals>>

\* startParentBootstrapWatcher: bind to whatever server is published by now.
StartWatcherUnless(c, refused) ==
  /\ Goto(c, "watch", "ok")
  /\ IF refused THEN UNCHANGED <<watchCancel, watching, watchSrv>>
     ELSE /\ watchCancel' = c
          /\ watching' = watching \cup {c}
          /\ watchSrv' = [watchSrv EXCEPT ![c] = srv]
  /\ UNCHANGED <<srv, workdirPrev, workDir, process, server, cancelled, watchOff,
                 locals>>

\* Mutant: parentWatchCancel is not checked.
StartWatcherTwice(c) == StartWatcherUnless(c, srv = None)
StartWatcher(c) == StartWatcherUnless(c, srv = None \/ watchCancel # None)

-----------------------------------------------------------------------------
\* restoreWorkDir, of a Start that failed or lost and of every Stop

\* A Start returns its error whatever Chdir returns; a Stop returns that of srv.Stop,
\* which may have failed if there was a server to stop, or else Chdir's.
Results(c, restored) ==
  {r \in Returned :
    /\ c \in Starts \/ ~restored => r = "err"
    /\ c \in Stops /\ restored /\ held[c] = None => r = "ok"}

TakePrevDirUnless(c, empty) ==
  /\ \E p \in IF empty THEN Results(c, TRUE) ELSE {"chdirBack"} : Goto(c, "restore", p)
  /\ prev' = [prev EXCEPT ![c] = workdirPrev]
  /\ workdirPrev' = None
  /\ UNCHANGED <<srv, watchCancel, workDir, process, made, startLocals, stopLocals>>

\* Mutant: an empty prev is not skipped.
TakePrevDirUnchecked(c) == TakePrevDirUnless(c, FALSE)
TakePrevDir(c)          == TakePrevDirUnless(c, workdirPrev = None)

ChdirBack(c) ==
  /\ \E r \in Results(c, TRUE) : Goto(c, "chdirBack", r)
  /\ cwd' = prev[c]
  /\ UNCHANGED <<fields, stranded, made, locals>>

\* Chdir fails and workdirPrev is already cleared: nobody tries again.
ChdirBackFails(c) ==
  /\ \E r \in Results(c, FALSE) : Goto(c, "chdirBack", r)
  /\ stranded' = TRUE
  /\ UNCHANGED <<fields, cwd, made, locals>>

-----------------------------------------------------------------------------
\* Stop

InStart(c) == pc[c] \in StartPoints \ {"watch", "unwind"}

\* The critical section: take the server and the watcher, and clear the fields.
TakeServerLeaving(t, left) ==
  /\ MayCall(t)
  /\ Goto(t, "idle", "stopWatch")
  /\ held' = [held EXCEPT ![t] = srv]
  /\ heldWatch' = [heldWatch EXCEPT ![t] = watchCancel]
  /\ srv' = left /\ watchCancel' = None
  /\ overtaken' = overtaken \cup {c \in Starts : InStart(c)}
  /\ UNCHANGED <<workdirPrev, workDir, process, made, startLocals, prev>>

\* Mutant: srv is taken and not cleared.
TakeServerKeeps(t) == TakeServerLeaving(t, srv)
TakeServer(t)      == TakeServerLeaving(t, None)

CancelWatches(t, ended) ==
  /\ Goto(t, "stopWatch", "stopCtx")
  /\ watchOff' = watchOff \cup ended
  /\ UNCHANGED <<fields, process, server, cancelled, watching, watchSrv, locals>>

\* Mutant: parentCancel is not called.
CancelWatcherSkipped(t) == CancelWatches(t, {})
CancelWatcher(t)        == CancelWatches(t, {heldWatch[t]} \ {None})

CancelContext(t) ==
  /\ Goto(t, "stopCtx", "stopSrv")
  /\ cancelled' = cancelled \cup ({held[t]} \ {None})
  /\ UNCHANGED <<fields, process, server, watching, watchSrv, watchOff, locals>>

\* srv.Stop returns, with or without an error: nobody stops that server again.
StopServer(t) ==
  /\ Goto(t, "stopSrv", "restore")
  /\ server' = [c \in Starts |-> IF held[t] = c THEN "stopped" ELSE server[c]]
  /\ UNCHANGED <<fields, process, cancelled, watching, watchSrv, watchOff, locals>>

-----------------------------------------------------------------------------
\* The host's context and the watcher goroutine

\* The host cancels the context it gave to Start; the Runtime's fields stay.
HostCancels(c) ==
  /\ server[c] = "running" /\ c \notin cancelled
  /\ cancelled' = cancelled \cup {c}
  /\ UNCHANGED <<fields, process, server, watching, watchSrv, watchOff, locals, pc>>

\* Mutant: watchCtx is derived from context.Background().
WatcherDoneAlone(w) == w \in watchOff

\* watchCtx is derived from startCtx: either cancellation ends the goroutine.
WatcherDone(w) == w \in watchOff \/ watchSrv[w] \in cancelled

WatcherExits(w) ==
  /\ w \in watching /\ WatcherDone(w)
  /\ watching' = watching \ {w}
  /\ UNCHANGED <<fields, process, server, cancelled, watchSrv, watchOff, locals, pc>>

-----------------------------------------------------------------------------
\* The steps of a Start call that has begun, and of restoreWorkDir
StartStep(c) ==
  \/ ResolveWorkDir(c) \/ GetPrevDir(c) \/ EnterWorkDir(c)
  \/ RememberPrevDir(c) \/ ApplyWorkDirFails(c) \/ LoadConfig(c)
  \/ StartServer(c) \/ StartFails(c) \/ Publish(c) \/ LosePublish(c)
  \/ UnwindServer(c) \/ StartWatcher(c)
StopStep(t) == CancelWatcher(t) \/ CancelContext(t) \/ StopServer(t)
RestoreStep(c) == TakePrevDir(c) \/ ChdirBack(c) \/ ChdirBackFails(c)

Quiescent == \A c \in Calls : pc[c] \in {"idle"} \cup Returned

\* Every call was made and has returned: the host asks for nothing more.
HostFinished ==
  /\ \A c \in Calls : pc[c] \in Returned
  /\ UNCHANGED vars

Next ==
  \/ \E c \in Starts : CheckStart(c) \/ StartStep(c)
  \/ \E t \in Stops : TakeServer(t) \/ StopStep(t)
  \/ \E c \in Calls : RestoreStep(c)
  \/ \E c \in Starts : HostCancels(c) \/ WatcherExits(c)
  \/ HostFinished

Spec == Init /\ [][Next]_vars

\* Go schedules every goroutine that can run: a call goes on, a watcher whose
\* context is cancelled sees it.  That the host calls at all is not assumed.
Fairness ==
  /\ \A c \in Starts : WF_vars(StartStep(c)) /\ WF_vars(WatcherExits(c))
  /\ \A t \in Stops : WF_vars(StopStep(t))
  /\ \A c \in Calls : WF_vars(RestoreStep(c))
FairSpec == Spec /\ Fairness

-----------------------------------------------------------------------------
\* Every field, local variable and goroutine has a value of its Go type.
TypeOK ==
  /\ srv \in Starts \cup {None} /\ watchCancel \in Starts \cup {None}
  /\ workdirPrev \in Paths \cup {None}
  /\ workDir \in Paths \cup {None, Relative}
  /\ cwd \in Paths /\ stranded \in BOOLEAN
  /\ server \in [Starts -> {"none", "running", "stopped"}]
  /\ cancelled \subseteq Starts
  /\ watching \subseteq Starts /\ watchOff \subseteq Starts
  /\ watchSrv \in [Starts -> Starts \cup {None}]
  /\ pc \in [Calls -> Points]
  /\ prev \in [Calls -> Paths \cup {None}]
  /\ dir \in [Starts -> Paths \cup {None, Relative}]
  /\ loadDir \in [Starts -> Paths \cup {None}]
  /\ parent \in [Starts -> BOOLEAN]
  /\ held \in [Stops -> Starts \cup {None}]
  /\ heldWatch \in [Stops -> Starts \cup {None}]
  /\ overtaken \subseteq Starts

\* Stop t has taken server c out of the Runtime and has yet to stop it.
WillStop(t, c) == held[t] = c /\ pc[t] \in StopPoints

\* No interleaving of Start and Stop leaks a server or stops one twice: a server
\* runs exactly while it is published, still in the hands of the Start that made
\* it, or in the hands of a Stop that has yet to reach srv.Stop.
OwnedServers ==
  \A c \in Starts :
    server[c] = "running" <=> \/ srv = c
                              \/ pc[c] \in {"publish", "unwind"}
                              \/ \E t \in Stops : WillStop(t, c)

\* A Start that succeeded is undone by at most one Stop: its server is published
\* until some Stop takes it, and no two Stops ever take the same one.
TakenOnce ==
  \A c \in Starts :
    /\ pc[c] \in {"watch", "ok"} => srv = c \/ \E t \in Stops : held[t] = c
    /\ \A t \in Stops : held[t] = c =>
         srv # c /\ \A u \in Stops \ {t} : held[u] # c

\* No watcher goroutine is leaked or watches a server that was replaced: one that
\* was not told to end is the watcher of the published server, or is held, with
\* its server, by a Stop about to cancel it.
WatcherOwned ==
  \A w \in watching :
    \/ WatcherDone(w)
    \/ watchCancel = w /\ srv = watchSrv[w]
    \/ \E t \in Stops : /\ heldWatch[t] = w /\ held[t] = watchSrv[w]
                        /\ pc[t] = "stopWatch"

\* At most one live watcher sends register on the parent link of a server.
OneWatcherPerServer ==
  \A v, w \in watching :
    ~WatcherDone(v) /\ ~WatcherDone(w) /\ watchSrv[v] = watchSrv[w] => v = w

\* A published server is never replaced by another one: it leaves the Runtime only
\* through a Stop that takes it in the same critical section.
LeavesThroughStop ==
  [][\A c \in Starts : srv = c /\ srv' # c =>
       srv' = None /\ \E t \in Stops : held[t] # c /\ held'[t] = c]_vars

\* Start and Stop, in whatever interleaving, use the Runtime as a slot for one
\* server: none enters while another is there or a second time, and none is stopped
\* that is there, was not started, or was stopped before.
Entered == {c \in Starts : srv = c \/ \E t \in Stops : held[t] = c}
Slot == INSTANCE ServerSlot WITH Servers <- Starts, slot <- srv,
                                 entered <- Entered, state <- server
ImplementsSlot == Slot!Spec

\* Every server that runs unpublished, a loser of two concurrent Starts or one
\* taken by a Stop, is published or stopped in the end.
UnpublishedSettles ==
  \A c \in Starts :
    server[c] = "running" /\ srv # c ~> server[c] = "stopped" \/ srv = c

\* Once a server is stopped, or the host cancels the context it gave to Start, no
\* watcher goroutine is left for that server, and none comes back.
WatcherEnds ==
  \A c \in Starts :
    server[c] = "stopped" \/ c \in cancelled ~>
      [](\A w \in watching : watchSrv[w] # c)

\* With one call at a time, the process is back in its first directory whenever
\* nothing is published, unless a Chdir back has failed (runtime.go:275, 359).
CwdRestored == Quiescent /\ srv = None => cwd = Home \/ stranded

\* With one call at a time, SetPersistent writes the file that was loaded: the
\* relative path config/runtime_config.json still means the same (runtime.go:332).
ConfigDirStable ==
  \A c \in Starts : Quiescent /\ srv = c => loadDir[c] = cwd

-----------------------------------------------------------------------------
\* What the properties above rest on, proved with them in HubRuntimeProofs

\* A local variable is set before it is used: the working directory and the
\* directory to go back to are always paths.
LocalsSet ==
  /\ \A c \in Starts : pc[c] \in {"resolve", "getwd", "chdir"} => dir[c] # None
  /\ \A c \in Calls :
       pc[c] \in {"chdir", "remember", "chdirBack"} => prev[c] \in Paths

\* Start and Stop are different procedures, and restoreWorkDir ends a Start with
\* its error: only a call that has published is at "watch" or "ok".
PublishedAt ==
  /\ \A c \in Starts :
       srv = c \/ (\E t \in Stops : held[t] = c) => pc[c] \in {"watch", "ok"}
  /\ \A t \in Stops : pc[t] = "idle" => held[t] = None /\ heldWatch[t] = None

\* The watcher that parentWatchCancel cancels was given the published server.
WatcherBound ==
  /\ \A w \in Starts : watchCancel = w => srv # None /\ watchSrv[w] = srv
  /\ \A w \in watching : watchSrv[w] \in Starts

\* A Start has no server before it starts it.
NotMade ==
  \A c \in Starts :
    pc[c] \in {"idle", "resolve", "getwd", "chdir", "remember", "load", "serve"} =>
      server[c] = "none"

\* The inductive invariant.
Inv == /\ TypeOK /\ LocalsSet /\ PublishedAt /\ TakenOnce /\ OwnedServers
       /\ WatcherBound /\ WatcherOwned

-----------------------------------------------------------------------------
\* With one call at a time, proved in HubSerialProofs

Active(c) == pc[c] \notin {"idle"} \cup Returned

\* One call at a time; nothing is published while it works, except the server that
\* a Start has just published.
OneCall ==
  /\ \A c, d \in Calls : Active(c) /\ Active(d) => c = d
  /\ \A c \in Calls : Active(c) => srv = IF pc[c] = "watch" THEN c ELSE None

\* The way back to the first directory is in workdirPrev, or in the local prev of
\* the call that is about to set it or has just taken it.
WayHome ==
  \/ stranded
  \/ /\ \A c \in Calls : pc[c] \in {"chdir", "remember", "chdirBack"} => prev[c] = Home
     /\ (\A c \in Calls : pc[c] \notin {"remember", "chdirBack"}) =>
          IF workdirPrev = None THEN cwd = Home ELSE workdirPrev = Home

\* workdirPrev is set only for a Start that goes on, a server or a Stop.
PrevTaken ==
  /\ srv = None
  /\ \A c \in Calls : pc[c] \in {"idle", "resolve", "getwd", "chdir", "remember",
                                 "chdirBack"} \cup Returned
  => workdirPrev = None

\* The configuration of the server that starts or is published is in the cwd.
LoadedHere ==
  \A c \in Starts :
    pc[c] \in {"serve", "publish"} \/ srv = c => loadDir[c] = cwd

SerialInv == OneCall /\ WayHome /\ PrevTaken /\ LoadedHere

-----------------------------------------------------------------------------
\* What a comment of the repository says of any two concurrent calls

\* "Re-check to avoid race with concurrent Stop" (runtime.go:253): a Start during
\* which a Stop ran does not leave a server behind.
StopBeatsStart == \A c \in overtaken : srv # c

=============================================================================
