# MyFlowHub server: TLA+ models, model checking and proofs

This directory holds a TLA+ development of the repository's own code: the
embeddable hub runtime (`src/hubruntime`), the assembly of its modules
(`src/modules`) and the command that runs it (`src/cmd/hub_server`). The core
server, the connection manager and the subprotocol handlers live in external
libraries (`myflowhub-core`, `myflowhub-subproto`) and appear here only as
`hubruntime` uses them.

## The system

| Component | State it keeps | Operations | Interacts with |
|---|---|---|---|
| Runtime life cycle (`hubruntime/runtime.go`) | `Runtime{srv, startCtx, startCancel, workdirPrev, parentWatchCancel, opts}` under `mu`; the working directory of the process | `New`, `Start`, `Stop`, `Status` | calls the configuration, the certificate helper, the assembly, the core server; called by any goroutine of the host |
| Parent bootstrap watcher (`runtime.go`) | a goroutine with its `watchCtx`, the last connection it registered on | tick every 300 ms, register, exit | core connection manager; cancelled by `Stop` or the host |
| Layered configuration (`hubruntime/layered_config.go`) | layers `defaults`, `persistent`, `explicit`, `runtime`; the file `config/runtime_config.json` below the working directory | `Get`, `Keys`, `Set`, `SetPersistent`, `Merge`; load at start | management handlers, on several dispatcher workers at once |
| Options (`hubruntime/options.go`, `cmd/hub_server/main.go`) | `Options`, the set of overridden keys | env, flags, `Normalize`, projection to and from the configuration | `Start` |
| QUIC development certificate (`hubruntime/quic_dev_cert.go`) | two files | generate when missing | `Start`, other processes sharing the directory |
| Assembly (`modules/hub.go`, `modules/defaultset`) | the dispatcher's handlers | `DefaultHub`, `RegisterAll`, `BindServerHooks` | `Start`, core dispatcher |
| State backends (`modules/defaultset/state_backends.go`) | rows in PostgreSQL | load, upsert, delete | handlers |
| Protocol packages (`protocol/*`) | none: type aliases | none | |

What is hard here:

* `Start` takes seconds (self-registration, listening) and holds the mutex only
  in three short sections, so Starts and Stops of different goroutines
  interleave, and everything read in one section may have changed in the next;
* the working directory is one variable for the whole process, changed and
  restored by steps that no lock covers, while the configuration file is named
  relative to it at every load and save;
* every failure after the directory was entered has to undo what was done;
* a watcher goroutine outlives the call that made it;
* `SetPersistent` copies, writes and commits in separate steps, through one
  temporary file name shared by all callers, in a process that may crash;
* the certificate and its key are two files written one after the other, in a
  directory that other processes may use, and a later `Start` trusts what it finds
  there under the names it remembers;
* `Start` waits for its parent to assign a node id, with a timeout that races the
  answer, and the server accepts connections before the hooks are bound;
* a statement sent to PostgreSQL may take effect although the call that sent it
  returned an error, at once or later, and the table is created on first use by
  whoever comes first.

What makes each component correct: no server and no goroutine is ever left
without somebody who will end it; a published server leaves only through `Stop`;
the directory is restored; a value that `SetPersistent` acknowledged is found
after a restart; a failing or crashing write leaves the old configuration; a
server that runs has all its handlers, one node id and the backends it was told to
use; certificate and key belong together; a `Save` that returned nil is what the
table holds.

## Modules

| Module | Models | Extends / instantiates |
|---|---|---|
| `ServerSlot` | what `Start` and `Stop` promise of servers: a slot for one, which a server enters once and while it is empty | |
| `HubRuntime` | `Start`, `Stop`, `applyWorkDir`, `restoreWorkDir`, creation and end of the watcher | instantiates `ServerSlot` |
| `MCHubRuntime` | instances for TLC | `HubRuntime` |
| `HubRuntimeProofs` | the theorems about `HubRuntime`, with the refinement | `HubRuntime`, `TLAPS` |
| `HubSerialProofs` | the theorems about `HubRuntime` under a host that makes one call at a time | `HubRuntimeProofs` |
| `ConfigStore` | what `SetPersistent` promises: an atomic store and a view that follows it | |
| `LayeredConfig` | `layeredConfig` and its file, one system call per step, crash and restart | instantiates `ConfigStore` |
| `MCLayeredConfig` | instances for TLC | `LayeredConfig` |
| `LayeredConfigProofs` | the theorems about `LayeredConfig`, with the refinement | `LayeredConfig`, `TLAPS` |
| `ParentWatch` | the loop of the watcher against the connections of its server | |
| `MCParentWatch` | the instance for TLC | `ParentWatch` |
| `ParentWatchProofs` | the theorems about `ParentWatch` | `ParentWatch`, `TLAPS` |
| `ConfigRestart` | environment, flags, `Normalize`, the projections between Options and layers, over restarts of the Runtime and the process | |
| `MCConfigRestart` | instances for TLC | `ConfigRestart` |
| `ConfigRestartProofs` | the theorems about `ConfigRestart` | `ConfigRestart`, `TLAPS` |
| `HubBoot` | what `Start` does between reading the configuration and publishing: certificate, node id, backends, handlers, server, hooks; over Starts, Stops and processes | |
| `MCHubBoot` | the instance for TLC | `HubBoot` |
| `HubBootProofs` | the theorems about `HubBoot` | `HubBoot`, `TLAPS` |
| `DocStore` | what a persistence promises its handler: each call acts once, at one moment | |
| `PGStore` | `Save`, `Delete`, `LoadAll` over PostgreSQL, client and server step by step | instantiates `DocStore` |
| `MCPGStore` | the instance for TLC | `PGStore` |
| `PGStoreProofs` | the theorems about `PGStore`, with the refinement | `PGStore`, `TLAPS` |

### HubRuntime

One element of `Starts` or `Stops` is one call, made at most once; `pc` says
where it is. A Start makes at most one server, one context and one watcher, so
these carry the name of their Start. `srv` stands for the fields `srv`,
`startCtx` and `startCancel`, which the code always sets and clears together in
one critical section. `parent[c]` is the test `opts.ParentEnable &&
parentTarget != ""`, settled when the configuration has been read.

The steps follow the text of the methods: `CheckStart` is the first critical
section; `ResolveWorkDir`, `GetPrevDir`, `EnterWorkDir`, `RememberPrevDir` are
`applyWorkDir`, with its two separate calls of `Getwd`: when the first one fails a
relative `WorkDir` stays relative, is entered all the same and is kept in the Options;
when the second one fails the Start does. `LoadConfig` is
`buildConfig`; `StartServer` stands for everything up to `srv.Start` and the
hooks; `Publish` and `LosePublish` are the two outcomes of the last critical
section; `StartWatcher` is `startParentBootstrapWatcher`, which takes the lock
again and reads whatever is published by then. `ApplyWorkDirFails` and
`StartFails` are the error returns, before and after there is a directory to
restore. `TakeServer`, `CancelWatcher`, `CancelContext`, `StopServer` are
`Stop`; `TakePrevDir`, `ChdirBack`, `ChdirBackFails` are `restoreWorkDir`, shared
by Stops and by Starts that failed or lost. `Results` is what they return: a Start
its own error, a Stop that of `srv.Stop`, if there was a server, or else that of
`Chdir`; a server whose `srv.Stop` returned an error counts as stopped, since the
Runtime has forgotten it. `HostCancels` is the host cancelling
the context it passed to `Start`, after which the fields of the Runtime stay as
they are. A path is its depth below the first directory: joining a relative
`WorkDir` adds one.

`ServerSlot` says the same of the servers without calls and program points. Its
`Launch`, `Enter`, `Leave` and `Shut` are `StartServer`, `Publish`, a `TakeServer`
that finds a server, and `UnwindServer` or `StopServer`; a server has entered the
slot (`Entered`) when it is published or some Stop has taken it.

With `Serial` a host calls only when its last call has returned, like
`cmd/hub_server`; without it, any goroutine calls at any time, which the mutex
and the re-check in `Start` are there for.

### LayeredConfig and ConfigStore

One element of `Writers` is one call of `SetPersistent`. The steps are the read
lock section (`CloneLayer`), opening with truncation, writing, renaming, the
recovery from a failed rename (`RemovePath`, `RenameAgain`, `RemoveTmp`) and the
write lock section (`CommitLayer`). Names and files are kept apart: `path` and
`tmp` refer to files, `data` is what files contain, and a call writes to the file
it opened (`fd`) even after another call renamed it, as on a POSIX system. A
write over what another call has written since the truncation may leave a
mixture (`Torn`); a truncated file reads as an empty map (`loadConfigMap` accepts
an empty file); `RenameMayFail` allows a rename to fail for outside reasons. A write
that fails leaves nothing, a part (`Torn`) or all of the new content (`WriteFails`).
`Crash` ends the process between any two steps, `Load` is the next
`newLayeredConfig`, `LoadFails` its error on a file that does not parse.
`ConfigStore` has the stored map, the view and nothing in between. The history
variable `mayHold` has, for each key, the values a reader may find: the last
acknowledged one and those of calls that were interrupted. That only means
something for writers that come one after the other, and `Durable` is checked for
those.

### ParentWatch

The body of the goroutine that `HubRuntime` creates (`StartWatcher`) and ends
(`WatcherExits`), one step per point at which the world may have changed: the
select (`Tick`, `Exit`), `findParentConn` (`Find`, `FindNone`), the two halves of
`ensureConnNodeIDNonZero` (`KeepNodeID`, or `NodeIDMissing` and then
`SetNodeID`), `sendRegisterOnConn` (`SendRegister`, `SendFails`). `conn`,
`metaInit` and `registered` are the goroutine's locals; `lastConnID` is the ID of
`conn` and is not kept twice. The world is what the code cannot see: a connection
with the role parent appears and disappears (`Connect`, `Disconnect`), a handler
sets a node id (`AssignNodeID`), `watchCtx` is cancelled (`Cancel`). Of the core
server it is assumed that it has one parent connection at a time and that no two
of its connections have the same ID, which is what `lastRegisterConnID` compares.
`SetNodeID` may overwrite the id a handler has assigned since the read: the
comment at `runtime.go:407` allows any id but zero, and so does `NodeIDFirst`.

### ConfigRestart

The state is what one Runtime and its process know (`opts`, the layers), what the
caller gave (`given`, `marked`) and what outlives them (`file`). `RunCommand` is
`hub_server`, which marks what the environment or a flag gives and normalizes
before `New` normalizes again; `Embed` is a host that fills the struct itself.
`Start` is the composition the code makes of `explicitConfigDataFromOptions`, the
layers and `applyConfigToOptions`, with `r.opts` written back. Four keys stand
for all. `workers` is any of the seven numbers of the queues, `proc.*` and `send.*`: a
text that does not parse leaves the Options alone, a zero is the default unless it was
asked for, and a negative number passes through. `parent.reconnect_sec` has the same
rules, and besides it the only check of a sign (`Clamped`, `options.go:305`,
`layered_config.go:230`). The strings that have a default when they are empty
(`addr`, the roles) follow the rule of zero. `parent.addr` is `effectiveParentTarget`, one value for the two fields
`ParentEndpoint` and `ParentAddr`, and `parent.enable` depends on it. Values are
the strings of the configuration, after trimming: `Numbers` are those that parse to
a number and `Targets` the addresses, whatever they are; "negative" and "text" stand
for the texts that parse to a number below zero and to none.

### HubBoot

`HubRuntime` has one step, `StartServer`, for all that a `Start` does between
`LoadConfig` and `Publish`; `HubBoot` has the steps of it, for one hub whose host
makes one call at a time. `given` is what the caller put into the Options; `opts`
is `Runtime.opts` and `local` the copy that `Start` works on and writes back in
`Publish`. Both only have the two fields a `Start` may change besides the
configuration: the node id, and whether the certificate files are unset (`none`,
`half`), the caller's (`given`) or the development pair (`dev`).

The steps are those of the text: `KeepFiles`, `GeneratePair`, `WriteCert`,
`WriteKey` are `ensureQUICDevCertIfNeeded`, with each write failing before or after
it has truncated the file; `CheckParent` and then `TakeNodeID` or
`SelfRegisterFails` the self-registration, against a parent that assigns an id,
refuses or never answers (`ParentAnswers`); `Assemble` is `modules.DefaultHub` with
the choice of every backend; `RegisterNext`, `RegisterDefault`, `RegisterFails` are
`RegisterAll`, one handler at a time in the order of `Rank`; `StartServer`,
`BindNext` and `Publish` the rest. `StartFails` is any other error return. `Crash`
ends the process between any two steps; what it leaves is the two files. A pair is
known by its number (`made`), a file holds the half of a pair, is `Broken`, or
comes from a process that shares the directory (`Foreign`, `OtherWrites`): the
default directory is below `os.TempDir()`, a hub with a `WorkDir` has its own.
`answer` is kept until the Start returns, so that the properties can speak of it.
The configuration is read as a record with the texts of the backend keys, blank
ones included. A build is the set of modules compiled in.

### PGStore and DocStore

The three stores of `state_backends.go` (flow definitions, variables, archived
runs) have the same methods over a table each; `PGStore` is one of them. An
element of `Calls` is one call of `Save`, `Delete` or `LoadAll`, made by any
handler of any process; `pc` is where it is in `withPGConn` and its body, and
`session` what the server does for it. Client and server are separate because they
part: `GiveUp` is a broken connection, a done context or a process that ends, and
leaves a session that still executes what it was sent (`Execute`, `Fetch`) or
notices (`Drop`). `CheckTable` and `CreateTable` are the two halves of PostgreSQL's
`CREATE TABLE IF NOT EXISTS`. A document is named by the call that saved it;
`Unreadable` is a row that `LoadAll` cannot decode. The history variable `before`
has, for each call, the calls that had returned nil when it was made.

`DocStore` has one step in which a call acts and one in which it returns. The
mapping takes the points between `connect` and the return for "called", and a call
has acted when its session is `done`: this is what makes the calls atomic although
each is several messages.

## Runs

| Run | Instance | Shows |
|---|---|---|
| `hub_concurrent` | 2 Starts, 2 Stops, concurrent, no WorkDir, fair | types; every running server and every live watcher has exactly one owner that ends it (`OwnedServers`, `TakenOnce`, `WatcherOwned`, `OneWatcherPerServer`); a published server leaves only through a Stop (`LeavesThroughStop`), and the Runtime is a slot for one server (`ImplementsSlot`); unpublished servers are stopped (`UnpublishedSettles`); watchers leave a stopped server for good (`WatcherEnds`) |
| `hub_serial` | 3 Starts, 3 Stops, one at a time, no / relative / absolute WorkDir | the directory is restored unless a Chdir back failed (`CwdRestored`), and while a server is published it is the one the configuration came from (`ConfigDirStable`) |
| `hub_stop_loses` (violation) | 2 Starts, 1 Stop | a Start overtaken by a Stop publishes all the same |
| `config_serial` | 2 keys, 2 values, 2 calls one at a time, 2 crashes, write errors, fair | acknowledged values survive (`Durable`), a restart changes no answer (`RestartTransparent`), the whole implements `ConfigStore` (`ImplementsStore`), and a file that was replaced takes effect in memory (`TakesEffect`) |
| `config_concurrent` | 2 calls at once, failing renames, 1 crash | nothing unrequested is stored (`OnlyRequested`), types |
| `config_lost_update` (violation) | 2 calls at once | an acknowledged value is not stored; the shared temporary file may also leave the file empty or mixed |
| `parent_watch` | 3 connections, fair | no connection carries two registers (`RegisteredOnce`), none carries one before it has a node id (`NodeIDFirst`), no iteration works on nil; a connection that stays gets its register (`Registers`), a cancelled watcher ends (`Ends`) |
| `options_hold` | all kinds of input for 4 keys, all files, any sequence of calls and processes | what the caller asked for stays in force (`CallerWins`); a fresh process takes the rest from the file (`FreshRestores`); no text that is not a number gets into the Options, and no reconnect interval below zero (`TypeOK`) |
| `options_restart` (violation) | the same, plain stored values | the second Start of a Runtime ignores what was stored since the first |
| `options_target` (violation) | the same | a stored `parent.addr` does not enable the parent in the configuration |
| `hub_boot` | all kinds of Options, 2 builds, 18 configurations, 2 node ids, 2 certificates, own or shared directory, fair | files of the caller are never replaced (`TypeOK`); no half pair is trusted (`PairMatches`); one node id (`NodeIDAgrees`); no frame meets an incomplete dispatcher (`ServesComplete`); no silent fallback to another backend (`NoSilentFallback`); a Start returns although its parent is silent (`StartReturns`) |
| `pg_store` | 3 calls of any kind, 2 keys, any first table | the last acknowledged write is what the table holds (`LastAckedWins`); the race for the table ends with the first success (`SchemaSettled`); the calls are atomic (`ImplementsDocStore`); no `LoadAll` returns a row it could not decode |

The violation runs refute sentences of the repository's comments and documents;
`PROJECT.json` quotes them under `findings`. They need no more than
the interleaving of two calls, one Stop and one more Start, or a rename that fails.

Bounds. Ownership is about pairs: a Start against another Start, a Stop against
another Stop or a Start; `hub_concurrent` has two of each, and the proofs cover
every number. `WorkDir` does not matter to it, and is left empty there; the proofs
cover every value. `hub_serial` has safety properties only, and its calls are
interchangeable (symmetry). In `hub_serial` three rounds are enough for a Start after a
successful, a failed and a refused one. Two keys tell a lost key from an
overwritten one, two values an old from a new one; two crashes allow one during the
recovery from another. Three connections are enough to have a remembered one, the
one the watcher is at, and the one that is up. `ConfigRestart` has no bound but its
sets of values: `starts` only tells a first Start from a later one. `MaxPairs = 2`
in `hub_boot` gives a pair that was made by an earlier Start or process and one
made over it; the number of Starts that make none is not bounded. The
configurations of `hub_boot` are the defaults and each backend with each of its
values, usable or not, one or two keys at a time, because the choices are
independent of each other; the two builds have and lack the module of each backend.
Three calls in `pg_store` are a writer, another writer of its key, and one that
reads or races for the table; calls and keys are interchangeable (symmetry; all its
properties are safety). Runs of `LayeredConfig` never stop because `Set` is always
possible; runs of `HubRuntime` and `PGStore` end in `HostFinished` and `Finished`,
and in `HubBoot` a process may always crash, so that TLC's deadlock check finds any
call of `HubRuntime` and `PGStore` that gets stuck before.

Fairness. The abstract specifications have none: they say what may happen, and
the liveness properties are stated of the detailed ones. `HubRuntime!Fairness` and
`LayeredConfig!FairSpec` ask weak fairness of
every call that has begun and of a watcher whose context is cancelled: goroutines
are scheduled, and none of the modelled steps waits for another call (the mutex
is held only inside a step). That the host calls anything, or cancels, is never
assumed. External calls (listening, stopping a server) are assumed to return.
`ParentWatch!FairSpec` needs strong fairness twice. The select picks among the
cases that are ready, and after an iteration the ticker is not ready again for up
to 300 ms while a done context stays ready, so `Exit` is not passed over for ever.
And `SendRegister` is retried at every tick as long as it fails; a connection on
which every send fails is one the core closes, and `Registers` says nothing of it.
`HubBoot` asks weak fairness of the steps of the Start as a whole and none of the
parent's: `selfRegisterNodeID` gives up after 8 seconds (`runtime.go:474`), so that
`SelfRegisterFails` is possible from the moment the question is asked. `PGStore`
has no fairness: `withPGConn` sets no timeout of its own, and whether a call ever
returns is up to the context of the handler and to the server.

Each property has a mutant in `PROJECT.json`: a definition changed the way a
plausible slip would, which the run must then refute. The mutated forms stand
in the modules right before the definition they replace, marked `Mutant:`; where
both differ in a guard, a value or a program point only, they share a helper that
takes it as its parameter.

## Proofs

`HubRuntimeProofs` proves, for any sets of calls (finite or not), serial or
concurrent, and any initial `WorkDir`: `TypeOK`, `OwnedServers`, `TakenOnce`,
`WatcherOwned`, `OneWatcherPerServer` and the action property
`LeavesThroughStop`. The assumptions are those of `HubRuntime`: Starts and Stops
are different calls, the sentinel values are not calls or paths.

None of the invariants is inductive alone. `TypeOK` needs to know that a local is
set before it is used (`LocalsSet`: there is a directory when a Start enters it and
when a call goes back to it). `OwnedServers` needs `TakenOnce`,
because a Stop may only stop what no one else holds, and both need `PublishedAt`:
a published or taken server belongs to a Start that is past publication, and a
Stop that has not begun holds nothing. `WatcherOwned` needs `WatcherBound`: the
watcher that `parentWatchCancel` cancels was given the published server. `Inv` is
their conjunction; `TypedStep`, `OwnedStep` and `WatchedStep` prove it inductive
in three layers, with one case per action, and `OwnedFrame` and `WatchedFrame`
take the steps that leave a layer alone. TLC was run with `Inv` as an invariant
of the concurrent and of the serial instance before it was proved.

`ParentWatchProofs` proves `TypeOK`, `RegisteredOnce` and `NodeIDFirst` for any
set of connections, assuming only that the empty ID is none of them.
`RegisteredOnce` is not inductive: the watcher forgets everything when it finds no
parent, and what makes that harmless is that a connection that has carried a
register is then gone for good. `Remembered` says so, also for the time in which
the watcher is at a connection that has gone and another one is up.
`MetaInitialized` says that the connection whose meta is remembered as initialized
has a node id, which `NodeIDFirst` needs when the watcher skips the check. `Inv`
is the conjunction, `InvStep` has one case per action, and only `SendRegister`
needs an argument of several steps.

`HubBootProofs` proves the five safety properties of `hub_boot` for any Options,
builds, configurations, assigned ids and bound on the certificates.
The argument has three layers. `PairedStep`: a Start that writes a pair was given
no file, and until both are written the Options of the Runtime and of the Start do
not name them (`PairInProgress`); hence a broken half is never trusted, and a
crash in between forgets nothing but the Start. `AnswerStep`: the answer is in
`local` before anything is made of the node id, and `server` is taken from `local`
(`AnswerTaken`). `StagedStep`: backends, handlers, server, hooks come in this order,
and each is complete before the next begins (`Staged`). `ChosenAsNamed` computes
what the choice of a backend returns, for every configuration. `TypeOK` and
`PairMatches` are parts of the invariant, the other three follow from it.

`PGStoreProofs` proves the four properties of `pg_store` for any sets of calls and
keys. `CoupledStep` couples a call with its session: nil is returned only when the
server is done, rows are fetched only for a `LoadAll`, whoever is past the schema
has seen the table (`InStep`, `Answered`, `TableThere`). `LastAckedWins` is not
inductive, because the row changes before the call knows; `LastDone` says the same
from the moment the statement executes. Two steps matter to it and have proofs of
their own: a call that begins, and a statement that executes; the others keep it by
`LastDoneFrame`. `Refinement` shows that the initial state maps to one of
`DocStore` and that every step is the `Begin`, `Act`, `Return` or `Fail` of the call
that makes it, or changes nothing there (`StepMaps`).

`HubRuntimeProofs!Refinement` shows that `HubRuntime` implements `ServerSlot`,
concurrent or not. `SlotStep` finds for each step the step of the slot; beyond `Inv`
it needs that a Start has no server before it starts one (`NotMade`), so that no
server is started again after it was stopped. `WatchersServe` is the safety half of
the liveness property `WatcherEnds`: a watcher that was not told to end serves a
server that runs.

`HubSerialProofs` adds the assumption `Serial`, one call at a time, and proves
`CwdRestored` and `ConfigDirStable` for any number of calls and any `WorkDir`.
Neither says anything while a call works, so the invariant `SerialInv` follows the
call. `OneCall`: one call works, and nothing is published meanwhile but what it has
just published. `WayHome`: the first directory is the cwd, or in `workdirPrev`, or in
the local `prev` of the call that enters or leaves a `WorkDir`. `PrevTaken`: when
nothing is published and nothing on the way there, `workdirPrev` is empty, which is
what turns `WayHome` into `CwdRestored`. `LoadedHere`: the cwd does not change between
the load and the end of the publication. `MovesAlone` is the lemma under every case.

`LayeredConfigProofs` has two invariants. `Inv`, for any concurrent callers, crashes
and failing renames, says that whatever is copied, written, stored or committed was
requested (`CopiesRequested`) and that the first file is replaced and never written to
(`OriginalKept`); `TypeOK` and `OnlyRequested` follow. `SerialInv` assumes one caller
at a time and renames that work, which is what `Durable`, `RestartTransparent` and
`ImplementsStore` need (concurrent callers refute them, see `config_lost_update` and
the limits below): `OneWriter`; `NamesApart`, the temporary name and the path never
refer to one file, so that a write does not reach the stored one;
`WrittenThenRenamed`, what a call is about to rename is its whole map; `InMemory`, a
call's map is the layer in memory with its one key changed, and the file is either
that layer or, between rename and commit, that map; `MayFind`, what is stored is among
the values a reader may find. In `Refinement` the rename is `ConfigStore!Persist`, the
write lock section its `Acknowledge`, and everything else changes nothing there.

`ConfigRestartProofs` proves `TypeOK`, `CallerWins` and `FreshRestores` for any
numbers, addresses, inputs, files and overlays. Its lemmas are about what the code
does to values: `NormalizeValues` and `ApplyValues` (Options stay well formed:
numbers for the numeric ones, none below zero for the reconnect interval),
`NormalizeTwice` (the second `Normalize`, in `New`, changes nothing after that of
`hub_server`), `ExplicitSurvives` (a key that is explicit comes through the
configuration and back as it was, except for `parent.enable=false`). `CallerWins` is
not inductive, because a stopped Runtime has no layers and only its Options know what
was asked for: `AskedFor`. `FreshRestores` needs `FirstStart`: before the first Start
the Options hold nothing else.

The assumptions of all proofs are those that the modules name: sentinel values are not
among the values they stand beside, sets of inputs and stored values are of their
types. TLC evaluates every one of them, and was run with each of the inductive
invariants before it was proved.

Only model-checked: liveness (`UnpublishedSettles`, `WatcherEnds`, `Registers`,
`Ends`, `StartReturns`, `TakesEffect`), which the prover does not reach. Every other
property of a passing run is also a theorem.

## Known limits of the code

The models have these behaviours and no run checks a property against them:

* Two overlapping Starts with a `WorkDir` share `workdirPrev`: the second records
  the first one's directory as the way back, and after a Stop the process is not
  in its first directory. `CwdRestored` is therefore checked for hosts that make
  one call at a time.
* A Start that is overtaken by a Stop and another Start between `Publish` and
  `StartWatcher` gives its own configuration (hence its display name) to the
  watcher of the other server. `WatcherOwned` says only that the watcher belongs
  to that server.
* When the rename of the temporary file fails, `writeFileAtomic` removes the
  stored file before it tries again; if the second rename fails as well, what was
  stored is gone. `Durable` is checked with `RenameMayFail = FALSE`: a rename then
  fails only when there is no temporary file.
* Negative numbers of workers, channels and buffers pass through `Normalize` and
  `applyConfigToOptions` to the core server; what it makes of them is its own.
* A failed `Chdir` back is not tried again, since `workdirPrev` is cleared before it:
  the `stranded` of `CwdRestored`.
* A register whose send returned an error is sent again; if the error came after the
  frame had left, the parent gets two. `RegisteredOnce` assumes that it did not.
* `parent.enable=false`, given explicitly, yields to any target, stored or given:
  the exception in `CallerWins`.
* Two overlapping `SetPersistent` calls write to one temporary file, so the stored
  file may be empty or a mixture of both (`config_lost_update` quotes the promise
  of an atomic write).
* A `Save` or `Delete` that returned an error may still execute, and then undo a
  later one that was acknowledged: `LastAckedWins` speaks of writes that come
  before or are known to be done.
* One row that cannot be decoded makes every `LoadAll` of its table fail, and with
  it the start of the handler that loads it.
* The first calls of two processes may both find no table; the one that comes
  second fails, and nothing tries again (`SchemaSettled` bounds the time).
* Hubs that share the certificate directory below `os.TempDir()` overwrite each
  other's halves: `PairMatches` is stated for a directory of one's own. The paths of
  the pair stay in the Options of the Runtime, so its next Start makes no new pair
  even if the files are gone or another process's; the listener then refuses them.
* Every new process makes a new pair over an old one that is still good.
* Frames may arrive between `srv.Start` and the last `BindServer`; all handlers are
  registered by then (`ServesComplete`), but some do not know their server yet.
* Handlers that were initialized by a `RegisterAll` that fails half-way are
  forgotten, and not shut down.

## Not modelled

`lastErr` and `Status` (for display), logging, the wording of errors; the content
of frames, certificates and documents; listeners beyond whether there is one and
whether QUIC finds its pair; the RFCOMM Options; the handlers' own memory and files
(the built-in backends are values of an external library, and nil here); the core
server, the connection manager, the subprotocol handlers and self-registration's
exchange of frames (external); protocol type aliases (no behaviour); how the text of
the node-id flag becomes 32 bits; a loss of data the operating system had not
written (the crash modelled is the process's).

## Plan

Done: the life cycle, the stored configuration, the watcher, Options over restarts,
the boot and the PostgreSQL stores, each with the proofs of its safety properties, and
the three refinements (`ServerSlot`, `ConfigStore`, `DocStore`) with theirs. Left:

1. `ParentWatch` composed with `HubRuntime`: a watcher per server, cancelled by the
   Stop that takes it, so that no register goes out on a server that was stopped
   except by an iteration that had begun.
2. `HubBoot` shown to implement the `StartServer` of a serial `HubRuntime`.
3. What the two writers of `config_lost_update` are still promised: a statement of
   what concurrent calls may leave in the file, beyond `OnlyRequested`.
