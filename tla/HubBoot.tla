------------------------------- MODULE HubBoot -------------------------------
(***************************************************************************)
(* What a Start does between reading the configuration and publishing the  *)
(* server (src/hubruntime/runtime.go:112-265, which HubRuntime has as one  *)
(* step): the QUIC development certificate (quic_dev_cert.go), the node id *)
(* the parent assigns, the choice of backends (state_backends.go), the     *)
(* assembly of the handlers (modules/hub.go) and the start of the server,  *)
(* over any sequence of Starts, Stops and processes of one hub.  A host    *)
(* that calls one Start at a time is assumed; HubRuntime is about others.  *)
(*                                                                         *)
(* The certificate and the key are files in WorkDir, or in a directory     *)
(* below os.TempDir() that all processes of the machine share.             *)
(***************************************************************************)
EXTENDS Naturals

CONSTANTS
  Inputs,   \* the Options a process may be given
  Builds,   \* the sets of modules that may be compiled in
  SubProto, \* the number of the subprotocol that each module handles
  Configs,  \* what a configuration may say of the backends
  Ids,      \* the node ids a parent assigns
  MaxPairs, \* bound: no Start is made when this many certificates were made
  Nil,      \* nothing: no file, no server, no answer
  Broken,   \* a file that was truncated and not, or not fully, written
  Foreign   \* a file of the pair that another process writes

Parents == {"none", "tcp", "rfcomm", "quic", "noHost", "otherScheme"}
Files   == {"none", "half", "given", "dev"}
Stores  == {"flow", "varstore", "archive"}
Texts   == {"", "json", "memory", "off", "file", "pg", "unknown"}
Pairs   == 1..MaxPairs

\* The order in which DefaultHub makes the handlers, and RegisterAll and
\* BindServerHooks go through them.
Rank == [management |-> 1, auth |-> 2, varstore |-> 3, topicbus |-> 4, exec |-> 5,
         flow |-> 6, file |-> 7, stream |-> 8]
Modules == DOMAIN Rank

\* node: Options.NodeID; files: which of QUICCertFile and QUICKeyFile are set.
InputType == [node : Ids \cup {0}, files : Files \ {"dev"}, quic : BOOLEAN,
              auto : BOOLEAN, selfID : BOOLEAN, other : BOOLEAN]
ConfigType == [flow : Texts, varstore : Texts, archive : Texts, legacy : BOOLEAN,
               dsn : BOOLEAN, badTable : Stores \cup {Nil}]

ASSUME BootAssumption ==
  /\ Inputs \subseteq InputType /\ Configs \subseteq ConfigType
  /\ Builds \subseteq SUBSET Modules /\ SubProto \in [Modules -> 0..255]
  /\ Ids \subseteq Nat \ {0} /\ MaxPairs \in Nat
  /\ {Nil, Broken, Foreign} \cap Nat = {} /\ Nil \notin Configs

VARIABLES
  given,      \* the Options of the caller, the same for every process
  build,      \* the modules compiled in
  shared,     \* whether other processes use the certificate directory
  certFile, keyFile, \* the two files there
  made,       \* the number of pairs made by this hub
  pc,         \* where the Start is
  opts,       \* Runtime.opts, as far as a Start may change it
  local,      \* the local opts of Start
  answer,     \* what the parent answered to self-registration; 0 refuses
  conf,       \* the configuration the handlers were made from
  registered, \* the handlers the dispatcher has
  fallback,   \* whether it has the default handler
  bound,      \* the handlers that know their server
  server      \* the node id of the running server

env       == <<given, build, shared>>
disk      == <<certFile, keyFile, made>>
assembly  == <<conf, registered, fallback, bound>>
vars == <<env, disk, pc, opts, local, answer, assembly, server>>

Given == [node |-> given.node, files |-> given.files]

StartPoints == {"cert", "writeCert", "writeKey", "parent", "assign", "assemble",
                "register", "listen", "bind", "publish"}

Init ==
  /\ given \in Inputs /\ build \in Builds /\ shared \in BOOLEAN
  /\ certFile = Nil /\ keyFile = Nil /\ made = 0
  /\ pc = "idle" /\ opts = Given /\ local = Given
  /\ conf = Nil /\ registered = {} /\ fallback = FALSE /\ bound = {}
  /\ answer = Nil /\ server = Nil

Goto(from, to) == pc = from /\ pc' = to

\* Start returns an error, Stop has stopped the server, or the process is gone:
\* the dispatcher with its handlers, and all locals, are forgotten.
Return(kept) ==
  /\ pc' = "idle" /\ opts' = kept /\ local' = kept
  /\ conf' = Nil /\ registered' = {} /\ fallback' = FALSE /\ bound' = {}
  /\ answer' = Nil /\ server' = Nil
  /\ UNCHANGED env

-----------------------------------------------------------------------------
\* The certificate

\* The Start has read its configuration.
BeginStart ==
  /\ made < MaxPairs
  /\ Goto("idle", "cert")
  /\ UNCHANGED <<env, disk, opts, local, answer, assembly, server>>

NeedsPair == given.quic /\ given.auto

\* ensureQUICDevCertIfNeeded has nothing to do, or both files were given, by the
\* caller or by an earlier Start of this Runtime.
KeepFiles ==
  /\ NeedsPair => local.files \in {"given", "dev"}
  /\ Goto("cert", "parent")
  /\ UNCHANGED <<env, disk, opts, local, answer, assembly, server>>

GenerateFor(files, point) ==
  /\ NeedsPair /\ local.files \in files
  /\ Goto("cert", point)
  /\ made' = made + 1
  /\ UNCHANGED <<env, certFile, keyFile, opts, local, answer, assembly, server>>

\* Mutants: a pair is made although the caller gave one, or one of its files; a
\* certificate that is there already is not written again.
GenerateAlways == GenerateFor(Files, "writeCert")
GenerateOver ==
  GenerateFor({"none"}, IF certFile = Nil THEN "writeCert" ELSE "writeKey")
\* generateSelfSignedQUICDevCert and MkdirAll.
GeneratePair == GenerateFor({"none"}, "writeCert")

WriteCert ==
  /\ Goto("writeCert", "writeKey")
  /\ certFile' = made
  /\ UNCHANGED <<env, keyFile, made, opts, local, answer, assembly, server>>

\* os.WriteFile fails before or after it has truncated the file.
WriteCertFails ==
  /\ pc = "writeCert"
  /\ certFile' \in {certFile, Broken}
  /\ Return(opts) /\ UNCHANGED <<keyFile, made>>

\* Both are written: the paths go into the Options of this Start.
WriteKey ==
  /\ Goto("writeKey", "parent")
  /\ keyFile' = made
  /\ local' = [local EXCEPT !.files = "dev"]
  /\ UNCHANGED <<env, certFile, made, opts, answer, assembly, server>>

WriteKeyFails ==
  /\ pc = "writeKey"
  /\ keyFile' \in {keyFile, Broken}
  /\ Return(opts) /\ UNCHANGED <<certFile, made>>

\* Another process starts in the same directory.
OtherWrites ==
  /\ shared
  /\ \/ certFile' = Foreign /\ UNCHANGED keyFile
     \/ keyFile' = Foreign /\ UNCHANGED certFile
  /\ UNCHANGED <<env, made, pc, opts, local, answer, assembly, server>>

-----------------------------------------------------------------------------
\* The node id

\* parseParentEndpoint: a scheme there is a dialer for (none is tcp), and a host.
Parses(p) == p \in {"tcp", "rfcomm", "quic"}

\* The configuration has no parent, or one with an endpoint that parses; with an
\* identity of its own the hub asks the parent for its node id.
CheckParent ==
  /\ \E p \in Parents :
       /\ p = "none" \/ Parses(p)
       /\ Goto("parent", IF p # "none" /\ given.selfID THEN "assign" ELSE "assemble")
  /\ UNCHANGED <<env, disk, opts, local, answer, assembly, server>>

ParentAnswers ==
  /\ pc = "assign" /\ answer = Nil
  /\ answer' \in Ids \cup {0}
  /\ UNCHANGED <<env, disk, pc, opts, local, assembly, server>>

Assigned(kept) ==
  /\ answer \in Ids /\ Goto("assign", "assemble")
  /\ local' = [local EXCEPT !.node = kept]
  /\ UNCHANGED <<env, disk, opts, answer, assembly, server>>

\* Mutant: a node id that is configured is kept.
KeepNodeID == Assigned(IF local.node = 0 THEN answer ELSE local.node)
\* The id the parent assigns overrides any other.
TakeNodeID == Assigned(answer)

\* Mutant: without the timeout, only an answer ends the exchange.
SelfRegisterRefused ==
  pc = "assign" /\ answer = 0 /\ Return(opts) /\ UNCHANGED disk
\* The parent refuses or assigns 0, the link fails, or 8 seconds have passed, even
\* if the answer is on its way.
SelfRegisterFails ==
  pc = "assign" /\ Return(opts) /\ UNCHANGED disk

-----------------------------------------------------------------------------
\* The handlers

\* backendValue: texts are trimmed and in lower case; a blank one is the default.
BackendValue(text, def) == IF text = "" THEN def ELSE text

\* flowRunArchiveBackendValue: flow.run_archive_enabled counts when no backend is
\* named.
ArchiveValue(c) == BackendValue(c.archive, IF c.legacy THEN "file" ELSE "off")

Builtin(s) ==
  CASE s = "flow" -> {"json"} [] s = "varstore" -> {"memory"}
    [] s = "archive" -> {"off", "file"}

ValueOf(s, c) ==
  CASE s = "flow" -> BackendValue(c.flow, "json")
    [] s = "varstore" -> BackendValue(c.varstore, "memory")
    [] s = "archive" -> ArchiveValue(c)

\* newPG...: a data source name that parses and a table name that is one.
PGUsable(s, c) == c.dsn /\ c.badTable # s

\* Mutant: a backend that cannot be made is left to the handler's own.
PersistenceLenient(s, c) ==
  IF ValueOf(s, c) = "pg" /\ PGUsable(s, c) THEN "pg" ELSE "builtin"
\* newFlowPersistence, newVarStorePersistence, newFlowRunArchiveStore: nil leaves
\* the handler to its own.
Persistence(s, c) ==
  IF ValueOf(s, c) \in Builtin(s) THEN "builtin"
  ELSE IF ValueOf(s, c) = "pg" /\ PGUsable(s, c) THEN "pg" ELSE "error"

\* A module that is not compiled in asks for no backend.
StoresUsed == {s \in Stores : (IF s = "varstore" THEN s ELSE "flow") \in build}

\* The default set; management is in every build.
Handlers == build \cup {"management"}

\* The handler that a loop comes to after those it has done.
Following(done, m) ==
  m \in Handlers \ done /\ \A n \in Handlers \ done : Rank[m] <= Rank[n]

\* validateSet: at least one handler, and no two of one subprotocol.
ValidSet(set) ==
  set # {} /\ \A m, n \in set : SubProto[m] = SubProto[n] => m = n

\* DefaultHub makes the handlers, or returns the error of a backend.
Assemble ==
  /\ Goto("assemble", "register")
  /\ conf' \in Configs
  /\ \A s \in StoresUsed : Persistence(s, conf') # "error"
  /\ ValidSet(Handlers)
  /\ UNCHANGED <<env, disk, opts, local, answer, registered, fallback, bound, server>>

\* RegisterAll: RegisterHandler initializes the next handler.
RegisterNext ==
  /\ pc = "register"
  /\ \E m \in Handlers : /\ Following(registered, m)
                         /\ registered' = registered \cup {m}
  /\ UNCHANGED <<env, disk, pc, opts, local, answer, conf, fallback, bound, server>>

\* RegisterAll: the default handler comes last.
RegisterFallback ==
  /\ Goto("register", "listen")
  /\ fallback' = TRUE
  /\ UNCHANGED <<env, disk, opts, local, answer, conf, registered, bound, server>>

RegisterDefault == registered = Handlers /\ RegisterFallback

\* Mutant: the error ends the loop and is not returned.
RegisterBreaks == registered # Handlers /\ RegisterFallback
\* A handler cannot be initialized: the Start fails with some of them registered.
RegisterFails ==
  /\ pc = "register" /\ registered # Handlers
  /\ Return(opts) /\ UNCHANGED disk

-----------------------------------------------------------------------------
\* The server

DevPairMatches == certFile = keyFile /\ certFile \in Pairs \cup {Foreign}

\* The QUIC listener loads the pair it was given the paths of.
ListenersReady ==
  /\ given.quic \/ given.other
  /\ given.quic => \/ local.files = "given"
                   \/ local.files = "dev" /\ DevPairMatches

\* From here on frames reach the dispatcher.
StartServer ==
  /\ ListenersReady /\ Goto("listen", "bind")
  /\ server' = local.node
  /\ UNCHANGED <<env, disk, opts, local, answer, assembly>>

\* BindServerHooks gives each handler the server.
BindNext ==
  /\ pc = "bind"
  /\ \E m \in Handlers : Following(bound, m) /\ bound' = bound \cup {m}
  /\ UNCHANGED <<env, disk, pc, opts, local, answer, conf, registered, fallback,
                 server>>

Bound ==
  /\ bound = Handlers /\ Goto("bind", "publish")
  /\ UNCHANGED <<env, disk, opts, local, answer, assembly, server>>

\* The Runtime keeps the Options of this Start: the node id and the file names.
Publish ==
  /\ Goto("publish", "up")
  /\ opts' = local
  /\ UNCHANGED <<env, disk, local, answer, assembly, server>>

\* No randomness, no directory, half a pair, a malformed endpoint, a backend that
\* cannot be made, no listener, an address in use, a pair that does not match.
StartFails ==
  /\ pc \in {"cert", "parent", "assemble", "listen"}
  /\ Return(opts) /\ UNCHANGED disk

Stop == pc = "up" /\ Return(opts) /\ UNCHANGED disk

\* The process ends at any moment; the next one is given the same Options.
Crash == Return(Given) /\ UNCHANGED disk

-----------------------------------------------------------------------------
StartStep ==
  \/ KeepFiles \/ GeneratePair \/ WriteCert \/ WriteCertFails \/ WriteKey
  \/ WriteKeyFails \/ CheckParent \/ TakeNodeID \/ SelfRegisterFails \/ Assemble
  \/ RegisterNext \/ RegisterDefault \/ RegisterFails \/ StartServer \/ BindNext
  \/ Bound \/ Publish \/ StartFails

Next == BeginStart \/ StartStep \/ Stop \/ Crash \/ ParentAnswers \/ OtherWrites

\* Start runs until it returns; that the parent ever answers is not assumed.
Spec == Init /\ [][Next]_vars /\ WF_vars(StartStep)

-----------------------------------------------------------------------------
FilesOfUse ==
  {given.files} \cup (IF NeedsPair /\ given.files = "none" THEN {"dev"} ELSE {})

\* Every field and local has a value of its type; the certificate files are the
\* caller's, or the development pair for a caller who asked for it and gave none.
TypeOK ==
  /\ given \in Inputs /\ build \in Builds /\ shared \in BOOLEAN
  /\ {certFile, keyFile} \subseteq Pairs \cup {Nil, Broken, Foreign}
  /\ made \in 0..MaxPairs
  /\ pc \in StartPoints \cup {"idle", "up"}
  /\ {opts, local} \subseteq [node : Ids \cup {given.node}, files : FilesOfUse]
  /\ answer \in Ids \cup {0, Nil}
  /\ conf \in Configs \cup {Nil}
  /\ registered \cup bound \subseteq Handlers /\ fallback \in BOOLEAN
  /\ server \in Ids \cup {0, Nil}

\* No frame reaches a dispatcher that lacks a handler (hub.go:54, runtime.go:250):
\* while a server runs, every handler and the default one are registered, and when
\* Start has returned nil every handler knows the server it serves.
ServesComplete ==
  /\ server # Nil => registered = Handlers /\ fallback
  /\ pc = "up" => bound = Handlers

\* A hub whose certificate directory is its own never trusts half a pair: wherever
\* its Options name the development files, certificate and key belong together,
\* whatever write failed, whenever the process ended and however often it started
\* (quic_dev_cert.go:60).
PairMatches ==
  ~shared /\ "dev" \in {opts.files, local.files} => DevPairMatches

\* A hub is known under one node id: the server, the Options that Status reports
\* and, if it asked in this Start, the parent agree on it, also when it was
\* configured or assigned another one before (runtime.go:147).
NodeIDAgrees ==
  pc = "up" => /\ server = opts.node
               /\ answer # Nil => server = answer /\ server # 0

\* No silent fallback (docs/specs/varstore.md:95): a hub that serves keeps its
\* state where the configuration says, in PostgreSQL if and only if asked to.
NoSilentFallback ==
  server # Nil =>
    \A s \in StoresUsed :
      /\ conf[s] \in Builtin(s) \cup {"", "pg"}
      /\ Persistence(s, conf) = "pg" <=> conf[s] = "pg"

\* A Start returns even if the parent never answers (runtime.go:474).
StartReturns == pc \in StartPoints ~> pc \in {"idle", "up"}
-----------------------------------------------------------------------------
\* What the properties rest on, proved with them in HubBootProofs

Serving == {"bind", "publish", "up"}

\* Until its pair is written, a Start works with the Options of the Runtime; the
\* key is written next to the certificate it was made with.
PairInProgress ==
  /\ pc \in {"idle", "cert", "writeCert", "writeKey", "up"} => local = opts
  /\ pc = "cert" => made < MaxPairs
  /\ pc \in {"writeCert", "writeKey"} =>
       NeedsPair /\ local.files = "none" /\ made \in Pairs
  /\ pc = "writeKey" /\ ~shared => certFile = made

\* What the parent answers is taken before anything is made of the node id.
AnswerTaken ==
  /\ pc \in {"idle", "cert", "writeCert", "writeKey", "parent"} => answer = Nil
  /\ pc \in {"assemble", "register", "listen"} \cup Serving /\ answer # Nil =>
       local.node = answer /\ answer # 0
  /\ pc \in Serving => server = local.node

\* The backends are settled first, then the handlers are registered, then the
\* server runs, then the handlers are bound.
Staged ==
  /\ server # Nil <=> pc \in Serving
  /\ pc \in {"register", "listen"} \cup Serving =>
       conf \in Configs /\ \A s \in StoresUsed : Persistence(s, conf) # "error"
  /\ pc \in {"listen"} \cup Serving => registered = Handlers /\ fallback
  /\ pc \in {"publish", "up"} => bound = Handlers

\* The inductive invariant.
Inv == TypeOK /\ PairInProgress /\ PairMatches /\ AnswerTaken /\ Staged

=============================================================================
