----------------------------- MODULE ConfigRestart -----------------------------
(***************************************************************************)
(* Options and configuration over the life of a hub: what the caller gives *)
(* (environment, flags, struct fields) becomes Options; every Start turns  *)
(* the Options of the Runtime into the explicit layer, lays it over the    *)
(* stored file, and writes the result back into the Options of the Runtime *)
(* (src/hubruntime/options.go, layered_config.go, cmd/hub_server/main.go). *)
(* One process may start and stop one Runtime many times.                  *)
(*                                                                         *)
(* Four keys stand for all.  "workers" stands for the seven numbers of the *)
(* queues, proc and send: a text that does not parse, zero that means the *)
(* default unless it was asked for, and a sign that nobody looks at.       *)
(* parent.reconnect_sec is the one number that is never below zero.        *)
(* parent.addr stands for the strings, and parent.enable depends on it.    *)
(* A call of SetPersistent is one step here: LayeredConfig has its parts,  *)
(* and while it is alone the persistent layer is the file.                 *)
(***************************************************************************)
EXTENDS Naturals

CONSTANTS
  Given,     \* what a caller may give for each key: [Keys -> sets of values]
  Stored,    \* what the file may hold for each key, Absent aside
  Overrides, \* the values that Set may lay over each key
  Numbers,   \* the texts that parse to a number, not below zero
  Targets,   \* the addresses a parent may have, "" for none
  NotGiven,  \* the caller says nothing of a key
  Absent     \* a layer does not have a key

Keys == {"reconnect", "workers", "target", "enable"}

\* DefaultOptions.
Default == [reconnect |-> "3", workers |-> "8", target |-> "", enable |-> "false"]
Empty   == [k \in Keys |-> Absent]

\* "negative" stands for the texts of numbers below zero, "text" for no number.
ASSUME ValuesAssumption ==
  /\ {"0", "3", "8"} \subseteq Numbers /\ {"negative", "text"} \cap Numbers = {}
  /\ "" \in Targets
  /\ Absent \notin Numbers \cup Targets \cup {"negative", "true", "false"}
ASSUME GivenAssumption ==
  /\ Given.reconnect \subseteq Numbers \cup {NotGiven, "negative"}
  /\ Given.workers \subseteq Numbers \cup {NotGiven, "negative"}
  /\ Given.target \subseteq Targets \cup {NotGiven}
  /\ Given.enable \subseteq {NotGiven, "true", "false"}
ASSUME StoredAssumption ==
  /\ Stored.reconnect \subseteq Numbers \cup {"negative", "text"}
  /\ Stored.workers \subseteq Numbers \cup {"negative", "text"}
  /\ Stored.target \subseteq Targets
  /\ \A k \in Keys : Absent \notin Stored[k] \cup Overrides[k]

\* The maps that have for each key a value of S[k], or do not have it.
Layers(S) == {m \in [Keys -> UNION {S[k] \cup {Absent} : k \in Keys}] :
                \A k \in Keys : m[k] \in S[k] \cup {Absent}}

VARIABLES
  process,   \* a process runs, with a Runtime
  given,     \* what its caller gave
  marked,    \* ConfigOverrideKeys: the keys said to be explicit
  opts,      \* the Options of the Runtime
  started,   \* the Runtime is started
  explicit,  \* the layer explicit of its configuration
  overlay,   \* the layer runtime of its configuration
  file,      \* config/runtime_config.json, and the layer persistent
  starts     \* history: 0, 1 or more (2) Starts of this Runtime

config == <<explicit, overlay>>
caller == <<given, marked>>
vars == <<process, caller, opts, started, config, file, starts>>

-----------------------------------------------------------------------------
\* Options

GivenKeys(in) == {k \in Keys : in[k] # NotGiven}

\* DefaultOptionsFromEnv and the flags: what is not given has its default.
FromCaller(in) == [k \in Keys |-> IF in[k] = NotGiven THEN Default[k] ELSE in[k]]

\* The sign is looked at for parent.reconnect_sec alone.
Clamped(n) == IF n = "negative" THEN "0" ELSE n

\* Options.Normalize: a target enables the parent; zero is the default unless it
\* was asked for.  A negative reconnect becomes a zero that nothing replaces, a
\* negative number of the queues stays what it is.
Normalize(o, m) ==
  LET NonZero(k) == IF o[k] = "0" /\ k \notin m THEN Default[k] ELSE o[k]
  IN  [o EXCEPT !.enable = IF o.target # "" THEN "true" ELSE @,
                !.reconnect = Clamped(NonZero("reconnect")),
                !.workers = NonZero("workers")]

\* Mutant: a marked key with its default value is not kept.
DiffersOnly(o, m) == [k \in Keys |-> IF o[k] # Default[k] THEN o[k] ELSE Absent]

\* Mutant: everything in the Options is kept.
KeepAll(o, m) == o

\* explicitConfigDataFromOptions: a key is explicit when it was marked, or its
\* value is not the default one.
ExplicitOf(o, m) ==
  [k \in Keys |-> IF k \in m \/ o[k] # Default[k] THEN o[k] ELSE Absent]

\* parseIntValue, which keeps the sign, and what is made of it for reconnect;
\* parseBoolValue.
ParseInt(raw, default)     == IF raw = "text" THEN default ELSE raw
ParseSeconds(raw, default) == Clamped(ParseInt(raw, default))
ParseBool(raw, default) == IF raw \in {"true", "false"} THEN raw ELSE default

\* applyConfigToOptions: the configuration goes back into the Options, and a
\* target enables the parent once more.
Apply(o, effective) ==
  [reconnect |-> ParseSeconds(effective.reconnect, o.reconnect),
   workers   |-> ParseInt(effective.workers, o.workers),
   target    |-> effective.target,
   enable    |-> IF effective.target # "" THEN "true"
                 ELSE ParseBool(effective.enable, o.enable)]

\* recomputeLocked: the last layer that has the key decides.
Lookup(k, exp, over) ==
  IF over[k] # Absent THEN over[k]
  ELSE IF exp[k] # Absent THEN exp[k]
  ELSE IF file[k] # Absent THEN file[k] ELSE Default[k]
Get(k) == Lookup(k, explicit, overlay)

-----------------------------------------------------------------------------
Init ==
  /\ process = FALSE /\ started = FALSE
  /\ given = [k \in Keys |-> NotGiven] /\ marked = {} /\ opts = Default
  /\ explicit = Empty /\ overlay = Empty
  /\ file \in Layers(Stored)
  /\ starts = 0

\* A process with a Runtime: New normalizes what it is given.
NewRuntime(in, m, o) ==
  /\ ~process /\ process' = TRUE
  /\ given' = in /\ marked' = m
  /\ opts' = Normalize(o, m)
  /\ starts' = 0
  /\ UNCHANGED <<started, config, file>>

\* hub_server marks every key the environment or a flag gives, and calls
\* Normalize itself before New does.
RunCommand(in) ==
  NewRuntime(in, GivenKeys(in), Normalize(FromCaller(in), GivenKeys(in)))

\* An embedding host fills the struct and marks the keys it wants.
Embed(in, m) == m \subseteq GivenKeys(in) /\ NewRuntime(in, m, FromCaller(in))

\* Start, once it succeeds: the Runtime keeps the Options with the configuration
\* written into them.  (A Start that fails changes a copy of them only.)
Start ==
  /\ process /\ ~started /\ started' = TRUE
  /\ explicit' = ExplicitOf(opts, marked) /\ overlay' = Empty
  /\ opts' = Apply(opts, [k \in Keys |-> Lookup(k, explicit', Empty)])
  /\ starts' = IF starts = 0 THEN 1 ELSE 2
  /\ UNCHANGED <<process, caller, file>>

Stop ==
  /\ started /\ started' = FALSE
  /\ explicit' = Empty /\ overlay' = Empty
  /\ UNCHANGED <<process, caller, opts, file, starts>>

SetPersistent(k, v) ==
  /\ started
  /\ file' = [file EXCEPT ![k] = v]
  /\ UNCHANGED <<process, caller, opts, started, config, starts>>

Set(k, v) ==
  /\ started
  /\ overlay' = [overlay EXCEPT ![k] = v]
  /\ UNCHANGED <<process, caller, opts, started, explicit, file, starts>>

\* The process ends, started or not; another one may follow.
Exit ==
  /\ process /\ process' = FALSE /\ started' = FALSE
  /\ given' = [k \in Keys |-> NotGiven] /\ marked' = {} /\ opts' = Default
  /\ explicit' = Empty /\ overlay' = Empty
  /\ starts' = 0
  /\ UNCHANGED file

Inputs == {in \in [Keys -> UNION {Given[k] : k \in Keys}] :
             \A k \in Keys : in[k] \in Given[k]}

Next ==
  \/ ~process /\ \E in \in Inputs :
       RunCommand(in) \/ \E m \in SUBSET Keys : Embed(in, m)
  \/ Start \/ Stop \/ Exit
  \/ \E k \in Keys : \/ \E v \in Stored[k] : SetPersistent(k, v)
                     \/ \E v \in Overrides[k] : Set(k, v)

Spec == Init /\ [][Next]_vars

-----------------------------------------------------------------------------
\* What the caller asked for, and whether it overrules the file for a key.
Wanted == Normalize(FromCaller(given), marked)
Overruled(k) == k \in marked \/ Wanted[k] # Default[k]

\* The keys the Runtime has to obey the caller in, whatever else is stored: all it
\* was told about, but parent.enable=false yields to a target.
Firm(k) == Overruled(k) /\ ~(k = "enable" /\ Wanted[k] = "false")

\* The Options that Normalize and the projections may leave.
Options == [reconnect : Numbers, workers : Numbers \cup {"negative"},
            target : Targets, enable : {"true", "false"}]

\* Options and layers hold what their Go types, Normalize and the projections
\* allow: whatever is given or stored, a text that is no number never gets into
\* the Options, and parent.reconnect_sec is not below zero (the numbers of the
\* queues may be).
TypeOK ==
  /\ process \in BOOLEAN /\ started \in BOOLEAN /\ (started => process)
  /\ marked \subseteq GivenKeys(given)
  /\ opts \in Options
  /\ file \in Layers(Stored) /\ overlay \in Layers(Overrides)
  /\ starts \in 0..2

\* "Explicit env / flag overrides go on holding down the persistent layer" (change
\* document of the layered configuration, line 91), over any number of restarts of
\* the Runtime and whatever is stored meanwhile; only parent.enable=false yields.
CallerWins ==
  started => \A k \in Keys :
    Firm(k) => opts[k] = Wanted[k] /\ (overlay[k] = Absent => Get(k) = Wanted[k])

\* In a fresh process, what the file holds is in force for every key the caller
\* left alone, also for what SetPersistent stores while the hub runs, and nothing
\* of an earlier process or of its runtime overlay is.
FreshRestores ==
  started /\ starts = 1 => \A k \in Keys :
    ~Overruled(k) /\ overlay[k] = Absent =>
      Get(k) = IF file[k] = Absent THEN Default[k] ELSE file[k]

-----------------------------------------------------------------------------
\* What the properties above rest on, proved with them in ConfigRestartProofs

\* Its Options keep what was asked for, restart after restart, and the explicit
\* layer has it while the Runtime is started.
AskedFor ==
  process => /\ given \in Inputs
             /\ \A k \in Keys : Firm(k) =>
                  opts[k] = Wanted[k] /\ (started => explicit[k] = Wanted[k])

\* Before its first Start nothing but what was asked for is in them, so that the
\* explicit layer of that Start has nothing else.
FirstStart ==
  process =>
    /\ starts = 0 => ~started /\ opts = Wanted
    /\ starts = 1 /\ started => \A k \in Keys : ~Overruled(k) => explicit[k] = Absent

\* The inductive invariant.
Inv == TypeOK /\ AskedFor /\ FirstStart

-----------------------------------------------------------------------------
\* What documents of the repository say

\* After a restart the hub recovers what is stored (change document, line 25): also
\* when it is the Runtime that is restarted, not the process.
RestartRestores ==
  started => \A k \in Keys \ {"enable"} :
    ~Overruled(k) /\ overlay[k] = Absent /\ file[k] # Absent => Get(k) = file[k]

\* "parent target => parent enable", so that a stored parent.addr does not silently
\* stay without effect after a restart (change document, line 40): the server takes
\* both from the configuration.
TargetEnables ==
  [][~started /\ started' /\ Get("target")' # "" => Get("enable")' = "true"]_vars

=============================================================================
