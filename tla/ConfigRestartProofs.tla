-------------------------- MODULE ConfigRestartProofs --------------------------
(***************************************************************************)
(* Proofs about ConfigRestart for any inputs, numbers, addresses, files    *)
(* and runtime overlays: the Options stay well formed, what the caller     *)
(* asked for stays in force over every restart of the Runtime, and a fresh *)
(* process has everything else from the file.  Most of it is about what    *)
(* the projections between Options and configuration do, stated first.     *)
(***************************************************************************)
EXTENDS ConfigRestart, TLAPS

\* What a caller gives becomes, with the defaults, a value for every key.
LEMMA FromCallerValues ==
  ASSUME NEW in \in Inputs
  PROVE  /\ FromCaller(in).reconnect \in Numbers \cup {"negative"}
         /\ FromCaller(in).workers \in Numbers \cup {"negative"}
         /\ FromCaller(in).target \in Targets
         /\ FromCaller(in).enable \in {"true", "false"}
         /\ FromCaller(in) = [k \in Keys |-> FromCaller(in)[k]]
<1>1. \A k \in Keys : in[k] \in Given[k]
  BY DEF Inputs
<1> QED BY <1>1, ValuesAssumption, GivenAssumption DEF FromCaller, Default, Keys

\* Normalize makes Options of them.
LEMMA NormalizeValues ==
  ASSUME NEW in \in Inputs, NEW m
  PROVE  /\ Normalize(FromCaller(in), m) \in Options
         /\ \A k \in Keys : Normalize(FromCaller(in), m)[k] # Absent
<1>1. /\ FromCaller(in).reconnect \in Numbers \cup {"negative"}
      /\ FromCaller(in).workers \in Numbers \cup {"negative"}
      /\ FromCaller(in).target \in Targets
      /\ FromCaller(in).enable \in {"true", "false"}
      /\ FromCaller(in) = [k \in Keys |-> FromCaller(in)[k]]
  BY FromCallerValues
<1> DEFINE from == FromCaller(in)
           norm == Normalize(from, m)
<1>2. norm.reconnect \in Numbers
  BY <1>1, ValuesAssumption DEF Normalize, Clamped, Default, Keys
<1>3. norm.workers \in Numbers \cup {"negative"}
  BY <1>1, ValuesAssumption DEF Normalize, Default, Keys
<1>4. norm.target \in Targets /\ norm.enable \in {"true", "false"}
  BY <1>1 DEF Normalize, Keys
<1>5. norm = [k \in Keys |-> norm[k]]
  BY <1>1 DEF Normalize, Keys
<1> HIDE DEF norm
<1>6. norm \in Options
  BY <1>2, <1>3, <1>4, <1>5 DEF Options, Keys
<1>7. \A k \in Keys : norm[k] # Absent
  BY <1>2, <1>3, <1>4, ValuesAssumption DEF Keys
<1> QED BY <1>6, <1>7 DEF norm

\* hub_server normalizes what it marked itself, and New once more: the second time
\* changes nothing.
LEMMA NormalizeTwice ==
  ASSUME NEW in \in Inputs
  PROVE  LET m == GivenKeys(in)
             once == Normalize(FromCaller(in), m)
         IN  Normalize(once, m) = once
<1> DEFINE m == GivenKeys(in)
           from == FromCaller(in)
           once == Normalize(from, m)
           twice == Normalize(once, m)
<1>1. /\ from = [k \in Keys |-> from[k]]
      /\ from.reconnect \in Numbers \cup {"negative"}
      /\ from.workers \in Numbers \cup {"negative"}
      /\ "reconnect" \notin m => from.reconnect = "3"
  BY FromCallerValues DEF FromCaller, GivenKeys, Default, Keys
<1>2. /\ once = [k \in Keys |-> once[k]] /\ twice = [k \in Keys |-> twice[k]]
      /\ once.target = from.target /\ twice.target = from.target
      /\ once.enable = IF from.target # "" THEN "true" ELSE from.enable
      /\ twice.enable = IF once.target # "" THEN "true" ELSE once.enable
  BY <1>1 DEF Normalize, Keys
<1>3. /\ once.reconnect = Clamped(IF from.reconnect = "0" /\ "reconnect" \notin m
                                  THEN "3" ELSE from.reconnect)
      /\ twice.reconnect = Clamped(IF once.reconnect = "0" /\ "reconnect" \notin m
                                   THEN "3" ELSE once.reconnect)
  BY <1>1 DEF Normalize, Default, Keys
<1>4. twice.reconnect = once.reconnect
  BY <1>1, <1>3, ValuesAssumption DEF Clamped
<1>5. /\ once.workers = IF from.workers = "0" /\ "workers" \notin m
                        THEN "8" ELSE from.workers
      /\ twice.workers = IF once.workers = "0" /\ "workers" \notin m
                         THEN "8" ELSE once.workers
  BY <1>1 DEF Normalize, Default, Keys
<1>6. twice.workers = once.workers
  BY <1>5
<1> QED BY <1>2, <1>4, <1>6 DEF Keys

\* What Start lays over the file.
Effective(exp) == [k \in Keys |-> Lookup(k, exp, Empty)]

\* The effective configuration has for each key what Options, file or defaults say.
LEMMA EffectiveValues ==
  ASSUME opts \in Options, file \in Layers(Stored), NEW m
  PROVE  LET exp == ExplicitOf(opts, m)
         IN  /\ Effective(exp).reconnect \in Numbers \cup {"negative", "text"}
             /\ Effective(exp).workers \in Numbers \cup {"negative", "text"}
             /\ Effective(exp).target \in Targets
<1>1. /\ file.reconnect \in Stored.reconnect \cup {Absent}
      /\ file.workers \in Stored.workers \cup {Absent}
      /\ file.target \in Stored.target \cup {Absent}
  BY DEF Layers, Keys
<1> QED BY <1>1, ValuesAssumption, StoredAssumption
    DEF Effective, ExplicitOf, Lookup, Empty, Options, Default, Keys

\* Written back into Options, it leaves them well formed.
LEMMA ApplyValues ==
  ASSUME opts \in Options, file \in Layers(Stored), NEW m
  PROVE  Apply(opts, Effective(ExplicitOf(opts, m))) \in Options
<1> DEFINE eff == Effective(ExplicitOf(opts, m))
<1>1. /\ eff.reconnect \in Numbers \cup {"negative", "text"}
      /\ eff.workers \in Numbers \cup {"negative", "text"}
      /\ eff.target \in Targets
  BY EffectiveValues
<1>2. /\ opts.reconnect \in Numbers /\ opts.workers \in Numbers \cup {"negative"}
      /\ opts.enable \in {"true", "false"}
  BY DEF Options
<1> HIDE DEF eff
<1>3. Apply(opts, eff) \in Options
  BY <1>1, <1>2, ValuesAssumption
     DEF Apply, Options, ParseInt, ParseSeconds, ParseBool, Clamped
<1> QED BY <1>3 DEF eff

\* A key that is explicit comes through the configuration and back unchanged,
\* except for parent.enable=false.
LEMMA ExplicitSurvives ==
  ASSUME opts \in Options, NEW m, NEW k \in Keys,
         k \in m \/ opts[k] # Default[k], ~(k = "enable" /\ opts[k] = "false")
  PROVE  LET exp == ExplicitOf(opts, m)
         IN  exp[k] = opts[k] /\ Apply(opts, Effective(exp))[k] = opts[k]
<1> DEFINE exp == ExplicitOf(opts, m)
           eff == Effective(exp)
<1>1. /\ opts.reconnect \in Numbers /\ opts.workers \in Numbers \cup {"negative"}
      /\ opts.target \in Targets /\ opts.enable \in {"true", "false"}
  BY DEF Options
<1>2. opts[k] # Absent
  BY <1>1, ValuesAssumption DEF Keys
<1>3. exp[k] = opts[k] /\ eff[k] = opts[k]
  BY <1>2 DEF ExplicitOf, Effective, Lookup, Empty
<1> HIDE DEF exp, eff
<1>4. CASE k = "reconnect"
  BY <1>1, <1>3, <1>4, ValuesAssumption
     DEF Apply, ParseInt, ParseSeconds, Clamped, exp, eff
<1>5. CASE k = "workers"
  BY <1>1, <1>3, <1>5, ValuesAssumption DEF Apply, ParseInt, exp, eff
<1>6. CASE k = "target"
  BY <1>3, <1>6 DEF Apply, exp, eff
<1>7. CASE k = "enable"
  BY <1>1, <1>3, <1>7 DEF Apply, ParseBool, exp, eff
<1> QED BY <1>4, <1>5, <1>6, <1>7 DEF Keys

-----------------------------------------------------------------------------
\* What the caller of a running process asked for is well formed Options.
LEMMA WantedValues ==
  ASSUME given \in Inputs
  PROVE  Wanted \in Options /\ \A k \in Keys : Wanted[k] # Absent
BY NormalizeValues DEF Wanted

\* Before the first process, there is nothing but a file.
LEMMA InitInv == Init => Inv
<1> SUFFICES ASSUME Init PROVE Inv
  OBVIOUS
<1>1. opts \in Options
  BY ValuesAssumption DEF Init, Default, Options
<1>2. overlay \in Layers(Overrides)
  BY DEF Init, Layers, Empty
<1>3. ~process /\ ~started /\ starts = 0 /\ marked = {} /\ file \in Layers(Stored)
  BY DEF Init
<1>4. TypeOK
  <2>1. process \in BOOLEAN /\ started \in BOOLEAN
    BY DEF Init
  <2> QED BY <1>1, <1>2, <1>3, <2>1 DEF TypeOK
<1> QED BY <1>3, <1>4 DEF Inv, AskedFor, FirstStart

\* A new Runtime: New normalizes Options that hold exactly what is asked for.
LEMMA NewRuntimeInv ==
  ASSUME Inv, NEW in \in Inputs, NEW m \in SUBSET GivenKeys(in), NEW o,
         NewRuntime(in, m, o), Normalize(o, m) = Normalize(FromCaller(in), m)
  PROVE  Inv'
<1>1. opts' = Wanted' /\ given' = in /\ marked' = m /\ process' /\ starts' = 0
  BY DEF NewRuntime, Wanted
<1>2. ~started' /\ UNCHANGED <<file, overlay>>
  BY DEF NewRuntime, config, Inv, TypeOK
<1>3. opts' \in Options
  BY <1>1, NormalizeValues DEF Wanted
<1>4. TypeOK'
  <2>1. marked' \subseteq GivenKeys(given)'
    BY <1>1 DEF GivenKeys
  <2>2. process' \in BOOLEAN /\ started' \in BOOLEAN
    BY DEF NewRuntime, Inv, TypeOK
  <2> QED BY <1>1, <1>2, <1>3, <2>1, <2>2 DEF Inv, TypeOK
<1>5. AskedFor' /\ FirstStart'
  BY <1>1, <1>2 DEF AskedFor, FirstStart
<1> QED BY <1>4, <1>5 DEF Inv

\* A successful Start: what was asked for is explicit, and stays in the Options.
LEMMA StartInv == ASSUME Inv, Start PROVE Inv'
<1> DEFINE exp == ExplicitOf(opts, marked)
<1>1. /\ process /\ ~started /\ process' /\ started'
      /\ explicit' = exp /\ overlay' = Empty /\ opts' = Apply(opts, Effective(exp))
      /\ starts' = IF starts = 0 THEN 1 ELSE 2
      /\ UNCHANGED <<given, marked, file>>
  BY DEF Start, caller, Effective
<1>2. opts \in Options /\ file \in Layers(Stored)
  BY DEF Inv, TypeOK
<1>3. opts' \in Options
  BY <1>1, <1>2, ApplyValues
<1>4. overlay' \in Layers(Overrides)
  BY <1>1 DEF Layers, Empty
<1>5. TypeOK'
  BY <1>1, <1>3, <1>4 DEF Inv, TypeOK
<1>6. Wanted' = Wanted /\ \A k \in Keys : Firm(k)' = Firm(k)
                                    /\ Overruled(k)' = Overruled(k)
  BY <1>1 DEF Wanted, Firm, Overruled
<1>7. ASSUME NEW k \in Keys, Firm(k)
      PROVE  opts'[k] = Wanted[k] /\ explicit'[k] = Wanted[k]
  <2>1. opts[k] = Wanted[k]
    BY <1>1, <1>7 DEF Inv, AskedFor
  <2>2. k \in marked \/ opts[k] # Default[k]
    BY <2>1, <1>7 DEF Firm, Overruled
  <2>3. ~(k = "enable" /\ opts[k] = "false")
    BY <2>1, <1>7 DEF Firm
  <2> QED BY <1>1, <1>2, <2>1, <2>2, <2>3, ExplicitSurvives
<1>8. AskedFor'
  BY <1>1, <1>6, <1>7 DEF Inv, AskedFor
<1>9. ASSUME starts' = 1, NEW k \in Keys, ~Overruled(k) PROVE explicit'[k] = Absent
  <2>1. opts = Wanted
    BY <1>1, <1>9 DEF Inv, FirstStart, TypeOK
  <2> QED BY <1>1, <1>9, <2>1 DEF Overruled, ExplicitOf
<1>10. FirstStart'
  BY <1>1, <1>6, <1>9 DEF FirstStart
<1> QED BY <1>5, <1>8, <1>10 DEF Inv

\* A layer with a key replaced is a layer.
LEMMA LayerReplaced ==
  ASSUME NEW S, NEW m \in Layers(S), NEW k \in Keys, NEW v \in S[k]
  PROVE  [m EXCEPT ![k] = v] \in Layers(S)
BY DEF Layers

\* Every step of the host, of the Runtime and of its configuration.
LEMMA InvStep == ASSUME Inv, [Next]_vars PROVE Inv'
<1>1. ASSUME NEW in \in Inputs, RunCommand(in) PROVE Inv'
  <2> DEFINE m == GivenKeys(in)
             o == Normalize(FromCaller(in), m)
  <2>1. Normalize(o, m) = o
    BY NormalizeTwice
  <2>2. NewRuntime(in, m, o)
    BY <1>1 DEF RunCommand
  <2> QED BY <2>1, <2>2, NewRuntimeInv
<1>2. ASSUME NEW in \in Inputs, NEW m \in SUBSET Keys, Embed(in, m) PROVE Inv'
  BY <1>2, NewRuntimeInv DEF Embed
<1>3. ASSUME Stop PROVE Inv'
  <2>1. overlay' \in Layers(Overrides) /\ ~started'
    BY <1>3 DEF Stop, Layers, Empty
  <2>2. UNCHANGED <<process, given, marked, opts, file, starts, Wanted>>
    BY <1>3 DEF Stop, caller, Wanted
  <2>3. opts' = opts /\ \A k \in Keys : Firm(k)' = Firm(k)
    BY <2>2 DEF Firm, Overruled
  <2>4. TypeOK'
    BY <2>1, <2>2, <1>3 DEF Stop, Inv, TypeOK, GivenKeys
  <2>5. AskedFor'
    BY <2>1, <2>2, <2>3 DEF Inv, AskedFor, Inputs
  <2>6. FirstStart'
    BY <1>3, <2>1, <2>2 DEF Stop, Inv, FirstStart
  <2> QED BY <2>4, <2>5, <2>6 DEF Inv
<1>4. ASSUME Exit PROVE Inv'
  <2>1. opts' \in Options
    BY <1>4, ValuesAssumption DEF Exit, Default, Options
  <2>2. overlay' \in Layers(Overrides) /\ marked' \subseteq GivenKeys(given)'
    BY <1>4 DEF Exit, Layers, Empty
  <2>3. ~process' /\ ~started' /\ starts' = 0 /\ file' = file
    BY <1>4 DEF Exit
  <2>4. TypeOK'
    <3>1. process' \in BOOLEAN /\ started' \in BOOLEAN
      BY <1>4 DEF Exit
    <3> QED BY <2>1, <2>2, <2>3, <3>1 DEF Inv, TypeOK
  <2> QED BY <2>3, <2>4 DEF Inv, AskedFor, FirstStart
<1>5. ASSUME UNCHANGED <<process, given, marked, opts, started, explicit, starts>>,
             file' \in Layers(Stored), overlay' \in Layers(Overrides)
      PROVE  Inv'
  BY <1>5 DEF Inv, TypeOK, AskedFor, FirstStart, Firm, Overruled, Wanted
<1>6. ASSUME NEW k \in Keys, NEW v \in Stored[k], SetPersistent(k, v) PROVE Inv'
  BY <1>5, <1>6, LayerReplaced DEF SetPersistent, caller, config, Inv, TypeOK
<1>7. ASSUME NEW k \in Keys, NEW v \in Overrides[k], Set(k, v) PROVE Inv'
  BY <1>5, <1>7, LayerReplaced DEF Set, caller, Inv, TypeOK
<1>8. CASE UNCHANGED vars
  BY <1>5, <1>8 DEF vars, caller, config, Inv, TypeOK
<1> QED BY <1>1, <1>2, <1>3, <1>4, <1>6, <1>7, <1>8, StartInv DEF Next

\* The inductive invariant holds over any sequence of processes, Starts, Stops and
\* calls of Set and SetPersistent.
THEOREM Invariance == Spec => []Inv
BY InitInv, InvStep, PTL DEF Spec

\* No text that is not a number gets into the numeric Options of a Runtime, and no
\* reconnect interval below zero, whatever environment, flags and file hold: also
\* over restarts that read back what an earlier Start wrote into them.
THEOREM TypeCorrect == Spec => []TypeOK
<1>1. Inv => TypeOK
  BY DEF Inv
<1> QED BY <1>1, Invariance, PTL

\* What the environment, a flag or a marked field asks for is in force whenever the
\* Runtime is started, after any restarts and whatever was stored meanwhile.
THEOREM CallerAlwaysWins == Spec => []CallerWins
<1>1. Inv => CallerWins
  <2> SUFFICES ASSUME Inv, started, NEW k \in Keys, Firm(k)
               PROVE  /\ opts[k] = Wanted[k]
                      /\ overlay[k] = Absent => Get(k) = Wanted[k]
    BY DEF CallerWins
  <2>1. given \in Inputs /\ opts[k] = Wanted[k] /\ explicit[k] = Wanted[k]
    BY DEF Inv, TypeOK, AskedFor
  <2>2. Wanted[k] # Absent
    BY <2>1, WantedValues
  <2> QED BY <2>1, <2>2 DEF Get, Lookup
<1> QED BY <1>1, Invariance, PTL

\* While a process has started its Runtime once only, the file decides every key
\* its caller left alone and no runtime overlay replaces, and else the default.
THEOREM FreshAlwaysRestores == Spec => []FreshRestores
<1>1. Inv => FreshRestores
  BY DEF Inv, TypeOK, FirstStart, FreshRestores, Get, Lookup
<1> QED BY <1>1, Invariance, PTL
===============================================================================
