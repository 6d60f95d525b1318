---------------------------- MODULE LayeredConfig ----------------------------
(***************************************************************************)
(* The configuration of a running hub (src/hubruntime/layered_config.go):  *)
(* four layers in memory, the persistent one stored in a JSON file that    *)
(* SetPersistent replaces through path + ".tmp" and a rename.  Each call   *)
(* of SetPersistent is a sequence of steps, one per lock section or file   *)
(* system call; calls come from the workers of the dispatcher, and the     *)
(* process may crash and restart between any two steps.                    *)
(*                                                                         *)
(* The file system keeps what a name refers to apart from what is written: *)
(* a file opened by one call may be renamed by another.  A map gives every *)
(* key a value or Absent; a truncated file reads as the empty map; Torn is *)
(* any content that is not one JSON object.                                *)
(***************************************************************************)
EXTENDS Naturals

CONSTANTS
  Keys, Values, Absent,
  Torn,           \* content that does not parse
  NoFile,         \* what a name that does not exist refers to
  Original,       \* the file at path at the first start
  Writers,        \* the calls of SetPersistent, each made at most once
  SerialWriters,  \* TRUE: a call is made only when the last has returned
  RenameMayFail,  \* TRUE: os.Rename may fail though its source exists
  Defaults,       \* the layer of DefaultOptions
  Explicit,       \* the layer of environment, flags and caller
  Overlays,       \* the configurations that may be merged
  MaxCrashes      \* bound on the number of crashes

Maps  == [Keys -> Values \cup {Absent}]
Empty == [k \in Keys |-> Absent]
Files == Writers \cup {Original}   \* a call creates at most one file

ASSUME ConfigAssumption ==
  /\ Absent \notin Values /\ Torn \notin Maps
  /\ Original \notin Writers /\ NoFile \notin Files
  /\ SerialWriters \in BOOLEAN /\ RenameMayFail \in BOOLEAN
  /\ Defaults \in Maps /\ Explicit \in Maps
  /\ Overlays \subseteq Maps /\ MaxCrashes \in Nat

VARIABLES
  persistent, overlay, \* the layers persistent and runtime
  up,                  \* the process runs
  crashes,             \* crashes so far
  path, tmp,           \* the files the two names refer to
  data,                \* what each file contains
  pc, key, val,        \* where each call is, and its arguments
  next,                \* its nextPersistent
  fd,                  \* the file it has open
  mayHold              \* history, for serial calls: for each key, the last
                       \* acknowledged value and those of calls begun since

memory == <<persistent, overlay, up, crashes>>
disk   == <<path, tmp, data>>
args   == <<key, val>>
vars   == <<memory, disk, pc, args, next, fd, mayHold>>

Points == {"idle", "open", "write", "rename", "remove", "renameAgain", "removeTmp",
           "commit", "ok", "err", "dead"}
InFlight(w) == pc[w] \notin {"idle", "ok", "err", "dead"}

\* loadConfigMap: no file, and an empty one, give the empty map.
Stored == IF path = NoFile THEN Empty ELSE data[path]

Init ==
  /\ path \in {NoFile, Original} /\ tmp = NoFile
  /\ \E m \in IF path = NoFile THEN {Empty} ELSE Maps :
       data = [f \in Files |-> IF f = Original THEN m ELSE Empty]
  /\ persistent = Stored /\ overlay = Empty /\ up = TRUE /\ crashes = 0
  /\ pc = [w \in Writers |-> "idle"]
  /\ key \in [Writers -> Keys] /\ val \in [Writers -> Values]
  /\ next = [w \in Writers |-> Empty] /\ fd = [w \in Writers |-> NoFile]
  /\ mayHold = [k \in Keys |-> {Stored[k]}]

\* recomputeLocked and Get: the last layer that has the key decides.
Get(k) == IF overlay[k] # Absent THEN overlay[k]
          ELSE IF Explicit[k] # Absent THEN Explicit[k]
          ELSE IF persistent[k] # Absent THEN persistent[k] ELSE Defaults[k]

Goto(w, from, to) == up /\ pc[w] = from /\ pc' = [pc EXCEPT ![w] = to]

-----------------------------------------------------------------------------
\* SetPersistent

\* Under the read lock: a layer is copied, then changed at one key.
CloneFrom(w, layer) ==
  /\ SerialWriters => \A x \in Writers : ~InFlight(x)
  /\ Goto(w, "idle", "open")
  /\ next' = [next EXCEPT ![w] = [layer EXCEPT ![key[w]] = val[w]]]
  /\ mayHold' = [mayHold EXCEPT ![key[w]] = @ \cup {val[w]}]
  /\ UNCHANGED <<memory, disk, args, fd>>

\* Mutants: the copy starts from nothing; it starts from the effective configuration.
CloneNothing(w)   == CloneFrom(w, Empty)
CloneEffective(w) == CloneFrom(w, [k \in Keys |-> Get(k)])
CloneLayer(w)     == CloneFrom(w, persistent)

Open(w, f) ==
  /\ Goto(w, "open", "write")
  /\ tmp' = f
  /\ fd' = [fd EXCEPT ![w] = f]
  /\ data' = [data EXCEPT ![f] = Empty]
  /\ UNCHANGED <<memory, path, args, next, mayHold>>

\* Mutant: the stored file is written in place.
OpenPath(w) == Open(w, IF path = NoFile THEN w ELSE path)

\* WriteFile opens tmp: it truncates the file that is there, or creates one.
OpenTmp(w) == Open(w, IF tmp = NoFile THEN w ELSE tmp)

\* WriteFile writes from offset 0; over what another call has written since, a
\* longer content keeps its tail.
WriteTmp(w) ==
  /\ Goto(w, "write", "rename")
  /\ \E content \in {next[w]} \cup IF data[fd[w]] = Empty THEN {} ELSE {Torn} :
       data' = [data EXCEPT ![fd[w]] = content]
  /\ UNCHANGED <<memory, path, tmp, args, next, fd, mayHold>>

\* MkdirAll or the opening fails, or WriteFile with nothing of the new content, a
\* part or all of it in the file.
WriteFails(w) ==
  /\ \/ Goto(w, "open", "err") /\ UNCHANGED data
     \/ /\ Goto(w, "write", "err")
        /\ \E content \in {data[fd[w]], Torn, next[w]} :
             data' = [data EXCEPT ![fd[w]] = content]
  /\ UNCHANGED <<memory, path, tmp, args, next, fd, mayHold>>

RenameTmp(w, from) ==
  /\ tmp # NoFile
  /\ Goto(w, from, "commit")
  /\ path' = tmp /\ tmp' = NoFile
  /\ UNCHANGED <<memory, data, args, next, fd, mayHold>>

Rename(w)      == RenameTmp(w, "rename")
RenameAgain(w) == RenameTmp(w, "renameAgain")

\* A rename fails when another call has renamed tmp away, or for a reason outside.
RenameFails(w) ==
  /\ tmp = NoFile \/ RenameMayFail
  /\ \/ Goto(w, "rename", "remove")
     \/ Goto(w, "renameAgain", "removeTmp")
  /\ UNCHANGED <<memory, disk, args, next, fd, mayHold>>

\* After the first failure path is removed to make room, whatever the reason was.
RemovePath(w) ==
  /\ Goto(w, "remove", "renameAgain")
  /\ path' = NoFile
  /\ UNCHANGED <<memory, tmp, data, args, next, fd, mayHold>>

RemoveTmp(w) ==
  /\ Goto(w, "removeTmp", "err")
  /\ tmp' = NoFile
  /\ UNCHANGED <<memory, path, data, args, next, fd, mayHold>>

\* Under the lock: the persistent layer is replaced; the call returns nil.
CommitTo(w, layer) ==
  /\ Goto(w, "commit", "ok")
  /\ persistent' = layer
  /\ mayHold' = [mayHold EXCEPT ![key[w]] = {val[w]}]
  /\ UNCHANGED <<overlay, up, crashes, disk, args, next, fd>>

\* Mutant: the copy is stored and not taken into memory.
CommitSkipped(w) == CommitTo(w, persistent)
CommitLayer(w)   == CommitTo(w, next[w])

-----------------------------------------------------------------------------
\* The other operations

\* Merge lays another configuration over the runtime layer; nothing is stored.
Merge(other) ==
  /\ up
  /\ overlay' = [k \in Keys |-> IF other[k] = Absent THEN overlay[k] ELSE other[k]]
  /\ UNCHANGED <<persistent, up, crashes, disk, pc, args, next, fd, mayHold>>

Set(k, v) == Merge([Empty EXCEPT ![k] = v])

\* The process dies between two steps: memory is gone, files stay as they are.
Crash ==
  /\ up /\ crashes < MaxCrashes
  /\ up' = FALSE /\ crashes' = crashes + 1
  /\ persistent' = Empty /\ overlay' = Empty
  /\ pc' = [w \in Writers |-> IF InFlight(w) THEN "dead" ELSE pc[w]]
  /\ UNCHANGED <<disk, args, next, fd, mayHold>>

\* newLayeredConfig of the next process.  Mutant: the error of json.Unmarshal is
\* dropped, LoadStored alone.
LoadStored ==
  /\ ~up
  /\ up' = TRUE /\ persistent' = Stored
  /\ UNCHANGED <<overlay, crashes, disk, pc, args, next, fd, mayHold>>

Load == Stored # Torn /\ LoadStored

\* The file does not parse: Start returns the error, at every attempt.
LoadFails == ~up /\ Stored = Torn /\ UNCHANGED vars

WriterStep(w) ==
  \/ OpenTmp(w) \/ WriteTmp(w) \/ WriteFails(w) \/ Rename(w) \/ RenameAgain(w)
  \/ RenameFails(w) \/ RemovePath(w) \/ RemoveTmp(w) \/ CommitLayer(w)

Next ==
  \/ \E w \in Writers : CloneLayer(w) \/ WriterStep(w)
  \/ \E k \in Keys, v \in Values : Set(k, v)
  \/ \E other \in Overlays : Merge(other)
  \/ Crash \/ Load \/ LoadFails

Spec == Init /\ [][Next]_vars

\* A worker that is in SetPersistent goes on with it.
FairSpec == Spec /\ \A w \in Writers : WF_vars(WriterStep(w))

-----------------------------------------------------------------------------
\* Layers, files and locals have values of their Go types.
TypeOK ==
  /\ persistent \in Maps /\ overlay \in Maps
  /\ up \in BOOLEAN /\ crashes \in 0..MaxCrashes
  /\ path \in Files \cup {NoFile} /\ tmp \in Files \cup {NoFile}
  /\ data \in [Files -> Maps \cup {Torn}]
  /\ pc \in [Writers -> Points]
  /\ key \in [Writers -> Keys] /\ val \in [Writers -> Values]
  /\ next \in [Writers -> Maps] /\ fd \in [Writers -> Files \cup {NoFile}]
  /\ mayHold \in [Keys -> SUBSET (Values \cup {Absent})]

\* What a key may hold: no value, its value in the first file, or one that a call
\* has asked for.
RequestedFor(k) ==
  {Absent, data[Original][k]}
    \cup {val[w] : w \in {x \in Writers : pc[x] # "idle" /\ key[x] = k}}

\* No interleaving or crash stores a value that no SetPersistent asked for: the
\* overlay, explicit values and defaults never reach the file, and a key is only
\* ever absent or given one of its own values.
OnlyRequested ==
  Stored # Torn => \A k \in Keys : Stored[k] \in RequestedFor(k)

\* What SetPersistent acknowledged survives: the file always parses and holds, for
\* each key, the last acknowledged value or that of a call begun since
\* (layered_config.go:109, "written to disk first ... still in force after a restart").
Durable ==
  Stored # Torn /\ \A k \in Keys : Stored[k] \in mayHold[k]

\* With no call in progress, Get answers from the file for every key that neither
\* the caller nor the overlay overrides, so a restart changes no answer.
RestartTransparent ==
  up /\ (\A w \in Writers : ~InFlight(w)) =>
    \A k \in Keys : overlay[k] = Absent /\ Explicit[k] = Absent =>
      Get(k) = IF Stored[k] # Absent THEN Stored[k] ELSE Defaults[k]

\* SetPersistent updates the file "by an atomic write" (change document 2026-03-22,
\* line 21): once every call that was made has returned nil, the file parses and
\* has the value of a call that alone wrote its key, "still in force after a restart".
AcknowledgedStored ==
  (\A w \in Writers : pc[w] \in {"idle", "ok"}) =>
    \A w \in Writers :
      pc[w] = "ok" /\ (\A x \in Writers \ {w} : key[x] # key[w]) =>
        Stored # Torn /\ Stored[key[w]] = val[w]

\* With one SetPersistent at a time, and renames that do not fail without reason,
\* the file and the persistent layer behave as one atomic store, crashes included.
Abstract == INSTANCE ConfigStore
  WITH stored <- Stored, view <- persistent, running <- up
ImplementsStore == Abstract!Spec

\* A value that has reached the file does not wait for a restart: Get answers from
\* it in the end, unless the process dies first (layered_config.go:125).
TakesEffect == up /\ persistent # Stored ~> persistent = Stored \/ ~up

-----------------------------------------------------------------------------
\* What the properties rest on, proved with them in LayeredConfigProofs

\* The first file is only ever replaced, never written; a call writes to a file
\* that some call created.
OriginalKept ==
  /\ data[Original] \in Maps
  /\ tmp # Original /\ \A w \in Writers : fd[w] # Original
  /\ \A w \in Writers : pc[w] = "write" => fd[w] \in Writers

\* No copy of the persistent layer, in a file or in memory, has another value.
CopiesRequested ==
  \A k \in Keys :
    /\ \A f \in Files : data[f] # Torn => data[f][k] \in RequestedFor(k)
    /\ \A w \in Writers : next[w][k] \in RequestedFor(k)
    /\ persistent[k] \in RequestedFor(k)

\* The inductive invariant, of any calls.
Inv == TypeOK /\ OriginalKept /\ CopiesRequested

\* Calls that come one at a time never find their temporary file renamed away.
OneWriter ==
  /\ \A w, x \in Writers : InFlight(w) /\ InFlight(x) => w = x
  /\ \A w \in Writers : InFlight(w) => up
  /\ \A w \in Writers : pc[w] \notin {"remove", "renameAgain", "removeTmp"}

\* The two names never refer to one file, nor to one that is yet to be created.
NamesApart ==
  /\ path = tmp => path = NoFile
  /\ \A w \in Writers : w \in {path, tmp} => pc[w] \notin {"idle", "open"}

\* The temporary file is truncated, then complete, then the stored one.
WrittenThenRenamed ==
  /\ \A w \in Writers : pc[w] \in {"write", "rename"} =>
       /\ tmp # NoFile /\ fd[w] = tmp
       /\ data[tmp] = IF pc[w] = "write" THEN Empty ELSE next[w]
  /\ \A w \in Writers : InFlight(w) =>
       next[w] = [persistent EXCEPT ![key[w]] = val[w]]

\* While the process runs, the persistent layer is what is stored, but for the call
\* that has renamed and has yet to take the lock.
InMemory ==
  /\ Stored \in Maps
  /\ up /\ (\A w \in Writers : pc[w] # "commit") => persistent = Stored
  /\ \A w \in Writers : pc[w] = "commit" => Stored = next[w]

\* What is stored may be found, and so may what is about to be stored.
MayFind ==
  /\ \A k \in Keys : Stored[k] \in mayHold[k]
  /\ \A w \in Writers : InFlight(w) => val[w] \in mayHold[key[w]]

\* The inductive invariant of calls that come one at a time, where renames fail
\* only when there is nothing to rename.
SerialInv ==
  TypeOK /\ OneWriter /\ NamesApart /\ WrittenThenRenamed /\ InMemory /\ MayFind

=============================================================================
