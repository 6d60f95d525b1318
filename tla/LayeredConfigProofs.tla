-------------------------- MODULE LayeredConfigProofs --------------------------
(***************************************************************************)
(* Proofs about LayeredConfig for any keys, values, layers, calls and      *)
(* number of crashes.  First, of calls that come in any order and renames  *)
(* that may fail: the types, and that nothing unrequested is ever stored.  *)
(* Then, of calls that come one at a time where renames fail only when     *)
(* there is nothing to rename: durability, the transparency of a restart,  *)
(* and that every step implements one of ConfigStore, or none.             *)
(***************************************************************************)
EXTENDS LayeredConfig, TLAPS

\* A layer changed at one key.
LEMMA ChangedAt ==
  ASSUME NEW m \in Maps, NEW k \in Keys, NEW v \in Values
  PROVE  /\ [m EXCEPT ![k] = v] \in Maps
         /\ \A j \in Keys : [m EXCEPT ![k] = v][j] = IF j = k THEN v ELSE m[j]
BY DEF Maps

-----------------------------------------------------------------------------
\* Any calls

Typed == TypeOK /\ OriginalKept

LEMMA TypedInit == ASSUME Init PROVE Typed
<1> USE ConfigAssumption DEF Init, Files, Maps, Empty
<1>1. PICK m \in Maps : data = [f \in Files |-> IF f = Original THEN m ELSE Empty]
  OBVIOUS
<1>2. data \in [Files -> Maps \cup {Torn}] /\ data[Original] \in Maps
  BY <1>1
<1>3. Stored \in Maps
  BY <1>2 DEF Stored
<1>4. TypeOK
  BY <1>2, <1>3 DEF TypeOK, Points
<1> QED BY <1>2, <1>4 DEF Typed, OriginalKept

\* Every step keeps the types, and leaves the first file as it is.
LEMMA TypedStep ==
  ASSUME Typed, [Next]_vars PROVE Typed' /\ data'[Original] = data[Original]
<1> USE ConfigAssumption
<1> USE DEF Typed, TypeOK, OriginalKept, Files, Points, Goto, memory, disk, args
<1>0. Empty \in Maps
  BY DEF Empty, Maps
<1>1. Stored \in Maps \cup {Torn}
  BY <1>0 DEF Stored
<1>2. ASSUME NEW w \in Writers, CloneLayer(w)
      PROVE  Typed' /\ data'[Original] = data[Original]
  <2>1. [persistent EXCEPT ![key[w]] = val[w]] \in Maps
    BY ChangedAt
  <2> QED BY <1>2, <2>1 DEF CloneLayer, CloneFrom
<1>3. ASSUME NEW w \in Writers, WriterStep(w)
      PROVE  Typed' /\ data'[Original] = data[Original]
  <2>1. CASE OpenTmp(w)
    <3>1. PICK f \in Writers : Open(w, f)
      BY <2>1 DEF OpenTmp
    <3> QED BY <1>0, <3>1 DEF Open
  <2>2. CASE WriteTmp(w) BY <2>2 DEF WriteTmp
  <2>3. CASE WriteFails(w) BY <2>3 DEF WriteFails
  <2>4. CASE Rename(w) \/ RenameAgain(w)
    BY <2>4 DEF Rename, RenameAgain, RenameTmp
  <2>5. CASE RenameFails(w) BY <2>5 DEF RenameFails
  <2>6. CASE RemovePath(w) \/ RemoveTmp(w) BY <2>6 DEF RemovePath, RemoveTmp
  <2>7. CASE CommitLayer(w) BY <2>7 DEF CommitLayer, CommitTo
  <2> QED BY <1>3, <2>1, <2>2, <2>3, <2>4, <2>5, <2>6, <2>7 DEF WriterStep
<1>4. ASSUME NEW other \in Maps, Merge(other)
      PROVE  Typed' /\ data'[Original] = data[Original]
  <2>1. [k \in Keys |-> IF other[k] = Absent THEN overlay[k] ELSE other[k]] \in Maps
    BY DEF Maps
  <2> QED BY <1>4, <2>1 DEF Merge
<1>5. ASSUME NEW k \in Keys, NEW v \in Values, Set(k, v)
      PROVE  Typed' /\ data'[Original] = data[Original]
  <2>1. [Empty EXCEPT ![k] = v] \in Maps
    BY <1>0, ChangedAt
  <2> QED BY <1>4, <1>5, <2>1 DEF Set
<1>6. CASE Crash
  <2>1. crashes' \in 0..MaxCrashes
    BY <1>6 DEF Crash
  <2>2. pc' \in [Writers -> Points] /\ \A w \in Writers : pc'[w] # "write"
    BY <1>6 DEF Crash, InFlight
  <2>3. UNCHANGED <<path, tmp, data, key, val, next, fd, mayHold>>
    BY <1>6 DEF Crash
  <2> QED BY <1>0, <1>6, <2>1, <2>2, <2>3 DEF Crash
<1>7. CASE Load
  BY <1>1, <1>7 DEF Load, LoadStored
<1>8. CASE UNCHANGED vars
  BY <1>8 DEF vars
<1> QED BY <1>2, <1>3, <1>4, <1>5, <1>6, <1>7, <1>8 DEF Next, LoadFails

-----------------------------------------------------------------------------
\* The first file is never written, and what a call asked for stays asked for.
LEMMA RequestedStays ==
  ASSUME Typed, [Next]_vars, NEW k \in Keys
  PROVE  RequestedFor(k) \subseteq RequestedFor(k)'
<1>1. data'[Original] = data[Original]
  BY TypedStep
<1> DEFINE Asked == \A w \in Writers : pc[w] # "idle" =>
                      pc'[w] # "idle" /\ key'[w] = key[w] /\ val'[w] = val[w]
<1>2. Asked
  <2> USE DEF Typed, TypeOK, Goto, memory, disk, args
  <2>1. ASSUME NEW w \in Writers, CloneLayer(w) \/ WriterStep(w) PROVE Asked
    <3>1. /\ UNCHANGED <<key, val>>
          /\ \E p \in Points \ {"idle"} : pc' = [pc EXCEPT ![w] = p]
      BY <2>1 DEF CloneLayer, CloneFrom, WriterStep, OpenTmp, Open, WriteTmp,
         WriteFails, Rename, RenameAgain, RenameTmp, RenameFails, RemovePath,
         RemoveTmp, CommitLayer, CommitTo, Points
    <3> QED BY <3>1
  <2>2. CASE Crash
    BY <2>2 DEF Crash
  <2>3. ASSUME UNCHANGED <<pc, args>> PROVE Asked
    BY <2>3
  <2> QED
    BY <2>1, <2>2, <2>3 DEF Next, Set, Merge, Load, LoadStored, LoadFails, vars
<1> QED BY <1>1, <1>2 DEF RequestedFor

LEMMA CopiesInit == ASSUME Init PROVE CopiesRequested
<1> USE ConfigAssumption
<1>1. \A f \in Files : f # Original => data[f] = Empty
  BY DEF Init
<1>2. persistent = Empty \/ persistent = data[Original]
  BY DEF Init, Stored
<1>3. \A w \in Writers : next[w] = Empty
  BY DEF Init
<1>4. \A k \in Keys : Empty[k] = Absent
  BY DEF Empty
<1> QED BY <1>1, <1>2, <1>3, <1>4 DEF CopiesRequested, RequestedFor

\* Copies are made of copies, and changed at one key by the call that asked for it.
LEMMA CopiesStep ==
  ASSUME Typed, CopiesRequested, [Next]_vars PROVE CopiesRequested'
<1> USE ConfigAssumption
<1> SUFFICES ASSUME NEW k \in Keys
    PROVE  /\ \A f \in Files : data'[f] # Torn => data'[f][k] \in RequestedFor(k)'
           /\ \A w \in Writers : next'[w][k] \in RequestedFor(k)'
           /\ persistent'[k] \in RequestedFor(k)'
  BY DEF CopiesRequested
<1> DEFINE Old == RequestedFor(k)
           New == RequestedFor(k)'
           DataKept == \A f \in Files : data'[f] # Torn => data'[f][k] \in New
           NextKept == \A w \in Writers : next'[w][k] \in New
           LayerKept == persistent'[k] \in New
<1>1. SUFFICES DataKept /\ NextKept /\ LayerKept
  OBVIOUS
<1>2. /\ \A f \in Files : data[f] # Torn => data[f][k] \in Old
      /\ \A w \in Writers : next[w][k] \in Old
      /\ persistent[k] \in Old
  BY DEF CopiesRequested
<1>3. Old \subseteq New
  BY RequestedStays
<1>4. Empty[k] \in Old
  BY DEF Empty, RequestedFor
<1>5. Stored # Torn => Stored[k] \in Old
  BY <1>2, <1>4 DEF Stored, Typed, TypeOK
<1>6. ASSUME NEW w \in Writers, CloneLayer(w) PROVE next'[w][k] \in New
  <2>1. key[w] = k => val[w] \in New
    BY <1>6 DEF RequestedFor, CloneLayer, CloneFrom, Goto, args, Typed, TypeOK
  <2>2. next'[w] = [persistent EXCEPT ![key[w]] = val[w]]
    BY <1>6 DEF CloneLayer, CloneFrom, Typed, TypeOK
  <2> QED BY <1>2, <1>3, <2>1, <2>2 DEF Typed, TypeOK, Maps
<1> HIDE DEF Old, New
<1> USE <1>2, <1>3 DEF Goto, memory, disk, args, Typed, TypeOK, OriginalKept
<1>7. ASSUME NEW w \in Writers, CloneLayer(w)
      PROVE  DataKept /\ NextKept /\ LayerKept
  BY <1>6, <1>7 DEF CloneLayer, CloneFrom
<1>8. ASSUME NEW w \in Writers, WriterStep(w)
      PROVE  DataKept /\ NextKept /\ LayerKept
  <2>1. CASE OpenTmp(w)
    <3>1. PICK f \in Files : Open(w, f)
      BY <2>1 DEF OpenTmp, Files
    <3>2. DataKept
      BY <1>4, <3>1 DEF Open
    <3> QED BY <3>1, <3>2 DEF Open
  <2>2. CASE WriteTmp(w)
    <3>1. PICK content \in {next[w], Torn} : data' = [data EXCEPT ![fd[w]] = content]
      BY <2>2 DEF WriteTmp
    <3>2. DataKept
      BY <3>1
    <3> QED BY <2>2, <3>2 DEF WriteTmp
  <2>3. CASE WriteFails(w) BY <2>3 DEF WriteFails
  <2>4. CASE Rename(w) \/ RenameAgain(w) \/ RenameFails(w) \/ RemovePath(w)
             \/ RemoveTmp(w)
    BY <2>4 DEF Rename, RenameAgain, RenameTmp, RenameFails, RemovePath, RemoveTmp
  <2>5. CASE CommitLayer(w) BY <2>5 DEF CommitLayer, CommitTo
  <2> QED BY <1>8, <2>1, <2>2, <2>3, <2>4, <2>5 DEF WriterStep
<1>9. CASE Crash
  BY <1>4, <1>9 DEF Crash
<1>10. CASE Load
  BY <1>5, <1>10 DEF Load, LoadStored
<1>11. ASSUME UNCHANGED <<persistent, data, next>>
       PROVE  DataKept /\ NextKept /\ LayerKept
  BY <1>11
<1> QED BY <1>7, <1>8, <1>9, <1>10, <1>11 DEF Next, Set, Merge, LoadFails, vars

\* The invariant holds for any calls, at once or one at a time, and any crashes.
THEOREM Invariance == Spec => []Inv
<1>1. Init => Inv
  BY TypedInit, CopiesInit DEF Inv, Typed
<1>2. Inv /\ [Next]_vars => Inv'
  BY TypedStep, CopiesStep DEF Inv, Typed
<1> QED BY <1>1, <1>2, PTL DEF Spec

\* The type invariant.
THEOREM TypeCorrect == Spec => []TypeOK
<1>1. Inv => TypeOK
  BY DEF Inv
<1> QED BY <1>1, Invariance, PTL

\* No interleaving, failure or crash stores a value that was not asked for.
THEOREM StoresOnlyRequested == Spec => []OnlyRequested
<1>1. Inv => OnlyRequested
  BY DEF Inv, TypeOK, CopiesRequested, OnlyRequested, Stored, RequestedFor, Empty
<1> QED BY <1>1, Invariance, PTL

-----------------------------------------------------------------------------
\* Calls that come one at a time, where a rename fails only when there is nothing to
\* rename

SerialParts == OneWriter /\ NamesApart /\ WrittenThenRenamed /\ InMemory /\ MayFind

LEMMA SerialInit == ASSUME Init PROVE SerialParts
<1> USE ConfigAssumption
<1>1. Stored \in Maps /\ persistent = Stored
  BY TypedInit DEF Init, Stored, Typed, OriginalKept, Empty, Maps
<1>2. \A w \in Writers : pc[w] = "idle"
  BY DEF Init
<1>3. NamesApart
  BY DEF NamesApart, Init, Files
<1>4. MayFind
  BY <1>2 DEF MayFind, Init, InFlight
<1> QED BY <1>1, <1>2, <1>3, <1>4
        DEF SerialParts, OneWriter, WrittenThenRenamed, InMemory, InFlight

LEMMA SerialStep ==
  ASSUME SerialWriters, ~RenameMayFail, Typed, SerialParts, [Next]_vars
  PROVE  SerialParts'
<1> USE ConfigAssumption
<1> USE DEF Typed, TypeOK, Files, Goto, memory, disk, args, InFlight, SerialParts,
            OneWriter, NamesApart, WrittenThenRenamed, InMemory, MayFind, Stored
<1>1. ASSUME NEW w \in Writers, CloneLayer(w) PROVE SerialParts'
  BY <1>1 DEF CloneLayer, CloneFrom
<1>2. ASSUME NEW w \in Writers, WriterStep(w) PROVE SerialParts'
  <2>1. CASE OpenTmp(w) BY <2>1 DEF OpenTmp, Open
  <2>2. CASE WriteTmp(w) BY <2>2 DEF WriteTmp
  <2>3. CASE WriteFails(w) BY <2>3 DEF WriteFails
  <2>4. CASE Rename(w)
    <3>1. /\ pc[w] = "rename" /\ pc' = [pc EXCEPT ![w] = "commit"]
          /\ path' = tmp /\ tmp' = NoFile
          /\ UNCHANGED <<persistent, up, data, key, val, next, fd, mayHold>>
      BY <2>4 DEF Rename, RenameTmp
    <3>2. \A x \in Writers \ {w} : ~InFlight(x)
      BY <3>1
    <3>3. Stored' = next[w] /\ next[w] \in Maps
      BY <3>1
    <3>4. \A k \in Keys : next[w][k] = IF k = key[w] THEN val[w] ELSE Stored[k]
      <4>1. /\ next[w] = [persistent EXCEPT ![key[w]] = val[w]]
            /\ persistent = Stored /\ persistent \in Maps
        BY <3>1, <3>2
      <4>2. key[w] \in Keys /\ val[w] \in Values
        OBVIOUS
      <4> HIDE DEF Stored
      <4> QED BY <4>1, <4>2, ChangedAt
    <3>5. OneWriter' /\ NamesApart' /\ WrittenThenRenamed'
      BY <3>1, <3>2
    <3>6. InMemory'
      BY <3>1, <3>2, <3>3
    <3>7. MayFind'
      BY <3>1, <3>2, <3>3, <3>4
    <3> QED BY <3>5, <3>6, <3>7
  <2>5. CASE RenameFails(w) \/ RemovePath(w) \/ RenameAgain(w) \/ RemoveTmp(w)
    BY <2>5 DEF RenameFails, RemovePath, RenameAgain, RenameTmp, RemoveTmp
  <2>6. CASE CommitLayer(w)
    <3>1. /\ pc[w] = "commit" /\ pc' = [pc EXCEPT ![w] = "ok"]
          /\ persistent' = next[w]
          /\ mayHold' = [mayHold EXCEPT ![key[w]] = {val[w]}]
          /\ UNCHANGED <<up, path, tmp, data, key, val, next, fd>>
      BY <2>6 DEF CommitLayer, CommitTo
    <3>2. \A x \in Writers : ~InFlight(x)'
      BY <3>1
    <3>3. Stored' = Stored /\ Stored = next[w]
      BY <3>1
    <3>4. next[w][key[w]] = val[w]
      <4>1. next[w] = [persistent EXCEPT ![key[w]] = val[w]]
        BY <3>1
      <4> QED BY <4>1, ChangedAt
    <3>5. OneWriter' /\ NamesApart' /\ WrittenThenRenamed' /\ InMemory'
      BY <3>1, <3>2, <3>3
    <3>6. MayFind'
      BY <3>1, <3>2, <3>3, <3>4
    <3> QED BY <3>5, <3>6
  <2> QED BY <1>2, <2>1, <2>2, <2>3, <2>4, <2>5, <2>6 DEF WriterStep
<1>3. ASSUME UNCHANGED <<persistent, up, disk, pc, args, next, fd, mayHold>>
      PROVE  SerialParts'
  BY <1>3
<1>4. CASE Crash
  BY <1>4 DEF Crash
<1>5. CASE Load
  BY <1>5 DEF Load, LoadStored
<1> QED BY <1>1, <1>2, <1>3, <1>4, <1>5 DEF Next, Set, Merge, LoadFails, vars

\* The invariant of hosts that make one call at a time, for any number of crashes.
THEOREM SerialInvariance ==
  ASSUME SerialWriters, ~RenameMayFail PROVE Spec => []SerialInv
<1>1. Init => SerialParts
  BY SerialInit
<1>2. Inv /\ SerialParts /\ [Next]_vars => SerialParts'
  BY SerialStep DEF Inv, Typed
<1>3. Inv /\ SerialParts => SerialInv
  BY DEF Inv, SerialParts, SerialInv
<1> QED BY <1>1, <1>2, <1>3, Invariance, PTL DEF Spec

\* What SetPersistent acknowledged survives: failures, crashes, restarts.
THEOREM Durability ==
  ASSUME SerialWriters, ~RenameMayFail PROVE Spec => []Durable
<1>1. SerialInv => Durable
  BY ConfigAssumption DEF SerialInv, InMemory, MayFind, Durable
<1> QED BY <1>1, SerialInvariance, PTL

\* A restart changes no answer of Get.
THEOREM RestartsTransparent ==
  ASSUME SerialWriters, ~RenameMayFail PROVE Spec => []RestartTransparent
<1>1. SerialInv => RestartTransparent
  BY DEF SerialInv, InMemory, InFlight, RestartTransparent, Get
<1> QED BY <1>1, SerialInvariance, PTL

-----------------------------------------------------------------------------
\* Every step is a step of ConfigStore, or changes nothing there: a rename is what
\* stores a value, and the lock section is what acknowledges it.

LEMMA InitMaps == ASSUME Init PROVE Abstract!Init
<1>1. Stored \in Maps
  BY TypedInit, ConfigAssumption DEF Init, Stored, Typed, OriginalKept, Empty, Maps
<1> QED BY <1>1 DEF Init, Abstract!Init, Abstract!Maps, Maps

LEMMA StepMaps ==
  ASSUME SerialWriters, ~RenameMayFail, Typed, SerialParts, [Next]_vars
  PROVE  [Abstract!Next]_(Abstract!vars)
<1> USE ConfigAssumption
<1> USE DEF Goto, memory, disk, args
<1> DEFINE Same == UNCHANGED <<Stored, persistent, up>>
<1>1. ASSUME Same PROVE [Abstract!Next]_(Abstract!vars)
  BY <1>1 DEF Abstract!vars
<1>2. ASSUME UNCHANGED <<persistent, up, path, data>> PROVE Same
  BY <1>2 DEF Stored
<1>3. ASSUME NEW w \in Writers, WriterStep(w)
      PROVE  [Abstract!Next]_(Abstract!vars)
  <2>1. CASE OpenTmp(w)
    <3>1. PICK f \in Files : Open(w, f) /\ f # path
      BY <2>1 DEF OpenTmp, Open, Typed, TypeOK, Files, SerialParts, NamesApart
    <3>2. Same
      BY <3>1 DEF Open, Stored, Typed, TypeOK
    <3> QED BY <1>1, <3>2
  <2>2. CASE WriteTmp(w) \/ WriteFails(w)
    <3>1. pc[w] = "write" => fd[w] # path
      BY DEF SerialParts, WrittenThenRenamed, NamesApart
    <3>2. Same
      BY <2>2, <3>1 DEF WriteTmp, WriteFails, Stored, Typed, TypeOK
    <3> QED BY <1>1, <3>2
  <2>3. CASE Rename(w)
    <3>1. /\ pc[w] = "rename" /\ up
          /\ path' = tmp /\ tmp # NoFile
          /\ UNCHANGED <<persistent, up, data>>
      BY <2>3 DEF Rename, RenameTmp
    <3>2. Stored' = next[w] /\ next[w] = [persistent EXCEPT ![key[w]] = val[w]]
      BY <3>1 DEF Stored, SerialParts, WrittenThenRenamed, InFlight
    <3>3. persistent = Stored
      BY <3>1 DEF SerialParts, OneWriter, InMemory, InFlight
    <3>4. Abstract!Persist(key[w], val[w])
      BY <3>1, <3>2, <3>3 DEF Abstract!Persist
    <3> QED BY <3>4 DEF Abstract!Next, Typed, TypeOK
  <2>4. CASE RenameFails(w) \/ RemovePath(w) \/ RenameAgain(w) \/ RemoveTmp(w)
    <3>1. FALSE
      BY <2>4 DEF RenameFails, RemovePath, RenameAgain, RenameTmp, RemoveTmp,
         SerialParts, OneWriter, WrittenThenRenamed, Typed, TypeOK
    <3> QED BY <3>1
  <2>5. CASE CommitLayer(w)
    <3>1. /\ pc[w] = "commit" /\ up
          /\ persistent' = next[w]
          /\ UNCHANGED <<up, path, data>>
      BY <2>5 DEF CommitLayer, CommitTo
    <3>2. Stored' = Stored /\ persistent' = Stored
      BY <3>1 DEF Stored, SerialParts, InMemory
    <3>3. Abstract!Acknowledge \/ Same
      BY <3>1, <3>2 DEF Abstract!Acknowledge
    <3> QED BY <1>1, <3>3 DEF Abstract!Next
  <2> QED BY <1>3, <2>1, <2>2, <2>3, <2>4, <2>5 DEF WriterStep
<1>4. CASE Crash
  <2>1. Stored' = Stored
    BY <1>4 DEF Crash, Stored
  <2>2. Abstract!Crash
    BY <1>4, <2>1 DEF Crash, Abstract!Crash, Empty
  <2> QED BY <2>2 DEF Abstract!Next
<1>5. CASE Load
  <2>1. Stored' = Stored
    BY <1>5 DEF Load, LoadStored, Stored
  <2>2. Abstract!Restart
    BY <1>5, <2>1 DEF Load, LoadStored, Abstract!Restart
  <2> QED BY <2>2 DEF Abstract!Next
<1>6. ASSUME NEW w \in Writers, CloneLayer(w)
      PROVE  [Abstract!Next]_(Abstract!vars)
  BY <1>1, <1>2, <1>6 DEF CloneLayer, CloneFrom
<1> QED BY <1>1, <1>2, <1>3, <1>4, <1>5, <1>6
        DEF Next, Set, Merge, LoadFails, vars

\* File and memory together implement the atomic store, step by step.
THEOREM Refinement ==
  ASSUME SerialWriters, ~RenameMayFail
  PROVE  Spec => ImplementsStore
<1>1. Init => Abstract!Init
  BY InitMaps
<1>2. SerialInv /\ Inv /\ [Next]_vars => [Abstract!Next]_(Abstract!vars)
  BY StepMaps DEF Inv, Typed, SerialInv, SerialParts
<1> QED BY <1>1, <1>2, SerialInvariance, Invariance, PTL
        DEF Spec, ImplementsStore, Abstract!Spec

================================================================================
