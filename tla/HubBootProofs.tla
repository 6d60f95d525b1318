----------------------------- MODULE HubBootProofs -----------------------------
(***************************************************************************)
(* Proofs about HubBoot for any Options, builds and configurations, and    *)
(* any number of certificates: Inv is inductive, in three parts that each  *)
(* need only the types, and its conjuncts imply the properties.            *)
(***************************************************************************)
EXTENDS HubBoot, TLAPS

\* The types and the pair: which files the Options name, and what is in them.
Paired == TypeOK /\ PairInProgress /\ PairMatches

LEMMA InitInv == ASSUME Init PROVE Inv
<1> USE BootAssumption DEF Init, Given
<1>1. given \in InputType
  OBVIOUS
<1>2. TypeOK
  <2>1. Given \in [node : Ids \cup {given.node}, files : FilesOfUse]
    BY DEF FilesOfUse
  <2>2. {opts, local} \subseteq [node : Ids \cup {given.node}, files : FilesOfUse]
    BY <2>1
  <2>3. 0 \in 0..MaxPairs
    OBVIOUS
  <2> QED BY <2>2, <2>3 DEF TypeOK
<1>3. PairInProgress /\ AnswerTaken /\ Staged
  BY DEF PairInProgress, AnswerTaken, Staged, Serving
<1>4. PairMatches
  BY <1>1 DEF PairMatches, InputType, Files
<1> QED BY <1>2, <1>3, <1>4 DEF Inv

\* Every return of a Start, a Stop or a crash keeps or resets the Options.
LEMMA ReturnPaired ==
  ASSUME Paired, NEW kept \in {opts, Given}, Return(kept),
         UNCHANGED disk \/ /\ pc \in {"writeCert", "writeKey"}
                           /\ certFile' \in {certFile, Broken}
                           /\ keyFile' \in {keyFile, Broken}
                           /\ made' = made
  PROVE  Paired'
<1> USE BootAssumption DEF Paired, Return, env, disk
<1>1. given \in InputType
  BY DEF TypeOK
<1>2. kept \in [node : Ids \cup {given.node}, files : FilesOfUse]
  BY <1>1 DEF TypeOK, Given, FilesOfUse, InputType
<1>3. TypeOK'
  <2>1. /\ UNCHANGED <<given, build, shared>> /\ made' = made
        /\ opts' = kept /\ local' = kept /\ pc' = "idle" /\ answer' = Nil
        /\ conf' = Nil /\ registered' = {} /\ fallback' = FALSE /\ bound' = {}
        /\ server' = Nil
    OBVIOUS
  <2>2. {certFile', keyFile'} \subseteq {certFile, keyFile, Broken}
    OBVIOUS
  <2>3. FilesOfUse' = FilesOfUse /\ Handlers' = Handlers
    BY <2>1 DEF FilesOfUse, NeedsPair, Handlers
  <2>4. made' \in 0..MaxPairs
    BY <2>1 DEF TypeOK
  <2> QED BY <1>2, <2>1, <2>2, <2>3, <2>4 DEF TypeOK
<1>4. PairInProgress'
  BY DEF PairInProgress
<1>5. kept.files = "dev" => opts.files = "dev"
  BY <1>1 DEF Given, InputType, Files
<1>6. pc \in {"writeCert", "writeKey"} => opts.files = "none"
  BY DEF PairInProgress
<1>7. PairMatches'
  BY <1>5, <1>6 DEF PairMatches, DevPairMatches
<1> QED BY <1>3, <1>4, <1>7

LEMMA PairedStep == ASSUME Paired, [Next]_vars PROVE Paired'
<1> USE BootAssumption
<1> USE DEF Goto, env, disk, assembly
<1>1. CASE StartStep
  <2> USE DEF Paired, TypeOK, PairInProgress, PairMatches, DevPairMatches,
              StartPoints, FilesOfUse, NeedsPair, Handlers
  <2>1. CASE KeepFiles BY <2>1 DEF KeepFiles
  <2>2. CASE GeneratePair
    <3>1. made + 1 \in Pairs
      BY <2>2 DEF GeneratePair, GenerateFor, Pairs
    <3>2. made' \in 0..MaxPairs
      BY <2>2, <3>1 DEF GeneratePair, GenerateFor, Pairs
    <3> QED BY <2>2, <3>1, <3>2 DEF GeneratePair, GenerateFor
  <2>3. CASE WriteCert BY <2>3 DEF WriteCert
  <2>4. CASE WriteCertFails
    BY <2>4, ReturnPaired DEF WriteCertFails
  <2>5. CASE WriteKey
    <3>1. /\ pc = "writeKey" /\ pc' = "parent" /\ keyFile' = made
          /\ local' = [local EXCEPT !.files = "dev"]
          /\ made \in Pairs /\ "dev" \in FilesOfUse
          /\ ~shared => certFile = made
      BY <2>5 DEF WriteKey
    <3>2. local' \in [node : Ids \cup {given.node}, files : FilesOfUse]
      BY <3>1
    <3> QED BY <2>5, <3>1, <3>2 DEF WriteKey
  <2>6. CASE WriteKeyFails
    BY <2>6, ReturnPaired DEF WriteKeyFails
  <2>7. CASE CheckParent BY <2>7 DEF CheckParent
  <2>8. CASE TakeNodeID BY <2>8 DEF TakeNodeID, Assigned
  <2>9. CASE SelfRegisterFails \/ RegisterFails \/ StartFails
    BY <2>9, ReturnPaired DEF SelfRegisterFails, RegisterFails, StartFails
  <2>10. CASE Assemble BY <2>10 DEF Assemble
  <2>11. CASE RegisterNext BY <2>11 DEF RegisterNext, Following
  <2>12. CASE RegisterDefault BY <2>12 DEF RegisterDefault, RegisterFallback
  <2>13. CASE StartServer
    <3>1. local.node \in Ids \cup {0}
      BY DEF InputType
    <3> QED BY <2>13, <3>1 DEF StartServer
  <2>14. CASE BindNext BY <2>14 DEF BindNext, Following
  <2>15. CASE Bound BY <2>15 DEF Bound
  <2>16. CASE Publish BY <2>16 DEF Publish
  <2> QED BY <1>1, <2>1, <2>2, <2>3, <2>4, <2>5, <2>6, <2>7, <2>8, <2>9, <2>10,
             <2>11, <2>12, <2>13, <2>14, <2>15, <2>16 DEF StartStep
<1>2. CASE BeginStart
  BY <1>2 DEF BeginStart, Paired, TypeOK, PairInProgress, PairMatches, DevPairMatches,
     StartPoints, FilesOfUse, NeedsPair, Handlers
<1>3. CASE Stop \/ Crash
  BY <1>3, ReturnPaired DEF Stop, Crash
<1>4. CASE ParentAnswers
  BY <1>4 DEF ParentAnswers, Paired, TypeOK, PairInProgress, PairMatches,
     DevPairMatches, FilesOfUse, NeedsPair, Handlers
<1>5. CASE OtherWrites
  BY <1>5 DEF OtherWrites, Paired, TypeOK, PairInProgress, PairMatches,
     FilesOfUse, NeedsPair, Handlers
<1>6. CASE UNCHANGED vars
  BY <1>6 DEF vars, Paired, TypeOK, PairInProgress, PairMatches, DevPairMatches,
     FilesOfUse, NeedsPair, Handlers
<1> QED BY <1>1, <1>2, <1>3, <1>4, <1>5, <1>6 DEF Next

-----------------------------------------------------------------------------
\* What the parent answered is in the Options of the Start before they are used.
LEMMA AnswerStep ==
  ASSUME TypeOK, PairInProgress, AnswerTaken, [Next]_vars PROVE AnswerTaken'
<1> USE BootAssumption
<1> USE DEF Goto, Return, env, disk, assembly, AnswerTaken, Serving
<1>1. CASE StartStep
  <2>1. CASE TakeNodeID
    <3>1. /\ answer \in Ids /\ answer' = answer /\ pc' = "assemble"
          /\ local' = [local EXCEPT !.node = answer]
      BY <2>1 DEF TakeNodeID, Assigned
    <3>2. local'.node = answer
      BY <3>1 DEF TypeOK
    <3> QED BY <3>1, <3>2
  <2>2. CASE WriteCertFails \/ WriteKeyFails \/ SelfRegisterFails \/ RegisterFails
             \/ StartFails
    BY <2>2 DEF WriteCertFails, WriteKeyFails, SelfRegisterFails, RegisterFails,
       StartFails
  <2>3. CASE KeepFiles \/ GeneratePair \/ WriteCert \/ WriteKey \/ CheckParent
             \/ Assemble \/ RegisterNext \/ RegisterDefault
    BY <2>3 DEF KeepFiles, GeneratePair, GenerateFor, WriteCert, WriteKey, CheckParent,
       Assemble, RegisterNext, RegisterDefault, RegisterFallback
  <2>4. CASE StartServer \/ BindNext \/ Bound \/ Publish
    BY <2>4 DEF StartServer, BindNext, Bound, Publish
  <2> QED BY <1>1, <2>1, <2>2, <2>3, <2>4 DEF StartStep
<1>2. CASE BeginStart BY <1>2 DEF BeginStart
<1>3. CASE Stop \/ Crash BY <1>3 DEF Stop, Crash
<1>4. CASE ParentAnswers BY <1>4 DEF ParentAnswers
<1>5. CASE OtherWrites BY <1>5 DEF OtherWrites
<1>6. CASE UNCHANGED vars BY <1>6 DEF vars
<1> QED BY <1>1, <1>2, <1>3, <1>4, <1>5, <1>6 DEF Next

\* Nothing is served before it is complete.
LEMMA StagedStep == ASSUME TypeOK, Staged, [Next]_vars PROVE Staged'
<1> USE BootAssumption
<1> USE DEF Goto, Return, env, disk, assembly, Staged, Serving, Handlers, StoresUsed
<1>1. CASE StartStep
  <2>1. CASE WriteCertFails \/ WriteKeyFails \/ SelfRegisterFails \/ RegisterFails
             \/ StartFails
    BY <2>1 DEF WriteCertFails, WriteKeyFails, SelfRegisterFails, RegisterFails,
       StartFails
  <2>2. CASE KeepFiles \/ GeneratePair \/ WriteCert \/ WriteKey \/ CheckParent
             \/ TakeNodeID
    BY <2>2 DEF KeepFiles, GeneratePair, GenerateFor, WriteCert, WriteKey, CheckParent,
       TakeNodeID, Assigned
  <2>3. CASE Assemble
    BY <2>3 DEF Assemble
  <2>4. CASE RegisterNext \/ RegisterDefault
    BY <2>4 DEF RegisterNext, RegisterDefault, RegisterFallback
  <2>5. CASE StartServer
    <3>1. given \in InputType /\ local.node \in Ids \cup {given.node}
      BY DEF TypeOK
    <3>2. given.node \in Ids \cup {0}
      BY <3>1 DEF InputType
    <3>3. local.node # Nil
      <4>1. Nil \notin Ids \cup {0} OBVIOUS
      <4> QED BY <4>1, <3>1, <3>2, Zenon
    <3>4. /\ pc = "listen" /\ pc' = "bind" /\ server' = local.node
          /\ UNCHANGED <<build, given, conf, registered, fallback, bound>>
      BY <2>5 DEF StartServer
    <3>5. server' # Nil
      BY <3>3, <3>4
    <3>6. conf' \in Configs /\ \A s \in StoresUsed' : Persistence(s, conf') # "error"
      BY <3>4
    <3> QED BY <3>4, <3>5, <3>6
  <2>6. CASE BindNext \/ Bound \/ Publish
    BY <2>6 DEF BindNext, Bound, Publish
  <2> QED BY <1>1, <2>1, <2>2, <2>3, <2>4, <2>5, <2>6 DEF StartStep
<1>2. CASE BeginStart BY <1>2 DEF BeginStart
<1>3. CASE Stop \/ Crash BY <1>3 DEF Stop, Crash
<1>4. CASE ParentAnswers BY <1>4 DEF ParentAnswers
<1>5. CASE OtherWrites BY <1>5 DEF OtherWrites
<1>6. CASE UNCHANGED vars BY <1>6 DEF vars
<1> QED BY <1>1, <1>2, <1>3, <1>4, <1>5, <1>6 DEF Next

-----------------------------------------------------------------------------
\* The invariant holds for any Options, builds, configurations and assigned ids, any
\* bound on the certificates, and every sequence of Starts, Stops and crashes.
THEOREM Invariance == Spec => []Inv
<1>1. Init => Inv
  BY InitInv
<1>2. Inv /\ [Next]_vars => Inv'
  BY PairedStep, AnswerStep, StagedStep DEF Inv, Paired
<1> QED BY <1>1, <1>2, PTL DEF Spec

\* The type invariant; the certificate files a caller gave are never replaced.
THEOREM TypeCorrect == Spec => []TypeOK
<1>1. Inv => TypeOK
  BY DEF Inv
<1> QED BY <1>1, Invariance, PTL

\* Frames only reach complete dispatchers, and a Start that returned has bound them.
THEOREM ServedComplete == Spec => []ServesComplete
<1>1. Inv => ServesComplete
  BY DEF Inv, Staged, Serving, ServesComplete
<1> QED BY <1>1, Invariance, PTL

\* In a directory of its own a hub never trusts half a pair.
THEOREM PairsMatch == Spec => []PairMatches
<1>1. Inv => PairMatches
  BY DEF Inv
<1> QED BY <1>1, Invariance, PTL

\* Server, Options and parent agree on the node id.
THEOREM NodeIDsAgree == Spec => []NodeIDAgrees
<1>1. Inv => NodeIDAgrees
  BY DEF Inv, PairInProgress, AnswerTaken, Serving, NodeIDAgrees
<1> QED BY <1>1, Invariance, PTL

\* What the choice of a backend returns: the built-in one or an error unless
\* PostgreSQL was named, and an error for any name it does not know.
LEMMA ChosenAsNamed ==
  ASSUME NEW c \in ConfigType, NEW s \in Stores, Persistence(s, c) # "error"
  PROVE  /\ c[s] \in Builtin(s) \cup {"", "pg"}
         /\ Persistence(s, c) = "pg" <=> c[s] = "pg"
<1> USE DEF Persistence, ValueOf, Builtin, BackendValue, ArchiveValue
<1>1. CASE s = "flow" BY <1>1
<1>2. CASE s = "varstore" BY <1>2
<1>3. CASE s = "archive" BY <1>3
<1> QED BY <1>1, <1>2, <1>3 DEF Stores

\* A hub that serves keeps its state where it was told to.
THEOREM NeverFallsBack == Spec => []NoSilentFallback
<1>1. Inv => NoSilentFallback
  <2> SUFFICES ASSUME Inv, server # Nil, NEW s \in StoresUsed
               PROVE  /\ conf[s] \in Builtin(s) \cup {"", "pg"}
                      /\ Persistence(s, conf) = "pg" <=> conf[s] = "pg"
    BY DEF NoSilentFallback
  <2>1. conf \in ConfigType /\ s \in Stores /\ Persistence(s, conf) # "error"
    BY BootAssumption DEF Inv, Staged, StoresUsed
  <2> QED BY <2>1, ChosenAsNamed
<1> QED BY <1>1, Invariance, PTL
================================================================================
