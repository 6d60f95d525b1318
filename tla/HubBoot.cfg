\* Starts, Stops and crashes of one hub, with every kind of Options.
CONSTANTS
  Nil = Nil  Broken = Broken  Foreign = Foreign
  Inputs <- MCInputs
  Builds <- MCBuilds
  SubProto <- MCSubProto
  Configs <- MCConfigs
  Ids <- TwoIds
  MaxPairs = 2
SPECIFICATION Spec
INVARIANTS
  TypeOK
  ServesComplete
  PairMatches
  NodeIDAgrees
  NoSilentFallback
PROPERTY StartReturns
