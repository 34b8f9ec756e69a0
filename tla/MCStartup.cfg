SPECIFICATION Spec
CONSTANTS
  p1 = p1  p2 = p2  A = A  w1 = w1  w2 = w2  w3 = w3
  NoToken = NoToken  NoId = NoId
  Tokens <- AllTokens
  Names <- AllNames
  ValidNames <- NoNames
  Half = 1048576
  Texts <- AllTexts
  WordlistSize = 2
  Raws <- AllRaws
  Procs <- TwoProcs
  Commands <- AllCommands
  Environments <- AllEnvironments
  Conditions <- AllConditions
  Times = {2, 3}
  MaxIssued = 2
  Faults = {"io", "kill"}
  Ids <- AllIds
  IdBefore <- Earlier
  ConditionMaxWidth = 4
  Second = 2
SYMMETRY Either
INVARIANTS
  StartupTypeOK
  NoIdTwice
  TablesAgree
  TimeoutAsAsked
  TimeoutAtMostAsked
PROPERTY
  ListIsComplete
