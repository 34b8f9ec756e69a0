SPECIFICATION SessionSpec
CONSTANTS
  t1 = t1  t2 = t2  t3 = t3  p1 = p1  p2 = p2  p3 = p3
  A = A  B = B  w1 = w1  slug = slug
  NoToken = NoToken  NoId = NoId
  Words <- OneWord
  Tokens <- AllTokens
  Names <- AllNames
  ValidNames <- Slugs
  Procs <- ThreeProcs
  Threads <- ThreeThreads
  ProcOf <- OneEach
  Servers <- TwoServers
  Menu <- SessionMenu
  MaxCounter = 65537
  InitFiles <- NearWidth
SYMMETRY Swap
INVARIANTS
  SessionTypeOK
  IssuedUnique
  AnswersStand
PROPERTY
  OrphansNeedForce
