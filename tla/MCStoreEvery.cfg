SPECIFICATION Spec
CONSTANTS
  t1 = t1  t2 = t2  t3 = t3
  p1 = p1  p2 = p2  p3 = p3
  A = A  B = B  w1 = w1  w2 = w2  slug = slug  bad = bad
  NoToken = NoToken  NoId = NoId  NoThread = NoThread
  Words <- OneWord
  Tokens <- AllTokens
  Names <- AllNames
  ValidNames <- GoodNames
  Procs <- TwoProcs
  Threads <- TwoThreads
  ProcOf <- OneEach
  Menu <- EveryMenu
  MaxCounter = 1
  InitFiles <- EveryForm
  Faults = {"io", "crash"}
INVARIANTS
  TypeOK
  ReportedIsCommitted
PROPERTIES
  RecordsPersist
  ResolveAuthority
  RegisterKeepsRecords
  FailClosed
  DeletedOnlyByPurge
