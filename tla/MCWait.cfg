SPECIFICATION FairWait
CONSTANTS
  c1 = c1  m1 = m1
  A = A  B = B  w1 = w1  slug = slug  other = other
  NoToken = NoToken  NoId = NoId
  Words <- OneWord
  Tokens <- AllTokens
  Names <- AllNames
  ValidNames <- AllNames
  Procs <- ClientAndM1
  Threads <- ClientAndM1
  ProcOf <- AloneM1
  Menu <- FullMenu
  MaxCounter = 0
  InitFiles <- AnyFile
  Waiters <- OneWith
  Target <- M1ForSlug
  Half = 1048576
  Texts <- ManyTexts
  CommandLines <- EitherWay
  Second = 2
  Jumps <- ASecond
  MaxShift = 2
  Faults = {"io", "crash"}
INVARIANTS
  WaitTypeOK
  VerdictWasTrue
  TimeoutInTime
PROPERTIES
  TimedWaitEnds
  SettledWaitEnds
