SPECIFICATION WaitSpec
CONSTANTS
  c1 = c1  m1 = m1
  A = A  B = B  w1 = w1  slug = slug  other = other
  NoToken = NoToken  NoId = NoId
  Words <- OneWord
  Tokens <- AllTokens
  Names <- AllNames
  ValidNames <- AllNames
  Procs <- ClientAndM1
  Threads <- ClientAndM1
  ProcOf <- AloneM1
  Menu <- IdleMenu
  MaxCounter = 0
  InitFiles <- NoFile
  Waiters <- OneWith
  Target <- M1ForSlug
  Half = 1048576
  Texts <- ManyTexts
  CommandLines <- EitherWay
  Second = 2
  Jumps <- NoJumps
  MaxShift = 0
  Faults = {"install", "panic"}
INVARIANTS
  PollsOnlyPending
