SPECIFICATION Spec
CONSTANTS
  p1 = p1  p2 = p2  p3 = p3  old = old  new = new
  NoVersion = NoVersion  Nobody = Nobody
  Versions <- OldAndNew
  Wrappers <- Two
  Renames <- OnlyCopies
  Setups <- TwoFromNothing
INVARIANTS
  SelfHealing
