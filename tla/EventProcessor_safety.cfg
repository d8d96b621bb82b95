SPECIFICATION Spec
CONSTANTS
  t1 = t1
  t2 = t2
  o1 = o1
  o2 = o2
  Ids <- Two
  InstIds <- Two
  NoId = 0
  Threads <- OneThread
  NoThread = NoThread
  Objects <- TwoObjects
  NoObject = NoObject
  Times <- Two
  SelfIds <- One
  Owns <- Passed
  MaxCalls = 5
SYMMETRY ObjectSymmetry
INVARIANTS
  ReferencesAgree
  SnapshotMapped
PROPERTIES
  CombatIsKept
