CONSTANTS
  r1 = r1
  r2 = r2
  a = a
  b = b
  c = c
  v1 = v1
  v2 = v2
  Request <- TwoRequests
  Name <- ThreeNames
  Value <- TwoValues
  Zero = Zero
  One = v1
  Ops <- AllOps
  Starts <- SomeStarts
  MaxErrors = 1
  MaxSyncs = 1
SYMMETRY Symmetry
SPECIFICATION Spec
INVARIANTS
  TypeOK
  StepsCover
  VersionMeansApplied
  AutoExecSeesUpdate
PROPERTIES
  QuietUpdateIsStored
