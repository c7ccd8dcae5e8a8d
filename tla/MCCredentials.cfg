SPECIFICATION Spec
CONSTANTS
  Issues = {i1, i2}
  Renewals = {r1, r2}
  NoOp = noop
  Handlers = {h1, h2}
  Nobody = nobody
  MaxGeneration = 6
SYMMETRY Symmetry
INVARIANTS
  OnlyNewestUsable
  OperationOnce
  NewestIsHeld
  LeaseFollowsCredential
PROPERTY
  ImplementsRegister
CHECK_DEADLOCK FALSE
