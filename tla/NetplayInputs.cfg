SPECIFICATION Spec
CONSTANTS
  Guests = {g1}
  NSlots = 2
  Delay = 1
  HashEvery = 1
  HashKeep = 3
  Pads = {"a", "b"}
  Neutral = "neutral"
  ViewModes = {}
  Incompatible = {}
  Divergent = {g1}
  Faults = {}
  Leavers = {g1}
  None = none
  MaxField = 2
  MaxEpoch = 2
CHECK_DEADLOCK FALSE
INVARIANTS InputAgreement
PROPERTIES ImplementsLockstep
