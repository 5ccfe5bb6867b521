SPECIFICATION FairSpec
CONSTANTS
  Guests = {g1}
  NSlots = 2
  Delay = 1
  HashEvery = 2
  HashKeep = 2
  Pads = {"a"}
  Neutral = "neutral"
  ViewModes = {"auto"}
  Incompatible = {}
  Divergent = {g1}
  Faults = {"break"}
  Leavers = {g1}
  None = none
  MaxField = 3
  MaxEpoch = 3
CHECK_DEADLOCK FALSE
PROPERTIES NobodyStuck
INVARIANTS TypeOK FieldsAgree
