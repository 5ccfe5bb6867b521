SPECIFICATION Spec
CONSTANTS
  Guests = {g1, g2}
  NSlots = 3
  Delay = 1
  HashEvery = 2
  HashKeep = 2
  Pads = {"a"}
  Neutral = "neutral"
  ViewModes = {}
  Incompatible = {g2}
  Divergent = {}
  Faults = {"break", "quit", "close", "refuse"}
  Leavers = {g2}
  None = none
  MaxField = 2
  MaxEpoch = 2
CHECK_DEADLOCK FALSE
INVARIANTS DesyncSound PortsSound
