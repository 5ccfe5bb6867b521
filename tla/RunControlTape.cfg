SPECIFICATION Spec
CONSTANTS
  Addrs = {1}
  Clients = {c1}
  Uses = {"resume"}
  Keys = {"save", "load", "rewind"}
  Events = {"net"}
  Slots = {s1}
  Ask = {1, 2}
  Inputs = {a, b}
  Torn = torn
  Wrap = 8
  MaxSteps = 2
  RestWaitMax = 1
  MaxLen = 2
  None = none
  Interval = 1
  Budget = 2
  NoPhoto = nophoto
INVARIANTS TapeIsPast
