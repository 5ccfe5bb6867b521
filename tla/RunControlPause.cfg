SPECIFICATION Spec
CONSTANTS
  Addrs = {1}
  Clients = {c1}
  Uses = {"advance", "until", "pause", "resume", "reset", "bp"}
  Keys = {"step", "pause"}
  Events = {"halt", "slow", "live"}
  Slots = {s1}
  Ask = {1, 2}
  Inputs = {a}
  Torn = torn
  Wrap = 5
  MaxSteps = 2
  RestWaitMax = 1
  MaxLen = 0
  None = none
  Interval = 2
  Budget = 1
  NoPhoto = nophoto
INVARIANTS FieldsExact
