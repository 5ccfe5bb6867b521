SPECIFICATION FairSpec
CONSTANTS
  Addrs = {1}
  Clients = {c1}
  Uses = {"save", "load", "rewind", "advance"}
  Keys = {"pause", "save"}
  Events = {"halt"}
  Slots = {s1}
  Ask = {1}
  Inputs = {a}
  Torn = torn
  Wrap = 8
  MaxSteps = 2
  RestWaitMax = 2
  MaxLen = 1
  None = none
  Interval = 2
  Budget = 1
  NoPhoto = nophoto
PROPERTIES EverythingServed
