SPECIFICATION LobbySpec
CONSTANTS
  Roles = {"host", "guest"}
  Silent = FALSE
  Upnp = TRUE
  MaxGen = 6
  Hosts = {h1, h2}
  Guests = {g1, g2}
  None = None
  Failures = {"connect", "quit", "stop"}
  h1 = h1
  h2 = h2
  g1 = g1
  g2 = g2
INVARIANTS NothingLeft WaitsForARoom
PROPERTIES StopReturns TokenServesOnce RelayProgress
CHECK_DEADLOCK FALSE
