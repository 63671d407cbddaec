SPECIFICATION Spec
CONSTANTS
  Subs = {s1, s2}
  WireGuard = {s1, s2}
  Servers = {v1, v2}
  Reserve = {v2}
  IPs <- Addresses
  Last <- LastAddress
  MaxMigrations = 1
  MaxFaults = 1
  NoKey = NoKey
  NoServer = NoServer
SYMMETRY Interchangeable
INVARIANT OneActiveKey
INVARIANT NeverCutOff
INVARIANT ConfigServed
INVARIANT CountsClients
INVARIANT RouteLostOnlyToRace
INVARIANT DeleteIsClean
INVARIANT NobodyForgotten
