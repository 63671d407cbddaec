SPECIFICATION Spec
CONSTANTS
  Subs = {s1}
  WireGuard = {s1}
  Servers = {v1, v2}
  Reserve = {v2}
  IPs <- Addresses
  Last <- LastAddress
  MaxMigrations = 1
  MaxFaults = 0
  NoKey = NoKey
  NoServer = NoServer
INVARIANT DeleteDeprovisions
