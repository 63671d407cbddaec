SPECIFICATION Spec
CONSTANTS
  Subs = {s1, s2}
  WireGuard = {s1, s2}
  Servers = {v1, v2}
  Reserve = {v2}
  IPs <- Addresses
  Last <- LastAddress
  MaxMigrations = 0
  MaxFaults = 0
  NoKey = NoKey
  NoServer = NoServer
INVARIANT AddressesSerialised
