SPECIFICATION EngineSpec
CONSTANTS
  v1 = v1
  v2 = v2
  Servers = {v1, v2}
  Subs = {s1}
  Room <- SmallReserve
  Reports <- BlockedOrNot
  Down = Down
  NoServer = NoServer
  MaxErrors = 0
  Settable = {"active", "offline"}
PROPERTY OnlyAutoMarkedRecovered
