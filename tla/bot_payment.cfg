SPECIFICATION BotSpec
CONSTANTS
  c1 = c1
  c2 = c2
  wg = wg
  vless = vless
  p1 = p1
  s1 = s1
  Countries = {c1, c2}
  Protocols = {wg, vless}
  Plans = {p1}
  Subs = {s1}
  WireGuard = wg
  SubCountry <- MCSubCountry
  SubProtocol <- MCSubProtocol
  None = None
  MaxPresses = 4
  MaxOrders = 1
  MaxUpdates = 2
  MaxErrors = 1
  MaxCrashes = 0
CHECK_DEADLOCK FALSE
PROPERTY PaymentFinalized
