SPECIFICATION BotSpec
CONSTANTS
  c1 = c1
  c2 = c2
  wg = wg
  vless = vless
  p1 = p1
  s1 = s1
  Countries = {c1, c2}
  Protocols = {wg, vless}
  Plans = {p1}
  Subs = {s1}
  WireGuard = wg
  SubCountry <- MCSubCountry
  SubProtocol <- MCSubProtocol
  None = None
  MaxPresses = 6
  MaxOrders = 2
  MaxUpdates = 2
  MaxErrors = 1
  MaxCrashes = 1
CHECK_DEADLOCK FALSE
PROPERTY OrderIsLastChoice
PROPERTY OrderIsChosenAnew
PROPERTY PaymentHandled
