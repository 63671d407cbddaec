SPECIFICATION Spec
CONSTANTS
  oNew = oNew
  oRenew = oRenew
  oStars = oStars
  s1 = s1
  h1 = h1
  h2 = h2
  Orders = {oNew}
  StarsOrders = {}
  HttpWorkers = {h1, h2}
  Bot = bot
  Subs = {s1}
  NoSub = NoSub
  NoJob = NoJob
  Renews <- RenewsNothing
  Reversals <- NoReversals
  MaxFaults = 1
INVARIANT AcknowledgedIsSettled
