SPECIFICATION Spec
CONSTANTS
  Clients = {c1, c2}
  Peers = {p1, p2}
  Handlers = {h1, h2}
  None = None
  MaxFaults = 1
  MaxRemovals = 2
INVARIANT AddedIsServed
INVARIANT RemovedIsGone
INVARIANT QuietSaveRepairs
PROPERTY Answered
