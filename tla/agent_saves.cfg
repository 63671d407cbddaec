SPECIFICATION Spec
CONSTANTS
  Clients = {}
  Peers = {p1, p2}
  Handlers = {h1, h2}
  None = None
  MaxFaults = 0
  MaxRemovals = 0
INVARIANT PeersSurviveRestart
