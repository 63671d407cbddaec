SPECIFICATION FairSpec
CONSTANTS
  v1 = v1
  v2 = v2
  Servers = {v1, v2}
  Subs = {s1, s2}
  Room <- SmallReserve
  Reports <- KeyReports
  Down = Down
  NoServer = NoServer
  MaxErrors = 1
  Settable = {"active", "offline"}
INVARIANT DoesNotFlap
PROPERTY BadIsDrained
