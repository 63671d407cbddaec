SPECIFICATION Spec
CONSTANTS
  Users = {u1, u2}
  Tokens = {t1, t2, t3}
  Handlers = {h1, h2}
  MaxFaults = 1
  NoUser = NoUser
  NoToken = NoToken
INVARIANT OneLivePerChain
INVARIANT ReuseEndsLogins
SYMMETRY Same
