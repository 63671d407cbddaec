SPECIFICATION Spec
CONSTANTS
  Users = {u1}
  Tokens = {t1, t2, t3}
  Handlers = {h1, h2}
  MaxFaults = 0
  NoUser = NoUser
  NoToken = NoToken
INVARIANT ReuseRevokesChain
