SPECIFICATION ApiSpec
CONSTANTS
  Secrets = {}
  Handlers = {h1}
  Tokens = {}
  None = None
  NoToken = NoToken
  Limit = 1
  Life = 1
  MaxFaults = 1
INVARIANT WindowIsFixed
