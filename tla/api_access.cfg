SPECIFICATION ApiSpec
CONSTANTS
  Secrets = {s1, s2}
  Handlers = {h1, h2}
  Tokens = {t1}
  None = None
  NoToken = NoToken
  Limit = 1
  Life = 2
  MaxFaults = 1
INVARIANTS EnabledHasSecret UnconfirmedOnlyByOverlap
INVARIANTS RightsEndWithTokens WindowWillClose AuditComplete
PROPERTY LogoutSticks
SYMMETRY Same
CONSTRAINT Focus
