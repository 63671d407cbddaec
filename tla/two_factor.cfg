SPECIFICATION Spec
CONSTANTS
  Secrets = {s1, s2}
  Handlers = {h1, h2}
  None = None
INVARIANT EnabledIsConfirmed
