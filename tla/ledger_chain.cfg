SPECIFICATION Spec
CONSTANTS
  c1 = c1
  c2 = c2
  c3 = c3
  c4 = c4
  alice = alice
  bob = bob
  Charges = {c1, c2, c3, c4}
  Account <- AccountOf
  Genesis = Genesis
SYMMETRY Symmetry
INVARIANTS ChainGrounded SerialIsChain
\* Every order is finalised once.
CHECK_DEADLOCK FALSE
