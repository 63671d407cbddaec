SPECIFICATION Spec
CONSTANTS
  Users = {u1, u2}
  Orders = {o1, o2, o3}
  Handlers = {h1, h2}
  Nobody = Nobody
  NoOrder = NoOrder
  MaxPending = 1
  MaxUses = 1
  MaxFaults = 1
SYMMETRY Symmetry
INVARIANTS PromoKept PendingBounded
\* The order ids run out, which no database does.
CHECK_DEADLOCK FALSE
