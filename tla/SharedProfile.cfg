SPECIFICATION Spec

CONSTANTS
  Users = {ana, bob}
  NoUser = NoUser
  Requests = {r1, r2}
  NoRequest = NoRequest
  Objects = {o1, o2, o3}
  NoObject = NoObject
  MaxAttempts = 2
  Environments <- Calm

CHECK_DEADLOCK FALSE

SYMMETRY Anyone

INVARIANT OrdersOnOwnBalance
