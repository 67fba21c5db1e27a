SPECIFICATION FairSpec

CONSTANTS
  Users = {ana, bob}
  NoUser = NoUser
  Requests = {r1, r2}
  NoRequest = NoRequest
  Objects = {o1, o2, o3, o4}
  NoObject = NoObject
  MaxAttempts = 2
  Environments <- Answering

CHECK_DEADLOCK FALSE

PROPERTY EveryRequestEnds
