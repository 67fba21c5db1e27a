SPECIFICATION FairSpec

CONSTANTS
  Users = {ana, bob}
  Entries = {e1, e2}
  NoEntry = NoEntry
  Fetches = {f1, f2}
  NoFetch = NoFetch
  NoUser = NoUser
  Workers = 2
  MaxLogins = 2
  Returning <- Someone

INVARIANTS
  TypeOK
  LockHasOneHolder
  CatalogueSinceConnect
  BackoffSequence
  OneFetchPerEntry

PROPERTY LocksAreReleased
