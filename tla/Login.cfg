SPECIFICATION FairSpec
CONSTANTS
  r1 = r1
  r2 = r2
  r3 = r3
  c1 = c1
  admin = admin
  host = host
  port = port
  NoPort = NoPort
  Calls = {r1, r2, r3, c1}
  Requests = {r1, r2, r3}
  Users = {admin}
  UserOf <- MCUserOf
  Addresses <- MCAddresses
  AddrOf <- MCAddrOf
  TTL = 1
  MaxSessions = 1
  MaxAttempts = 2
  Lockout = 2
  Stale = 2
INVARIANTS LockCounted OldReplaced
PROPERTIES NoRevival LockoutLasts Swept
