SPECIFICATION Spec
CONSTANTS
  n1 = n1
  n2 = n2
  l1 = l1
  network = network
  sshd = sshd
  Txs = {n1, n2}
  Targets = {network}
  TargetOf <- MCNetOnly
  NetTargets = {network}
  Fresh = {}
  NoTx = NoTx
  Orig = Orig
  Absent = Absent
  Torn = Torn
  NoCopy = NoCopy
  NoImage = NoImage
  Diskless = FALSE
  Faults = {}
  SameSecond = FALSE
  MaxConfirms = 0
  Retain = 1
  MaxCleanups = 0
  MaxCrashes = 0
INVARIANTS OriginalRestored
