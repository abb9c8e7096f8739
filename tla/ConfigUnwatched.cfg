SPECIFICATION Spec
CONSTANTS
  n1 = n1
  n2 = n2
  l1 = l1
  network = network
  sshd = sshd
  Txs = {n1, l1}
  Targets = {network, sshd}
  TargetOf <- MCOneEach
  NetTargets = {network}
  Fresh = {}
  NoTx = NoTx
  Orig = Orig
  Absent = Absent
  Torn = Torn
  NoCopy = NoCopy
  NoImage = NoImage
  Diskless = TRUE
  Faults = {}
  SameSecond = FALSE
  MaxConfirms = 1
  Retain = 1
  MaxCleanups = 0
  MaxCrashes = 1
INVARIANTS UnconfirmedIsWatched
