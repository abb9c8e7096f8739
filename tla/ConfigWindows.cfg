SPECIFICATION FairSpec
CONSTANTS
  n1 = n1
  n2 = n2
  l1 = l1
  network = network
  sshd = sshd
  Txs = {n1, n2}
  Targets = {network}
  TargetOf <- MCNetOnly
  NetTargets = {network}
  Fresh = {network}
  NoTx = NoTx
  Orig = Orig
  Absent = Absent
  Torn = Torn
  NoCopy = NoCopy
  NoImage = NoImage
  Diskless = FALSE
  Faults = {}
  SameSecond = TRUE
  MaxConfirms = 1
  Retain = 1
  MaxCleanups = 0
  MaxCrashes = 0
INVARIANTS TypeOK OneWindow WindowShowsChange
PROPERTIES WindowCloses ConfirmInTime ImplementsCommitConfirm
