SPECIFICATION FairSpec
CONSTANTS
  Clients = {1, 2}
  Loops = {"read", "write"}
  Nobody = Nobody
  Devices = {"sda", "sdb"}
  Width = 7
  Interval = 2
  SendBuffer = 1
  WSMaxConns = 1
  Scenes <- Handlers
INVARIANTS CapHolds
PROPERTIES GoneIsGivenUp
