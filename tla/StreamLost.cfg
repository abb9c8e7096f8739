SPECIFICATION FairSpec
CONSTANTS
  Clients = {1}
  Loops = {"read", "write"}
  Nobody = Nobody
  SendBuffer = 1
  MaxConns = 1
PROPERTIES LostIsGivenUp
