SPECIFICATION Spec
CONSTANTS
  Clients = {1, 2}
  Loops = {"read", "write"}
  Nobody = Nobody
  SendBuffer = 1
  MaxConns = 1
INVARIANTS TypeOK Accounted ShutdownDrains
