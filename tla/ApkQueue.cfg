SPECIFICATION FairSpec
CONSTANTS
  Ops = {o1, o2, o3, o4}
  NoOp = NoOp
  MaxQueue = 2
  MaxHistory = 2
INVARIANTS OneCommand InOrder QueueHasRunner Pollable
PROPERTIES EveryOpSettles ImplementsExecutor
