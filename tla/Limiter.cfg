SPECIFICATION Spec
CONSTANTS
  Clients = {"a", "b"}
  RPS = 1
  Cost = 2
  Ttl = 4
  Horizon = 7
INVARIANTS BoundedRate
PROPERTY WindowSpec
