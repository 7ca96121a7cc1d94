SPECIFICATION Spec
CONSTANTS
  p1 = p1
  p2 = p2
  p3 = p3
  Producers = {p1, p2, p3}
  MaxSend = 2
  Null = Null
  Nodes = {n1, n2, n3, n4}
  Capacities <- MCCapacities
  RingSizes = {0, 2}
  Kinds = {"fair"}
  Shared = {p2, p3}
INVARIANT NoSenderStuck
CHECK_DEADLOCK FALSE
