SPECIFICATION Spec
CONSTANTS
  h = h
  c = c
  d = d
  Nodes = {h, c, d}
  NoNode = NoNode
  Broadcast = Broadcast
  UDSMaxNodes = 3
  Channels = {1}
  MaxBindNodes = 1
  Programs <- MCPrograms
INVARIANT
  NodeIdsDistinct
CHECK_DEADLOCK FALSE
