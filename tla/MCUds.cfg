SPECIFICATION Spec
CONSTANTS
  h = h
  c = c
  d = d
  Nodes = {h, c, d}
  NoNode = NoNode
  Broadcast = Broadcast
  UDSMaxNodes = 3
  Channels = {1}
  MaxBindNodes = 1
  Programs <- MCPrograms
INVARIANTS
  HostListsAgree
  DataInOrder
PROPERTY
  ConnectionsComplete
CHECK_DEADLOCK FALSE
