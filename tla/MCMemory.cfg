SPECIFICATION Spec
CONSTANTS
  app = app
  applet = applet
  block1 = block1
  block2 = block2
  Procs = {app, applet}
  Blocks = {block1, block2}
  RegionSize <- MCRegionSize
  segments <- MCSegments
  fixed_mappings <- MCFixedMappings
  CommitLimit = 6
  SharedMemoryLimit = 2
  PROCESS_IMAGE_VADDR = 1
  HEAP_VADDR = 2
  HEAP_VADDR_END = 6
  SHARED_MEMORY_VADDR_END = 8
  LINEAR_HEAP_VADDR = 8
  TLS_AREA_VADDR = 17
  NEW_LINEAR_HEAP_VADDR = 20
  MAX_ADDRESS = 26
  TLS_SLOTS = 2
  shared_device_mem = {applet}
  Programs <- MCPrograms
SYMMETRY BlockSymmetry
INVARIANTS
  AddressSpaceConsistent
  MemoryAccounted
  OwnMemoryExclusive
  
CHECK_DEADLOCK FALSE
