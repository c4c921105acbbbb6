SPECIFICATION ObjectsSpec
CONSTANTS
  MAX_COUNT = 3
  GENERATIONS = 4
  SLOTS = 4
  thread = thread
  process = process
  mutex1 = mutex1
  mutex2 = mutex2
  event = event
  timer = timer
  arbiter = arbiter
  semaphore = semaphore
  Objects <- MCObjects
  type <- MCType
  nullptr = nullptr
  current_thread = thread
  current_process = process
  InitLimit = 1
  NewLimits = {2}
  Programs <- MCPrograms
INVARIANTS
  ResourcesAccounted
  FreeListExact
PROPERTIES
  StaleHandlesRejected
  ImplementsMap
CHECK_DEADLOCK FALSE
