SPECIFICATION Spec
CONSTANTS
  Scenarios = {"queue", "log", "ring", "teakra", "pipe", "pool", "vulkan"}
  Writers = {t1, t2}
  Pushes = 3
  Pops = 5
  Loggers = {t1, t2}
  Entries = 2
  Capacity = 2
  MAX_LOGS_TO_WRITE = 2
  capacity = 4
  SlotCounts = {1, 3}
  MaxPushed = 9
  MaxGenerations = 6
  MaxLoads = 2
  bsize = 3
  WrapBit = 4
  MaxBytes = 6
  Workers = {t1, t2}
  MaxTasks = 4
  NumFrames = 2
  ChunkSize = 2
  GrowStep = 2
  RenderPrograms <- MCRenderPrograms
  Null = Null
INVARIANTS
  BuffersKeepOrder
  ThreadsKeepStep
  
 
CHECK_DEADLOCK FALSE
