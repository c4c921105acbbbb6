SPECIFICATION FairIpcSpec
CONSTANTS
  NUM_QUEUES = 3
  NoThread = NoThread
  t1 = t1
  t2 = t2
  t3 = t3
  m1 = m1
  e1 = e1
  e2 = e2
  e3 = e3
  s1 = s1
  s2 = s2
  hle = hle
  port = port
  service = service
  p1 = p1
  NumCores = 2
  is_new_3ds = TRUE
  Threads <- TwoThreads
  core_id <- FirstCore
  Sessions <- OnlyHle
  owner_process <- MCProcess
  Mutexes <- None
  MutexOrder <- NoOrder
  Events <- MCEvents
  Semaphores <- None
  max_count <- NoFunction
  Timers <- None
  reset_type <- MCResetTypes
  HleSessions <- MCHleSessions
  Ports <- MCPorts
  max_sessions <- MCMaxSessions
  Arbiters <- None
  pause_event <- MCPauses
  Programs <- Progressing
PROPERTIES
  WaitsEnd
  MostUrgentRuns
