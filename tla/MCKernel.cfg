SPECIFICATION ArbSpec
CONSTANTS
  NUM_QUEUES = 3
  NoThread = NoThread
  t1 = t1
  t2 = t2
  t3 = t3
  m1 = m1
  m2 = m2
  e1 = e1
  e2 = e2
  s1 = s1
  tm1 = tm1
  a1 = a1
  p1 = p1
  p2 = p2
  NumCores = 1
  is_new_3ds = FALSE
  Threads <- MCThreads
  core_id <- MCCores
  owner_process <- MCProcesses
  Mutexes <- MCMutexes
  MutexOrder <- MCMutexOrder
  Events <- MCEvents
  Semaphores <- MCSemaphores
  max_count <- MCCounts
  Timers <- MCTimers
  reset_type <- MCResetTypes
  Sessions <- None
  HleSessions <- None
  Ports <- None
  max_sessions <- NoFunction
  Arbiters <- MCArbiters
  Addresses <- MCAddresses
  Values <- MCValues
  MinWord <- MCMinWord
  Programs <- MCPrograms
INVARIANTS
  AssertsHold
  ReadyIffQueued
  BothSidesAgree
  InheritedPriority
  NoLostWakeup
  WaitResult
  TimeoutsAreCurrent
  ProcessesEndWhole
PROPERTIES
  WokenOnce
