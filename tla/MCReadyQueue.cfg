SPECIFICATION QueueSpec
CONSTANTS
  NUM_QUEUES = 4
  t1 = t1
  t2 = t2
  t3 = t3
  Threads <- ConstThreads
  NoThread = NoThread
INVARIANTS
  QueueSound
  NoNullDereference
PROPERTY
  ImplementsPriorityQueue
