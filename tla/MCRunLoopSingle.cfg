SPECIFICATION FairOldSpec
CONSTANTS
  MAX_SLICE_LENGTH = 3
  min_delay = 1
  Delays <- OneDelay
  NumCores = 1
  is_new_3ds = FALSE
  Limits <- NoLimit
  Guests <- ShortBlocks
  Period = 4
PROPERTY
  SleepersWake
