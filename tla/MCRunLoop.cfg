SPECIFICATION FairSpec
CONSTANTS
  MAX_SLICE_LENGTH = 4
  min_delay = 1
  Delays <- OneDelay
  NumCores = 2
  is_new_3ds = TRUE
  Limits <- LimitedOrNot
  Guests <- OneOrThree
  Period = 5

  
PROPERTIES
  TicksNeverGoBack
  
