SPECIFICATION FairSpec
CONSTANTS
  Taps = {t1, t2}
  MaxQueue = 2
  Chunk = 1
  PostAttempts = 2
  Window = 3
  Ttl = 2
  MaxDelay = 0
  MaxClock = 4
  MaxCuts = 1
  MaxReads = 3
INVARIANTS NothingVanishes SavedIsKept QueueIsNewest
PROPERTIES HeldPhoneSentOnce QueueDrains
CHECK_DEADLOCK FALSE
