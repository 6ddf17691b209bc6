SPECIFICATION JourneySpec
CONSTANTS
  Taps = {t1}
  MaxQueue = 1
  Chunk = 1
  PostAttempts = 2
  Window = 6
  Ttl = 4
  MaxLag = 6
  MaxDelay = 4
  MaxClock = 8
  MaxReads = 1
  MaxCuts = 2
INVARIANTS LateOnlyBySlowMint TapsArrive
CHECK_DEADLOCK FALSE
