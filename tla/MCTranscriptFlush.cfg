CONSTANTS
  Hooks = {h0, h1, h2}
  Left = {h0}
  MaxTurns = 2
  Noise = {1}
  MaxMisreads = 2
SPECIFICATION FairSpec
INVARIANTS FlushTypeOK OneDeliverer NoTurnSkipped
PROPERTIES NeverTwice AbandonedLockRecovered
CHECK_DEADLOCK FALSE
