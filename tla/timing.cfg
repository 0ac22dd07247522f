SPECIFICATION FairSpec
CONSTANTS
  h1 = h1
  h2 = h2
  Worker = Worker
  None = None
  Hook = {h1, h2}
  SendTimeout = 6
  LocalTimeout = 5
  DrainInterval = 2
  DrainMinAge = 12
  DBDelay = 1
  MaxFaults = 1
CHECK_DEADLOCK TRUE
INVARIANTS TypeOK TickSparesLiveForward OnlyQueuedExpires
PROPERTIES SlowAppDrains
