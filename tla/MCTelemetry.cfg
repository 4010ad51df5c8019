CONSTANTS
  Setups <- MCSetups
  CacheLimit = 1
  Limit = 1
  Within = 1
  Retention = 1
  MaxItems = 2
  MaxTime = 2
  MaxRestarts = 1
  PageSize = 2
  Asked = {0, 1}
  Newest = 2
  CacheSize = 2
  MaxArrivals = 3
  Nics = {"eth0"}
  Devices = {"sda"}
  Virtual = {"overlay"}
  Rank <- MCRank
  MountTables <- MCMountTables
  MaxBytes = 1
  MaxWall = 2
  MaxOdd = 2
SPECIFICATION MCSpec
INVARIANTS
  PublishedIsStored
  PublishedIsReadable
  WithinIsRecent
  WalkMissesNothing
  RatesAreTrue
PROPERTIES
  ExpiredRowsGo
CHECK_DEADLOCK FALSE
