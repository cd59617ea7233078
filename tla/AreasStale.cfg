SPECIFICATION CollectorsSpec
CHECK_DEADLOCK FALSE
INVARIANT
  MapIsRebuilt
CONSTANTS
  \* Collect
  MaxRuns = 2
  Playing = {"areas"}
  Place = {"a", "b", "c", "d"}
  \* Care
  Unusable = {"d"}
  Kinds <- MCKinds
  FirstList <- MCFirstList
  PageRows = 1
  MaxRemoved = 1
  MaxChanges = 2
  \* Banks
  Branch = {1, 2, 3, 4, 5}
  TileOf <- MCTileOf
  MinDepth = 1
  StartTiles <- MCStartTiles
  Points <- MCPoints
  Near <- MCNear
  SearchPage = 1
  SearchMax = 3
  MinBranches = 1
  MaxMoves = 2
  \* SgisAreas
  Sidos <- MCSidos
  DistrictsOf <- MCDistricts
  YearsBack = 1
  NoMap = NoMap
  \* Kosis
  KosisSidos <- MCKosisSidos
  Active = {"11", "39"}
  Below <- MCBelow
  \* Geocheck
  Facilities <- MCFacilities
  AddrOf <- MCAddrOf
  NoAddr = "none"
  Known = {"short"}
  KnownShort = {"long"}
  Long = {"long"}
  MaxChecks = 2
  \* Roads
  RoadPairs <- MCRoadPairs
  HasOa = {"r1", "r2"}
  MaxCalls = 2
  \* OaAreas
  Sggs <- MCSggs
  Emds <- MCEmds
  SggOf <- MCSggOf
  \* Forecasts
  Executions = {"e1", "e2"}
  Grids = {"60,127", "98,76"}
  Threads = 1
  MaxBase = 2
  \* Holidays
  Years <- MCYears
  AirCalls <- MCAirCalls
  Announcements = {1, 2}
  \* Months
  Window = 2
  FirstMonth = 11
  LastMonth = 13
  RowsOf <- MCRowsOf
  NewRow = "n"
  Strange = {"x"}
  MaxShifts = 2
