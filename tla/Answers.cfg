SPECIFICATION AnswersSpec
CHECK_DEADLOCK FALSE
CONSTANTS
  Playing = {"upstream", "nearest", "planning", "scenarios", "served", "limits", "recodes", "visit", "impacts", "assess"}
INVARIANTS
  SaidIsAnswered
  NearestAreNearest
  ShortcutsAreExact
  AnsweredIsStored
  ServedIsCurrent
  LimitsHold
  SummedOnce
  VisitIsCurrent
  ImpactsAgree
  WorstHourShows
CONSTANTS
  \* Upstream
  Retries = 1
  Life = 3
  Margin = 1
  MaxNow = 4
  MaxAsks = 2
  \* Nearest
  Vertices = {1, 2, 3, 4}
  K = 2
  WalkLimit = 4
  SnapMax = 2
  Streets <- MCStreets
  Placings <- MCPlacings
  \* Planning
  Places = {"p", "q", "r", "s"}
  Facs = {1, 2, 3, 4, 5}
  InScope = {"p", "q"}
  Candidates = {1, 2, 3}
  Tables <- MCTables
  Weights <- MCWeights
  BankDist <- MCBank
  SiteDist <- MCSites
  Radius = 1
  FarM = 1
  Ranks = 3
  TopN = 3
  MaxK = 2
  NoDist = 99
  \* Scenarios
  Clients = {"x", "y"}
  Removals = {{1}, {1, 2}}
  RunsKept = 1
  MaxRun = 2
  MaxScenarios = 3
  \* Served
  Readers = {"x", "y"}
  MaxCalc = 2
  MaxChanges = 2
  MaxSecond = 2
  MaxRequests = 3
  \* Limits
  Threads = {"x", "y"}
  ProcessOf <- MCProcessOf
  Violations = {"v", "w"}
  Minute = 2
  Limit = 2
  HourlyMax = 1
  MaxClock = 5
  MaxLosses = 1
  MaxFree = 1
  \* Recodes
  World <- MCWorld
  Areas <- MCAreas
  SidoName <- MCSido
  CityCode <- MCCity
  Window = 2
  MaxMonth = 4
  MaxEvents = 2
  None = None
  \* Visit
  Visitors = {"x", "y"}
  Cells = {"g", "h"}
  AirCodes = {"PM10", "PM25"}
  LastBase = 2
  LastAir = 1
  MaxInputs = 3
  \* Impacts
  Blocks = {"b1", "b2", "b3"}
  Offices = {1, 2, 3}
  Records <- MCRecords
  Branches = {1, 2, 3, 4}
  Assessed = {1, 2, 3}
  Agents = {1}
  Lonely = {2}
  Ground <- MCGround
  Graphs <- MCGraphs
  People <- MCPeople
  Aged <- MCAged
  PharmacyM <- MCPharmacy
  ClinicM <- MCClinic
  TwoKm = 20
  Walk30 = 20
  Reach = 30
  Many = 4
  Nowhere = 990
  MaxWalks = 2
  \* Assess: the first and last hours of the window, and one after it
  DayHours = {9, 18, 19}
  Forecasts <- MCForecasts
  Untold = Untold
