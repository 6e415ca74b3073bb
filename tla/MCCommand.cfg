SPECIFICATION Spec
CONSTANTS
  Runs = {r1, r2}
  Watched = r1
  User = user
  Name <- MCName
  Git = ".git"
  Marker = {"index.lock"}
  Data = {"x", "y"}
  NoData = "none"
  Source <- MCSource
  LocalScenarios <- MCLocalScenarios
  ShownDisks <- MCShownDisks
  ShownServers <- MCShownServers
  MaxPath = 4
  UserPaths <- MCUserPaths
  MaxChanges = 1
  Heads = {"main"}
  Tags = {"v1"}
  Others = {"pull"}
  Oid = {"o1", "o2", "o3"}
  NoRef = "none"
  NoOid = "none"
  ErrWord = "error"
  RefOrder <- MCRefOrder
  Servers <- MCServers
  Retries = 1
  MaxMoves = 1
  Throttle = 2
  MaxReports = 1
INVARIANTS
  CopyIsExact
  OneWriter
  RefsAreRemotes
  RetriesAbsorb
  DisplayIsTrue
  ScreenIsClean
PROPERTIES
  RefusesForAReason
  CommandReturns
