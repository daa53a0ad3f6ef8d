SPECIFICATION FairSpec
CONSTANTS
  r1 = r1
  r2 = r2
  Requests <- MCRequests
  Worker = worker
  Loads <- MCLoads
  Null = Null
  Blank = Blank
  Shekel = "ILS"
  Rated = {"USD"}
  Today = 5
  MaxOpenConns = 2
  sqlMaxRows = 2
  MaxChanges = 1
  MaxFaults = 1
INVARIANTS
  ApiTypeOK
  HasavshevetAnswersAreTrue
  SapAnswersAreOwed
  LeftoversOnlyWhenCut
  SqlAnswersAreHonest
  ImportCarriesOrder
PROPERTIES
  RequestsAreAnswered
CHECK_DEADLOCK FALSE
