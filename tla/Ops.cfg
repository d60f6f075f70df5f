CONSTANTS
  Requests = {r1, r2}
  People = {ana, beto}
  Nobody = Nobody
  MaxVersions = 2
  Sheets = {sheet1}
  Clients = {r1, r2}
  Entries <- MCEntries
  Quantities <- MCQuantities
  Orders = {ana, beto}
  Policies <- MCPolicies
  Scale = 10
  MaxMoves = 4
  Unified <- MCUnified
  Factor <- MCFactor
  Grid = 4
  Writers = {r1, r2}
  Forms <- MCForms
  MaxMonths = 2
  Rooms = {d1, d2, d3}
  Clerks = {r1, r2}
  Productive = {"p1", "p2"}
  Service = {"s1", "s2"}
  OverheadForms <- MCOverheadForms
  Ledgers <- MCLedgers
  Wastes <- MCWastes
  Labour <- MCLabour
  Apart <- MCApart
  Stocks <- MCStocks
  JointForms <- MCJointForms
  Catalogue <- MCCatalogue
  Iap = {"iap"}
  LabourForms <- MCLabourForms
  LabourPapers <- MCLabourPapers
  Readers = {r1, r2}
  Structures = {ana, beto}
  Today <- MCToday
  OwnRhythms <- MCOwnRhythms
  Inherited = Inherited
  MaxChain = 3
  Keys <- MCKeys
  Movements = {"buy"}
  SectionForms <- MCSectionForms
  Amounts = {2}
  Askers = {r1, r2}
  MaxRequests = 4
  MaxPoints = 3
SPECIFICATION OpsSpec
INVARIANTS
  SeparationOfDuties
  OneBasePerOrder
  PremiumHasItsCause
  StockIsWorthWhatEntered
  MoneyIsConserved
  ChainStands
  CostIsAccountedFor
  JointCostIsBorneWhole
  ChargesFollowTheCatalogue
  PaidLabourIsBorne
  PeriodsTileTheDays
  SectionIsTraced
  SignedNumberStands
SYMMETRY OpsSymmetry
CHECK_DEADLOCK FALSE
