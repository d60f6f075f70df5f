CONSTANTS
  Costers = {r1, r2}
  EditedItems = {"mp"}
  Scopes <- MCScopes
  Months = {1}
  NoMonth = NoMonth
  Seeds <- MCSeeds
  MaxParams = 4
  ConceptForms <- MCConceptForms
  EditForms <- MCEditForms
  MaxConcepts = 2
  MaxStamp = 3
  SplitForms <- MCSplitForms
  Outputs <- MCOutputs
  Sheets <- MCSheets
  MaxOpened = 5
  MaxClosings = 5
  Lookback = 4
  MinPeriods = 3
  Series <- MCSeries
  Factors <- MCFactors
  Cents = 100
  Documents <- MCDocuments
  Content <- MCContent
  Attempts <- MCAttempts
  Rows <- MCRows
  Truths <- MCTruths
  Reviewers = {r1, r2}
  MaxDocuments = 2
  Bills <- MCBills
  Bill <- MCBill
  Costists = {r1, r2}
  Booked = {1}
  ThisMonth = 2
  MaxAmount = 8
  MaxLines = 1
SPECIFICATION DeskSpec
INVARIANTS
  LevelAnswersOnce
  VariableByVolume
  BreakEvenStands
  AlertsIgnoreScale
  
  NothingSilent
  LessonIsAsked
  TaxFollowsTheCompany
  SuspicionIsHeard
SYMMETRY DeskSymmetry
CHECK_DEADLOCK FALSE
