INIT AlgorithmsInit
NEXT AlgorithmsNext
CONSTANTS
  Checked <- MCChecked
  GraphNodes <- MCGraphNodes
  Graphs <- MCGraphs
  Queries <- MCQueries
  MaxQueries = 2
  Rows <- MCRows
  RegimeCodes = {"FINMA", "AI_ACT", "CO", "ISO27001"}
  TenantValues <- MCTenantValues
  Unset = Unset
  Clauses = {"c1", "c2", "c3"}
  RegimeOf <- MCRegimeOf
  Possible <- MCPossible
  Recorded <- MCRecorded
  Losses <- MCLosses
  Parameters <- MCParameters
  DrawKey <- MCDrawKey
  MaxPatches = 2
  Stored <- MCStored
  Texts = {"https", "tds", " "}
  MaxDocEdits = 1
INVARIANTS
  OrderDoesNotMatter AnswersAreWalks RegimesBind PatchesAreListed DrawIsConsistent
  StoredReadsBack NothingIsLost
CHECK_DEADLOCK FALSE
