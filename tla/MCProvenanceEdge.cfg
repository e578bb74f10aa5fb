SPECIFICATION Spec
CONSTANTS
  Nodes <- MCNodes
  Edges <- MCEdges
  Ends <- MCEnds
  Members <- MCMembers
  Layout <- MCLayout
  KeyOrder <- MCKeyOrder
  ExternalRef <- MCExternalRef
  Snapshots <- MCSnapshots
  Cadence = 2
  Skew = 1
  KeyLimit = 3
  Dates = {0, 1, 9}
  Actors = {"ann"}
  Importers = {"ann"}
  EndChoices <- MCEndChoices
  Rewrites <- MCRewrites
  Origins = {"stored"}
  MaxImports = 2
  MaxPatches = 2
INVARIANTS
  TypedStaysDeclared
CHECK_DEADLOCK FALSE
