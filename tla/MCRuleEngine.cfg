SPECIFICATION Spec
CONSTANTS
  empty = empty  absent = absent
  Path <- MCPath
  Word = {"agent", "tool", "wide", "narrow", "unknown"}
  EmptyList = empty  Absent = absent  Unknown = Unknown
  Blank = {"unknown"}
  Nodes <- MCNodes
  Edges <- MCEdges
  Graph = 5
  Object = {1, 2, 3, 4, 5, 6, 7}
  Field = {"type", "zone", "scopes", "available"}
  At <- MCAt
  NoObject = NoObject
  Imported = {2}
  Facts <- MCFacts
  Catalogs <- MCCatalogs
  EnabledRegimes <- MCRegimes
  NoDomain = NoDomain
  Severities <- MCSeverities
  Declarable = {"wide", "narrow"}
  MaxDeclarations = 1
INVARIANTS
  AllOrNothing CoverageAccounts DecidedIsSound SilenceLasts ReportIsCanonical
CHECK_DEADLOCK FALSE
