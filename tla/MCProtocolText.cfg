SPECIFICATION DocSpec
CONSTANTS
  Stored <- OneEdge
  Texts = {"https", "tds"}
  MaxDocEdits = 1
INVARIANT
  ProtocolTextIsAsWritten
CHECK_DEADLOCK FALSE
