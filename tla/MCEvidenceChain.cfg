SPECIFICATION Spec
CONSTANTS
  spaced = spaced  compact = compact  other = other  noPayload = noPayload
  doc = doc  otherDoc = otherDoc
  saved = saved  savedNanos = savedNanos  moved = moved
  textSaved = textSaved  textMoved = textMoved
  arch = arch  arch2 = arch2
  early = early  late = late  failed = failed
  NotJSON = NotJSON  NoArch = NoArch  NoAnchor = NoAnchor
  MarkAbsent = MarkAbsent  MarkGarbled = MarkGarbled
  NoHash = NoHash  NoSeq = NoSeq  NoCount = NoCount  NotAnExport = NotAnExport
  Payload = {spaced, compact, other, noPayload}
  Doc = {doc, otherDoc}
  Fields = {saved, savedNanos, moved}
  TextSet = {textSaved, textMoved}
  Arch = {arch, arch2}
  EventId = {1, 2, 3}
  AnchorId = {early, late, failed}
  Canonical <- MCCanonical
  Text <- MCText
  Exports <- MCExports
  ReportHeads <- MCReportHeads
INVARIANTS
  HeadCommitsToExport ReportHeadCommits FirstBreakIsNamed MarksFollowReceipts
PROPERTIES
  VerdictsStand ImplementsAudit
