SPECIFICATION Spec
CONSTANTS
  Keys = {"k1", "k2"}
  Registrations <- MCRegistrations
  Sponsors = {"sponsor"}
  OutOfBand = {{}, {"k2"}}
  Models = {m1, m2}
  Archs = {a1, a2}
  Grace = 1
  Never = 0
  MaxTime = 5
  MaxRecords = 1
  NoReport = NoReport
  NoSeal = NoSeal
INVARIANTS
  VerdictIsHistory
  SeparationSurvivesEdits
CHECK_DEADLOCK FALSE
