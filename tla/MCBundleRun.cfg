SPECIFICATION Spec
CONSTANTS
  Grace = 1
  NoTime = NoTime  NoHash = NoHash  NoKeys = NoKeys  Damaged = Damaged
  Absent = Absent  Unreadable = Unreadable  Everything = Everything  Nothing = Nothing
  DefaultPolicy = DefaultPolicy
  Member <- MCMember
  Exports <- MCExports
  Ours <- MCOurs
  Settings <- MCSettings
  Reports <- MCReports
  Chains <- MCChains
  KeyLists <- MCKeyLists
  Envelopes <- MCEnvelopes
  Rows <- MCRows
  Records <- MCRecords
  Rule = {"wide", "stale", "region"}
  Results <- MCResults
  UpdatedAt <- MCUpdatedAt
  MaxEdits = 2
INVARIANTS
  HonestNeverFails EditShows OnlyListedIsUsed StrictPassIsWhatWasSigned AdvisoriesAreForThePinned
CHECK_DEADLOCK FALSE
