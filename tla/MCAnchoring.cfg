SPECIFICATION Spec
CONSTANTS
  old = old  young = young  stranger = stranger  NoRoots = NoRoots
  TSA = {old, young, stranger}
  NotAfter <- MCNotAfter
  Settings <- MCSettings
  MaxTime = 2  MaxEvents = 3
INVARIANTS
  PassIsWhatWasSigned RemovedReceiptShows TailIsUnanchored
  PassIsVouchedForToday TimeHealsNothing ReceiptsOnlyHelp ReanchorCarriesAll
CHECK_DEADLOCK FALSE
