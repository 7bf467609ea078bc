CONSTANTS
  Task = {t1, t2}
  Call = {c1, c2}
  Handle = {h1, h2}
  NoHandle = NoHandle
  Connections = 1
SPECIFICATION FairPySpec
INVARIANTS PyTypeOK ClosedIsQuiet ConnectedIsOpen FailedIsNotDone
PROPERTIES EverythingReturns
