CONSTANTS
  Usernames = {alice, bob}
  Passwords = {pw}
  GroupNames = {admin, ops}
  AdminName = admin
  Unset = Unset
  ForeignKeys = TRUE
  MaxUserId = 2
  MaxGroupId = 2
  Conn = {c1, c2}
  NoConn = NoConn
  Calls <- Everything
SPECIFICATION TxSpec
SYMMETRY Sym
INVARIANTS TxTypeOK LockHolderIsCurrent
PROPERTIES Spec BusyNeedsARival FirstUserIsAdmin NewUserStartsClean OkMeansDone
