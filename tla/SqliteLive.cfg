CONSTANTS
  Usernames = {alice}
  Passwords = {pw}
  GroupNames = {admin, ops}
  AdminName = admin
  Unset = Unset
  ForeignKeys = TRUE
  MaxUserId = 1
  MaxGroupId = 1
  Conn = {c1, c2}
  NoConn = NoConn
  Calls <- Everything
SPECIFICATION FairTxSpec
PROPERTIES EveryCallReturns
