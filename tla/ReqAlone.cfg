CONSTANTS
  alice = alice
  bob = bob
  pw = pw
  new = new
  Usernames = {alice, bob}
  Passwords = {pw, new}
  GroupNames = {admin, ops}
  AdminName = admin
  Unset = Unset
  ForeignKeys = TRUE
  MaxUserId = 3
  MaxGroupId = 2
  Slot = {s1}
  Start <- BothAdmins
  Requests <- Everything
  Faults = TRUE
SPECIFICATION RSpec
INVARIANTS RTypeOK
PROPERTIES DeletedTokensStayDead
