CONSTANTS
  alice = alice
  bob = bob
  pw = pw
  new = new
  Usernames = {alice, bob}
  Passwords = {pw, new}
  GroupNames = {admin, ops}
  AdminName = admin
  Unset = Unset
  ForeignKeys = TRUE
  MaxUserId = 3
  MaxGroupId = 2
  Slot = {s1, s2}
  Start <- BothAdmins
  Requests <- Rivals
  Faults = FALSE
SPECIFICATION RSpec
SYMMETRY SlotSymmetry
INVARIANTS EditedIsTrue NotFoundIsTrue ShownToTheEntitled
PROPERTIES AuthorityIsFresh ToggleLeavesAnAdmin
