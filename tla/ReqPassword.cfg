CONSTANTS
  alice = alice
  bob = bob
  pw = pw
  new = new
  Usernames = {alice, bob}
  Passwords = {pw, new}
  GroupNames = {admin, ops}
  AdminName = admin
  Unset = Unset
  ForeignKeys = TRUE
  MaxUserId = 2
  MaxGroupId = 1
  Slot = {s1, s2}
  Start <- BothAdmins
  Requests <- Resetting
  Faults = FALSE
SPECIFICATION RSpec
SYMMETRY SlotSymmetry
INVARIANTS PasswordChangedIsTrue
