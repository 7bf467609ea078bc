CONSTANTS
  alice = alice
  bob = bob
  pw = pw
  new = new
  Usernames = {alice, bob}
  Passwords = {pw, new}
  GroupNames = {admin, ops}
  AdminName = admin
  Unset = Unset
  ForeignKeys = TRUE
  MaxUserId = 2
  MaxGroupId = 1
  Slot = {s1}
  Start <- BothAdmins
  Requests <- Joining
  Faults = FALSE
SPECIFICATION RSpec
INVARIANTS AlreadyMemberIsTrue
