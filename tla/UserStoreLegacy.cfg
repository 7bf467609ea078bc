\* A user_groups table made before the REFERENCES clauses
CONSTANTS
  Usernames = {alice, bob}
  Passwords = {pw}
  GroupNames = {admin, ops}
  AdminName = admin
  Unset = Unset
  ForeignKeys = FALSE
  MaxUserId = 2
  MaxGroupId = 2
SPECIFICATION Spec
SYMMETRY Symmetry
INVARIANTS NoOrphans
