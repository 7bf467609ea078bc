\* The schema a fresh database gets: user_groups carries its foreign keys.
CONSTANTS
  Usernames = {alice, bob}
  Passwords = {pw}
  GroupNames = {admin, ops}
  AdminName = admin
  Unset = Unset
  ForeignKeys = TRUE
  MaxUserId = 3
  MaxGroupId = 3
SPECIFICATION Spec
SYMMETRY Symmetry
INVARIANTS TypeOK Keys NoOrphans
PROPERTIES IdsNeverReused NewUserStartsClean FirstUserIsAdmin
