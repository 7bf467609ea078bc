CONSTANTS
  alice = alice
  bob = bob
  pw = pw
  Usernames = {alice, bob}
  Passwords = {pw}
  GroupNames = {admin}
  AdminName = admin
  Unset = Unset
  ForeignKeys = TRUE
  MaxUserId = 2
  MaxGroupId = 1
  Slot = {s1, s2}
  Requests = {}
  Start <- Alice
  Faults = TRUE
  Calls <- SomeCalls
  NoToken = NoToken
SPECIFICATION FairRelaySpec
INVARIANTS RelayTypeOK FalseIsNotDone ActsForItsCaller
PROPERTIES AtMostOnce EveryCallComesBack
