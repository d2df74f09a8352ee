\* Two users of one browser, two organizations and two requests at a time.
SPECIFICATION Spec
CONSTANTS
  u1 = u1
  u2 = u2
  o1 = o1
  o2 = o2
  r1 = r1
  r2 = r2
  User = {u1, u2}
  Org = {o1, o2}
  Call = {r1, r2}
  Browser = {b1}
  MaxRequests = 2
  MaxFaults = 1
SYMMETRY Symmetric
INVARIANTS
  AnswersHold
  MembersExist
  StaysInItsOrganizations
  LockHasOwner
  LoginIsNeeded
PROPERTIES
  ReauthOnlyWithoutOrganization
CHECK_DEADLOCK FALSE
