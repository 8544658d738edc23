\* An owner and a customer who may be made an admin, two handlers.
CONSTANTS
  boss = boss
  staff = staff
  w1 = w1
  w2 = w2
  People = {boss, staff}
  Owners = {boss}
  Workers = {w1, w2}
  Updates <- MCUpdates
  Keys = {trialHours}
  Numeric = {trialHours}
  NoKey = NoKey
SPECIFICATION Spec
SYMMETRY Symmetry
CONSTRAINT CodesAlone
INVARIANTS
  ConversationTypeOK
  RemovedAdminsAreOut
  BlockedAreOut
  NothingIsMadeOfHalfAForm
PROPERTIES
  OwnersDecide
CHECK_DEADLOCK FALSE
