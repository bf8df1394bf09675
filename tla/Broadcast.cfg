SPECIFICATION FairSpec
CONSTANTS
  c1 = c1
  c2 = c2
  Clients = {c1, c2}
  Updates = 2
INVARIANT Registered
PROPERTIES EndHeard HeardIfAllStay NeverBack
CHECK_DEADLOCK FALSE
