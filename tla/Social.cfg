SPECIFICATION SocialSpec
CONSTANTS
  Peers = {"o", "p"}
  Owner = "o"
  Pair = {"o", "p"}
  Handlers = {c1, c2}
  MaxCalls = 2
  MaxFaults = 2
SYMMETRY HandlerSymmetry
CHECK_DEADLOCK FALSE
INVARIANTS SocialTypeOK FriendsConsistent GroupConsistent
PROPERTIES OwnerStays
