SPECIFICATION Spec
CONSTANTS
  Calls = {c1, c2, c3}
  a1 = a1
  a2 = a2
  a3 = a3
  a4 = a4
  NoAuth = NoAuth
  Auths <- MCAuths
  ApiVersion <- MCApiVersion
  TokenTypes = {"bearer", "jwt"}
  MaxSessions = 4
  MaxExpired = 1
  MaxTimeouts = 1
SYMMETRY CallSymmetry
INVARIANTS TypeOK ConnectedIsSupported ConnectedWasLive LoginsAreWarranted SessionsAreAccounted
