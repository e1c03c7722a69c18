\* Two connections earn cookies and two sign on with them, for one UIN or two.
SPECIFICATION Spec
CONSTANTS
  Conns = {c1, c2, c3, c4}
  Uins = {u1, u2}
  Cookies = {k1, k2}
  NoConn = NoConn
  NoUin = NoUin
SYMMETRY Symmetry
INVARIANTS RegistrySound OnlyClobberedUnregistered EntryGranted OneAttemptPerConnection
PROPERTIES ImplementsDirectory ImplementsTickets
