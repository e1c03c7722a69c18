\* The smallest instance with two sign-ons of one UIN.
SPECIFICATION Spec
CONSTANTS
  Conns = {c1, c2, c3, c4}
  Uins = {u1}
  Cookies = {k1, k2}
  NoConn = NoConn
  NoUin = NoUin
SYMMETRY Symmetry

PROPERTY CleanupSparesSuccessor
