\* One writer and two sessions of the addressee, one after the other or at once.
SPECIFICATION SpecSignedOn
CONSTANTS
  Conns = {s, r1, r2}
  Early = {s}
  Uins = {u1, u2}
  Msgs = {m1}
  Addressees = {u1}
  NoConn = NoConn
  NoUin = NoUin
SYMMETRY Symmetry
CONSTRAINT WritersAndReaders
PROPERTY ImplementsMailbox
