\* A writer and the addressee signing on while it writes.
SPECIFICATION SpecSignedOn
CONSTANTS
  Conns = {s, r1}
  Early = {s}
  Uins = {u1, u2}
  Msgs = {m1}
  Addressees = {u1}
  NoConn = NoConn
  NoUin = NoUin
ACTION_CONSTRAINT AcksWhatItSaw
INVARIANT StoredUntilSent
