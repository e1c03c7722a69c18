\* Two connections sign on under either UIN, write to one of them, go away.
SPECIFICATION Spec
CONSTANTS
  Conns = {c1, c2}
  Early = {}
  Uins = {u1, u2}
  Msgs = {m1, m2}
  Addressees = {u1}
  NoConn = NoConn
  NoUin = NoUin
SYMMETRY Symmetry
CONSTRAINTS SecondUinOrMessage SomebodyListens
ACTION_CONSTRAINT AcksWhatItSaw
INVARIANTS NoCrossDelivery SenderIdentity OfflineInOrder
