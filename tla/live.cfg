\* Two sign-ons of one UIN; three goroutines, a client that reads and one that
\* does not; three calls of Storage over two tables.
SPECIFICATION Live
CONSTANTS
  Conns = {i1, i2, s1, s2}
  Uins = {u1}
  Cookies = {i1, i2}
  NoConn = NoConn
  NoUin = NoUin
  c1 = c1
  c2 = c2
  w1 = w1
  w2 = w2
  w3 = w3
  Clients = {c1, c2}
  Writers = {w1, w2, w3}
  Readers = {c1}
  Jobs <- SomeJobs
  SeqMod = 4
  MaxId = 3
  Room = 1
  NoWriter = NoWriter
  k1 = k1
  k2 = k2
  k3 = k3
  t1 = t1
  t2 = t2
  Callers = {k1, k2, k3}
  Tables = {t1, t2}
  Plans <- Plain
  Searches <- Searching
  NoCaller = NoCaller
  Initial = Initial
  Unseen = Unseen
INVARIANTS SequenceUnbroken NoIdLost
PROPERTIES
  SupersededEventuallyEnds BrokenEventuallyUnregistered
  OthersNotHeldUp CloseFreesWriters
  EveryCallReturns
