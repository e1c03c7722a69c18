SPECIFICATION Spec
CONSTANTS
  vc = vc
  oc = oc
  Conns = {vc, oc}
  v = v
  o = o
  Uins = {v, o}
  Buddies <- OneWay
  Statuses = {online, away}
  Online = online
  NoConn = NoConn
  NoUin = NoUin
CONSTRAINT Cast
INVARIANT SettledViewIsCurrent
