SPECIFICATION Spec
CONSTANTS
  vc = vc
  oc = oc
  Conns = {vc, oc}
  v = v
  o = o
  Uins = {v, o}
  Buddies <- OneWay
  Statuses = {online}
  Online = online
  NoConn = NoConn
  NoUin = NoUin
CONSTRAINTS Cast ViewerLast TwoFlights
INVARIANTS TypeOK NobodyOverlooked DeniedSeeNothing GoneIsSeen
