SPECIFICATION Spec
CONSTANTS
  vc = vc
  oc = oc
  Conns = {vc, oc}
  v = v
  o = o
  Uins = {v, o}
  Pairs <- OneWay
  NoConn = NoConn
  NoUin = NoUin
CONSTRAINTS Cast OneAskerOrNoContacts
INVARIANTS TypeOK UngrantedStayPending RequestsGenuine
PROPERTY RequestShownOrOvertaken
