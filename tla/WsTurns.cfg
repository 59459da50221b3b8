SPECIFICATION Spec
CONSTANTS
  t1 = t1
  t2 = t2
  t3 = t3
  NoTurn = NoTurn
  Turn = {t1, t2}
  Capacity = 3
  MaxEvents = 2
INVARIANTS WsInv
PROPERTIES TurnReleases
