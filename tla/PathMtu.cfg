CONSTANTS
  LinkMtus = {500, 579, 1280, 1420, 1500, 9000}
  PathMtus = {500, 576, 583, 591, 1000, 1279, 1287, 1443, 1499, 1600}
  ReplyTimes = {1, 7, 8}
  NoMtu = NoMtu
SPECIFICATION Spec
INVARIANTS TypeOK ResultIsCarried ResultIsSharp ClampIsOrdered EndsInTime
CHECK_DEADLOCK FALSE
