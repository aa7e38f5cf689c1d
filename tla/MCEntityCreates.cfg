SPECIFICATION FairSpec
CONSTANTS
  o1 = o1 o2 = o2 o3 = o3 i1 = i1 i2 = i2
  Ops = {o1, o2, o3}
  Ids = {i1, i2}
  IdOf <- MCIdOf
  Sensed = {o1, o2}
  Chassis = {o2}
  NumEntities = 1
  SensorCap = 1
  NoOp = NoOp
INVARIANTS EntityInv
PROPERTIES ReceiptsFinal OkIsWhole LateReconciled
