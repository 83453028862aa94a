SPECIFICATION Spec
CONSTANTS
  Products = {p1}
  Orchestrators = {o1}
  Publishers = {u1}
  Depth = 2
  MaxPipelines = 2
  MaxTroubles = 2
  NoOne = NoOne
INVARIANTS TypeOK ShownIsComplete PublicationIsHeld
PROPERTIES RepairKeepsStaff KeepsContract
CHECK_DEADLOCK FALSE
