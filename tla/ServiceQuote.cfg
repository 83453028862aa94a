SPECIFICATION Spec
CONSTANTS
  None = None
  Cases = {c1, c2}
  Orders = {o1, o2}
  Jobs = {j1, j2}
  Items = {i1, i2}
  Lines = {l1, l2, l3, l4}
  Places = {"onsite", "hybrid"}
  MaxUnits = 1
  MaxSteps = 5
INVARIANTS TypeOK QuoteLinksAgree GeneratedLinesAreHeld
PROPERTIES ConfirmedLinesStand QuoteCarriesWork JobsAreReused
CHECK_DEADLOCK FALSE
