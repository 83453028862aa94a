CONSTANTS
  sku1 = sku1
  sku2 = sku2
  pageA = pageA
  pageB = pageB
  plain = plain
  changed = changed
  Skus = {sku1, sku2}
  Contents = {plain, changed}
  Unlisted = Unlisted
  Pages = {pageA, pageB}
  Shows <- TwoPages
  w1 = w1
  w2 = w2
  Workers = {w1, w2}
  Nobody = Nobody
  Versions = {1}
  MaxManifests = 2
  MaxSweeps = 1
  MaxReceives = 2
SYMMETRY WorkerSymmetry
SPECIFICATION Spec
INVARIANTS TypeOK NothingIsLost
PROPERTIES ObservationsInOrder RepeatIsHarmless
CHECK_DEADLOCK FALSE
