CONSTANTS
  sku1 = sku1
  sku2 = sku2
  pageA = pageA
  pageB = pageB
  plain = plain
  changed = changed
  Skus = {sku1}
  Contents = {plain, changed}
  Unlisted = Unlisted
  Pages = {pageA}
  Shows <- OnePage
  w1 = w1
  w2 = w2
  Workers = {w1}
  Nobody = Nobody
  Versions = {1}
  MaxManifests = 2
  MaxSweeps = 3
  MaxReceives = 1
SPECIFICATION Spec
PROPERTY AbsentOnlyIfUnseen
CHECK_DEADLOCK FALSE
