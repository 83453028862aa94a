CONSTANTS
  Items = {i1}
  Images = {front}
  NoImage = NoImage
  OwnImage = OwnImage
  Workers = {w1, w2}
  MaxCost = 2
  MaxProducts = 2
  Edited = {1}
SYMMETRY PromotionSymmetry
SPECIFICATION Spec
INVARIANTS TypeOK PromotedOnce ReadyIsSound
