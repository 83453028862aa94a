--------------------------- MODULE VendorPromotionMC ---------------------------
(***************************************************************************)
(* Small instances of VendorPromotion for TLC.                             *)
(***************************************************************************)
EXTENDS VendorPromotion, TLC

(* Promotion workers are interchangeable. *)
PromotionSymmetry == Permutations(Workers)
=============================================================================
