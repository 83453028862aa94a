-------------------------- MODULE ManifestIngestionMC --------------------------
(***************************************************************************)
(* Small instances of ManifestIngestion for TLC.                           *)
(***************************************************************************)
EXTENDS ManifestIngestion, TLC

CONSTANTS w1, w2, sku1, sku2, pageA, pageB, plain, changed

(* The first page shows both items, the second one of them, changed.       *)
TwoPages ==
  pageA :> (sku1 :> plain @@ sku2 :> plain) @@ pageB :> (sku1 :> changed @@ sku2 :> Unlisted)

(* Workers are interchangeable. *)
WorkerSymmetry == Permutations(Workers)

OnePage == pageA :> (sku1 :> plain)
=============================================================================
