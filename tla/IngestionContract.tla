-------------------------- MODULE IngestionContract ---------------------------
(***************************************************************************)
(* What manifest ingestion promises the vendor catalog, without queue,     *)
(* workers, deliveries or sweeps: a manifest takes effect until each of    *)
(* its records is applied or refused, and never again after.  A try that   *)
(* does not get so far may have applied and refused a part.                *)
(***************************************************************************)
CONSTANTS
  Manifests,
  Skus,
  Pages,
  Shows,       (* what each page shows of each item                        *)
  Unlisted     (* an item that a page does not show                        *)

VARIABLES
  page,        (* the page of each manifest published so far               *)
  settled,     (* the manifests that are done                              *)
  refused,     (* the records refused of each manifest                     *)
  catalog      (* what the catalog holds of each item                      *)

vars == <<page, settled, refused, catalog>>

Init ==
  /\ page = [m \in {} |-> m] /\ settled = {}
  /\ refused = [m \in Manifests |-> {}]
  /\ catalog = [k \in Skus |-> Unlisted]

Publish(m, p) ==
  /\ m \notin DOMAIN page
  /\ page' = [n \in DOMAIN page \cup {m} |-> IF n = m THEN p ELSE page[n]]
  /\ UNCHANGED <<settled, refused, catalog>>

(* The records of the items S are applied as the page shows them, and the  *)
(* ledger of refusals of m is written.                                     *)
Apply(m, S) ==
  LET listed == {k \in Skus : Shows[page[m]][k] # Unlisted}
  IN  /\ m \in DOMAIN page \ settled
      /\ S \subseteq listed
      /\ catalog' = [k \in Skus |-> IF k \in S THEN Shows[page[m]][k] ELSE catalog[k]]
      /\ refused' \in [Manifests -> SUBSET Skus]
      /\ \A n \in Manifests \ {m} : refused'[n] = refused[n]
      /\ settled' = IF listed \subseteq S \cup refused'[m] THEN settled \cup {m} ELSE settled
      /\ UNCHANGED page

Next ==
  \E m \in Manifests :
    \/ \E p \in Pages : Publish(m, p)
    \/ \E S \in SUBSET Skus : Apply(m, S)

Spec == Init /\ [][Next]_vars
=============================================================================
