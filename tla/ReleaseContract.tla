--------------------------- MODULE ReleaseContract ----------------------------
(***************************************************************************)
(* What the release of products promises the website, without agents,      *)
(* plans, repairs, locks or processes.  A product comes onto the website   *)
(* when one of its releases is published, and one that is still unverified *)
(* is withdrawn with its product.  A verified release is never withdrawn,  *)
(* and only people move a product otherwise.                               *)
(***************************************************************************)
CONSTANTS
  Products,
  Releases,
  NoOne        (* the product of a release that has not begun              *)

VARIABLES
  of,          (* the product of each release                              *)
  stage,       (* how far each release is                                  *)
  shown,       (* the products on the website                              *)
  hidden       (* history: products a person has hidden                    *)

vars == <<of, stage, shown, hidden>>

Init ==
  /\ of = [n \in Releases |-> NoOne]
  /\ stage = [n \in Releases |-> "not_applicable"]
  /\ shown = {} /\ hidden = {}

Begin(n, p) ==
  /\ of[n] = NoOne
  /\ of' = [of EXCEPT ![n] = p]
  /\ UNCHANGED <<stage, shown, hidden>>

(* The releases S move on together.                                        *)
Move(S, from, to) ==
  /\ \A n \in S : of[n] # NoOne /\ stage[n] = from
  /\ stage' = [n \in Releases |-> IF n \in S THEN to ELSE stage[n]]
  /\ UNCHANGED <<of, hidden>>

(* The last agent approves a release of a product that is not shown.       *)
Approve(n) ==
  /\ of[n] \notin shown
  /\ Move({n}, "not_applicable", "ready")
  /\ UNCHANGED shown

(* Releases of different products that are not shown.                      *)
Publish(S) ==
  /\ \A n \in S : of[n] \notin shown /\ \A m \in S \ {n} : of[m] # of[n]
  /\ Move(S, "ready", "published")
  /\ shown' = shown \cup {of[n] : n \in S}

Verify(S) ==
  /\ Move(S, "published", "verified")
  /\ UNCHANGED shown

Withdraw(S) ==
  /\ Move(S, "published", "rolled_back")
  /\ shown' = shown \ {of[n] : n \in S}

(* A person shows or hides a product.                                      *)
Show(p) ==
  /\ shown' = shown \cup {p}
  /\ UNCHANGED <<of, stage, hidden>>

Hide(p) ==
  /\ shown' = shown \ {p} /\ hidden' = hidden \cup {p}
  /\ UNCHANGED <<of, stage>>

Next ==
  \/ \E p \in Products : Show(p) \/ Hide(p) \/ \E n \in Releases : Begin(n, p)
  \/ \E n \in Releases : Approve(n)
  \/ \E S \in SUBSET Releases : Publish(S) \/ Verify(S) \/ Withdraw(S)

Spec == Init /\ [][Next]_vars
=============================================================================
