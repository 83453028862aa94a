---------------------------- MODULE CostRecovery ----------------------------
(***************************************************************************)
(* The life of a Sparex discovery item after it was observed: a draft      *)
(* product created from the listing page, the recovery of its dealer cost  *)
(* by throttled scripts, the application of the recovered price and its    *)
(* rollback (southern_parts_intelligence/models/sparex_discovery.py and    *)
(* scripts/sparex_catalog_agents/cost_recovery.py).                        *)
(*                                                                         *)
(* Every RPC is one database transaction and one action.  A script keeps   *)
(* what it read in its own state between two RPCs, so people and other     *)
(* scripts act in between.  Items are current and verified; their product  *)
(* has an exact Sparex URL, is unpublished and has no customer copy yet.   *)
(***************************************************************************)
EXTENDS Integers, FiniteSets

CONSTANTS
    Items,        \* discovery items, one SKU each
    Scripts,      \* cost-recovery scripts, each under a worker id of its own
    Makers,       \* discovery scripts that create missing products
    Prices,       \* dealer prices a portal page may show
    MaxAttempts,  \* MAX_COST_RECOVERY_ATTEMPTS
    MaxEdits,     \* bound: what people change in all
    NoOne         \* no worker holds the claim

ASSUME CostConstants ==
    /\ IsFiniteSet(Items) /\ NoOne \notin Scripts
    /\ Prices \subseteq Nat \ {0}
    /\ MaxAttempts \in Nat \ {0} /\ MaxEdits \in Nat

VARIABLES
    item,     \* southern.sparex.discovery.item
    product,  \* product.template with its Sparex supplier line
    script,   \* the local state of every cost-recovery script
    plan,     \* the creation plan a discovery script holds
    pipeline, \* "applying", or "staging" where SPAREX_DURABLE_CATALOG_PIPELINE is set
    portal,   \* "open", or "cooldown" while dealer-cost-portal-cooldown.json holds
    edits     \* what people changed so far

vars == <<item, product, script, plan, pipeline, portal, edits>>

NoLine == -1                 \* not exactly one Sparex supplier line
Markup(p) == p + 1           \* ceil(p / (1 - margin)), above p
Lists == {0} \cup {Markup(p) : p \in Prices} \cup {99}
Retail == 99                 \* a sales price a person set from retail evidence

ItemRow == [match : {"missing", "active", "archived"},
            creation : {"not_authorized", "review_required", "approved", "rejected", "created"},
            \* "lapsed" is a claim of more than 30 minutes ago
            recovery : {"not_required", "queued", "claimed", "lapsed", "retry_wait",
                        "manual_review", "resolved"},
            worker : Scripts \cup {NoOne},
            attempts : 0..MaxAttempts,
            cooling : BOOLEAN,            \* cost_recovery_next_at lies ahead
            titled : BOOLEAN,             \* verified detail title
            evidence : {0} \cup Prices]   \* the price of cost_evidence_sha256

ProductRow == [exists : BOOLEAN, active : BOOLEAN,
               touched : BOOLEAN,         \* written since it was created
               supplier : {NoLine, 0} \cup Prices,
               standard : {0} \cup Prices,
               list : Lists,
               basis : {"none", "cost_plus", "retail_evidence"}]

Absent == [exists |-> FALSE, active |-> FALSE, touched |-> FALSE,
           supplier |-> NoLine, standard |-> 0, list |-> 0, basis |-> "none"]
Draft == [Absent EXCEPT !.exists = TRUE, !.active = TRUE, !.supplier = 0]

\* A row of the claimed batch: the values to roll back to, and what came of it.
Unclaimed == [attempt |-> 0, supplier |-> 0, standard |-> 0, list |-> 0,
              basis |-> "none", titled |-> FALSE]
Idle == [pc |-> "idle", todo |-> {}, price |-> [i \in Items |-> 0],
         before |-> [i \in Items |-> Unclaimed], was |-> [i \in Items |-> 0],
         after |-> [i \in Items |-> Absent]]

Init ==
    /\ \E seen \in SUBSET Items, p \in Prices :
          /\ item = [i \in Items |->
                [match |-> IF i \in seen THEN "active" ELSE "missing",
                 creation |-> IF i \in seen THEN "not_authorized" ELSE "review_required",
                 recovery |-> "not_required", worker |-> NoOne,
                 attempts |-> 0, cooling |-> FALSE, titled |-> FALSE, evidence |-> 0]]
          /\ product = [i \in Items |->
                IF i \in seen THEN [Draft EXCEPT !.supplier = p, !.standard = p,
                                                 !.touched = TRUE]
                ELSE Absent]
    /\ script = [s \in Scripts |-> Idle]
    /\ plan = [m \in Makers |-> [items |-> {}, current |-> TRUE]]
    /\ pipeline \in {"applying", "staging"}
    /\ portal = "open"
    /\ edits = 0

-----------------------------------------------------------------------------
(* Readiness: _refresh_readiness, exact_dealer_cost_evidence_ready *)

HasCost(it, pr) ==
    /\ pr.exists /\ pr.supplier > 0 /\ pr.standard = pr.supplier
    /\ it.recovery = "resolved" /\ it.evidence # 0

Recoverable(it, pr) == it.match = "active" /\ pr.active

\* Mutated form of NextRecovery: a lapsed claim is left with its worker.
LapsedKept(it) == IF it.recovery \in {"manual_review", "claimed", "lapsed"} THEN it.recovery
                  ELSE "queued"

NextRecovery(it) ==
    IF it.recovery \in {"manual_review", "claimed"} THEN it.recovery
    ELSE IF it.attempts >= MaxAttempts THEN "manual_review"
    ELSE IF it.recovery = "retry_wait" /\ it.cooling THEN "retry_wait"
    ELSE "queued"

Refreshed(it, pr) ==
    IF HasCost(it, pr) /\ it.titled
    THEN [it EXCEPT !.recovery = "resolved", !.worker = NoOne, !.cooling = FALSE]
    ELSE IF ~Recoverable(it, pr)
    THEN [it EXCEPT !.recovery = "not_required", !.worker = NoOne, !.cooling = FALSE]
    ELSE IF NextRecovery(it) = "queued"
    THEN [it EXCEPT !.recovery = "queued", !.worker = NoOne, !.cooling = FALSE]
    ELSE [it EXCEPT !.recovery = NextRecovery(it)]

\* refresh_readiness_batch and continuous_release_status, for one of their rows.
Refresh(i) ==
    /\ item' = [item EXCEPT ![i] = Refreshed(item[i], product[i])]
    /\ UNCHANGED <<product, script, plan, portal, edits, pipeline>>

ClaimAges(i) ==
    /\ item[i].recovery = "claimed"
    /\ item' = [item EXCEPT ![i].recovery = "lapsed"]
    /\ UNCHANGED <<product, script, plan, portal, edits, pipeline>>

RetryFallsDue(i) ==
    /\ item[i].cooling
    /\ item' = [item EXCEPT ![i].cooling = FALSE]
    /\ UNCHANGED <<product, script, plan, portal, edits, pipeline>>

CooldownEnds ==
    /\ portal = "cooldown"
    /\ portal' = "open"
    /\ UNCHANGED <<item, product, script, plan, edits, pipeline>>

-----------------------------------------------------------------------------
(* Creation of missing products from the listing page *)

Creatable(i) == item[i].match = "missing" /\ item[i].creation \in {"review_required", "approved"}

\* Every write of an item changes its write_date and so voids the plans that hold it.
Voided(changed) ==
    [m \in Makers |-> IF plan[m].items \cap changed # {}
                      THEN [plan[m] EXCEPT !.current = FALSE] ELSE plan[m]]

PlanCreation(m) ==
    /\ plan[m].items = {}
    /\ \E S \in SUBSET {i \in Items : Creatable(i)} \ {{}} :
          plan' = [plan EXCEPT ![m] = [items |-> S, current |-> TRUE]]
    /\ UNCHANGED <<item, product, script, portal, edits, pipeline>>

\* apply_product_creation_plan: all rows or none.  An exact product that turned
\* up in the meantime is linked, not created again.
ApplyCreation(m) ==
    LET S == plan[m].items IN
    /\ S # {} /\ plan[m].current
    /\ \A i \in S : Creatable(i)
    /\ product' = [i \in Items |-> IF i \in S /\ ~product[i].exists THEN Draft ELSE product[i]]
    /\ item' = [i \in Items |->
          IF i \notin S THEN item[i]
          ELSE Refreshed([item[i] EXCEPT
                  !.match = IF product'[i].active THEN "active" ELSE "archived",
                  !.creation = IF product[i].exists THEN "not_authorized" ELSE "created"],
                  product'[i])]
    /\ plan' = [Voided(S) EXCEPT ![m] = [items |-> {}, current |-> TRUE]]
    /\ UNCHANGED <<script, portal, edits, pipeline>>

\* The evidence changed, the supplier changed, archiving failed, the script ended.
DropPlan(m) ==
    /\ plan[m].items # {}
    /\ plan' = [plan EXCEPT ![m] = [items |-> {}, current |-> TRUE]]
    /\ UNCHANGED <<item, product, script, portal, edits, pipeline>>

\* rollback_created_products, for a record that apply_product_creation_plan returned.
RollbackCreation(i) ==
    /\ item[i].creation = "created" /\ product[i].exists /\ ~product[i].touched
    /\ product[i].list = 0 /\ product[i].standard = 0 /\ product[i].supplier = 0
    /\ product' = [product EXCEPT ![i].active = FALSE, ![i].touched = TRUE]
    /\ item' = [item EXCEPT ![i] =
          Refreshed([item[i] EXCEPT !.match = "archived", !.creation = "rejected"], product'[i])]
    /\ edits < MaxEdits /\ edits' = edits + 1
    /\ UNCHANGED <<script, plan, portal, pipeline>>

\* action_approve/reject/reset_creation_review, on one item.
Review(i) ==
    /\ edits < MaxEdits /\ edits' = edits + 1
    /\ \/ /\ item[i].match = "missing"
          /\ \E c \in {"approved", "rejected", "review_required"} :
                item' = [item EXCEPT ![i].creation = c]
       \/ /\ item[i].match # "missing"
          /\ item' = [item EXCEPT ![i].creation = "not_authorized"]
    /\ plan' = Voided({i})
    /\ UNCHANGED <<product, script, portal, pipeline>>

\* The part of record_discovery_page that rematches an item it knows.
Observe(i) ==
    LET match == IF ~product[i].exists THEN "missing"
                 ELSE IF product[i].active THEN "active" ELSE "archived" IN
    /\ item' = [item EXCEPT
          ![i].match = match,
          ![i].creation = IF match # "missing" /\ item[i].creation = "created" THEN "created"
                          ELSE IF match = "missing" THEN "review_required" ELSE "not_authorized"]
    /\ plan' = Voided({i})
    /\ UNCHANGED <<product, script, portal, edits, pipeline>>

-----------------------------------------------------------------------------
(* People: products made, repriced, archived and brought back by hand *)

PersonCreates(i) ==
    /\ ~product[i].exists
    /\ product' = [product EXCEPT ![i] = [Draft EXCEPT !.supplier = NoLine, !.touched = TRUE]]

PersonEdits(i) ==
    /\ product[i].exists
    /\ \/ product' = [product EXCEPT ![i].list = Retail, ![i].basis = "retail_evidence",
                                     ![i].touched = TRUE]
       \/ \E p \in Prices : product' = [product EXCEPT ![i].supplier = p, ![i].touched = TRUE]
       \/ \E p \in Prices : product' = [product EXCEPT ![i].standard = p, ![i].touched = TRUE]
       \/ product' = [product EXCEPT ![i].active = ~@, ![i].touched = TRUE]

Person(i) ==
    /\ edits < MaxEdits /\ edits' = edits + 1
    /\ PersonCreates(i) \/ PersonEdits(i)
    /\ UNCHANGED <<item, script, plan, portal, pipeline>>

-----------------------------------------------------------------------------
(* The recovery script: recover_dealer_costs and the RPCs it calls *)

Claimable(i) ==
    item[i].recovery = "queued" \/ (item[i].recovery = "retry_wait" /\ ~item[i].cooling)

\* Mutated form of Owns: the worker is not compared.
OwnedByAny(s, i) == item[i].recovery \in {"claimed", "lapsed"}

Owns(s, i) == item[i].recovery \in {"claimed", "lapsed"} /\ item[i].worker = s

\* claim_cost_recovery_batch: rows in order of priority, up to the limit.
ClaimBatch(s) ==
    /\ script[s].pc = "idle" /\ portal = "open"
    /\ \E S \in SUBSET {i \in Items : Claimable(i)} \ {{}} :
          /\ item' = [i \in Items |->
                IF i \in S THEN [item[i] EXCEPT !.recovery = "claimed", !.worker = s,
                                                !.attempts = @ + 1]
                ELSE item[i]]
          /\ script' = [script EXCEPT ![s] =
                [Idle EXCEPT !.pc = "fetching", !.todo = S,
                    !.before = [i \in Items |->
                        IF i \in S THEN [attempt |-> item'[i].attempts,
                                         supplier |-> product[i].supplier,
                                         standard |-> product[i].standard,
                                         list |-> product[i].list,
                                         basis |-> product[i].basis,
                                         titled |-> item[i].titled]
                        ELSE Unclaimed]]]
    /\ UNCHANGED <<product, plan, portal, edits, pipeline>>

Claimed(s) == {i \in Items : script[s].before[i] # Unclaimed}
Accepted(s) == {i \in Items : script[s].price[i] # 0}

\* Mutated form of Recorded: attempts are not counted against the limit.
RecordedUnlimited(it, outcome) ==
    [it EXCEPT !.recovery = "retry_wait", !.cooling = TRUE, !.worker = NoOne]

\* record_cost_recovery_result of an item its caller owns.
Recorded(it, outcome) ==
    IF outcome = "manual_review" \/ it.attempts >= MaxAttempts
    THEN [it EXCEPT !.recovery = "manual_review", !.cooling = FALSE, !.worker = NoOne]
    ELSE [it EXCEPT !.recovery = "retry_wait", !.cooling = TRUE, !.worker = NoOne]

\* The same for several items, one RPC each; a refusal is caught and noted.
Released(s, S, outcome) ==
    [i \in Items |-> IF i \in S /\ Owns(s, i) THEN Recorded(item[i], outcome) ELSE item[i]]

FetchAccepts(s, i) ==
    /\ script[s].pc = "fetching" /\ i \in script[s].todo
    /\ script[s].before[i].supplier # NoLine
    /\ \E p \in Prices :
          script' = [script EXCEPT ![s].price[i] = p, ![s].todo = @ \ {i}]
    /\ UNCHANGED <<item, product, plan, portal, edits, pipeline>>

\* A refusal of this RPC is not caught: the script ends, its claims stay.
FetchFails(s, i) ==
    /\ script[s].pc = "fetching" /\ i \in script[s].todo
    /\ \E outcome \in {"manual_review", "source_unavailable"} :
          /\ script[s].before[i].supplier = NoLine => outcome = "manual_review"
          /\ \/ /\ Owns(s, i)
                /\ item' = [item EXCEPT ![i] = Recorded(item[i], outcome)]
                /\ script' = [script EXCEPT ![s].todo = @ \ {i}]
             \/ /\ ~Owns(s, i)
                /\ script' = [script EXCEPT ![s] = Idle]
                /\ UNCHANGED item
    /\ UNCHANGED <<product, plan, portal, edits, pipeline>>

\* PortalCooldownError: every claim of the batch is released, read or not.
PortalRefuses(s) ==
    /\ script[s].pc = "fetching" /\ script[s].todo # {}
    /\ item' = Released(s, Claimed(s), "source_unavailable")
    /\ script' = [script EXCEPT ![s] = Idle]
    /\ portal' = "cooldown"
    /\ UNCHANGED <<product, plan, edits, pipeline>>

\* The process ends: killed, or an exception that is not handled.
Crash(s) ==
    /\ script[s].pc # "idle"
    /\ script' = [script EXCEPT ![s] = Idle]
    /\ UNCHANGED <<item, product, plan, portal, edits, pipeline>>

\* The batch was read: nothing to apply, or the pipeline the environment selects.
FetchEnds(s) ==
    /\ script[s].pc = "fetching" /\ script[s].todo = {}
    /\ IF Accepted(s) = {}
       THEN script' = [script EXCEPT ![s] = Idle]
       ELSE script' = [script EXCEPT ![s].pc = pipeline]
    /\ UNCHANGED <<item, product, plan, portal, edits, pipeline>>

\* Mutated form of Applicable: the supplier price is not compared with the claim's.
AppliedOver(s, i) == Owns(s, i) /\ product[i].exists /\ product[i].active

\* The guards of apply_cost_recovery_plan, for one record.
Applicable(s, i) ==
    /\ Owns(s, i)
    /\ product[i].exists /\ product[i].active
    /\ product[i].supplier = script[s].before[i].supplier

CostPlus(pr) == pr.list = 0 \/ pr.basis = "none"

Priced(pr, price) ==
    LET costed == [pr EXCEPT !.supplier = price, !.standard = price, !.touched = TRUE] IN
    IF CostPlus(pr) THEN [costed EXCEPT !.list = Markup(price), !.basis = "cost_plus"] ELSE costed

\* apply_cost_recovery_plan: one transaction for the whole batch.  The reply may
\* be lost after the commit; the script then takes the write for not done.
Apply(s) ==
    LET S == Accepted(s) IN
    /\ script[s].pc = "applying"
    /\ \A i \in S : Applicable(s, i)
    /\ product' = [i \in Items |-> IF i \in S THEN Priced(product[i], script[s].price[i])
                                   ELSE product[i]]
    /\ item' = [i \in Items |->
          IF i \notin S THEN item[i]
          ELSE Refreshed([item[i] EXCEPT !.titled = TRUE, !.recovery = "resolved",
                              !.cooling = FALSE, !.worker = NoOne,
                              !.evidence = script[s].price[i]], product'[i])]
    /\ \/ script' = [script EXCEPT ![s].pc = "verifying",
                                   ![s].was = [i \in Items |-> IF i \in S THEN product[i].supplier ELSE 0],
                                   ![s].after = [i \in Items |-> IF i \in S THEN product'[i] ELSE Absent]]
       \/ script' = [script EXCEPT ![s] = Idle]
    /\ UNCHANGED <<plan, portal, edits, pipeline>>

\* A record is refused, or some check outside this model fails: nothing is
\* written and every accepted item goes to a person.
ApplyRefused(s) ==
    /\ script[s].pc = "applying"
    /\ item' = Released(s, Accepted(s), "manual_review")
    /\ script' = [script EXCEPT ![s] = Idle]
    /\ UNCHANGED <<product, plan, portal, edits, pipeline>>

AsApplied(s, i) ==
    LET a == script[s].after[i] IN
    /\ product[i].supplier = a.supplier /\ product[i].standard = a.standard
    /\ product[i].list = a.list /\ product[i].basis = a.basis

\* Every row is read back; a mismatch or a failed read asks for the rollback.
Verify(s) ==
    /\ script[s].pc = "verifying"
    /\ \/ /\ \A i \in Accepted(s) : AsApplied(s, i) /\ item[i].titled
          /\ script' = [script EXCEPT ![s] = Idle]
       \/ script' = [script EXCEPT ![s].pc = "rolling_back"]
    /\ UNCHANGED <<item, product, plan, portal, edits, pipeline>>

\* What rollback_cost_recovery writes to the item, before its readiness is refreshed.
Returned(it, b) ==
    [it EXCEPT !.titled = b.titled, !.recovery = "manual_review", !.worker = NoOne,
               !.cooling = FALSE]

\* rollback_cost_recovery: all rows or none.
RollBack(s) ==
    LET S == Accepted(s) IN
    /\ script[s].pc = "rolling_back"
    /\ \A i \in S : AsApplied(s, i)
    /\ product' = [i \in Items |->
          IF i \notin S THEN product[i]
          ELSE LET b == script[s].before[i] IN
               [product[i] EXCEPT !.supplier = b.supplier, !.standard = b.standard,
                                  !.list = b.list, !.basis = b.basis, !.touched = TRUE]]
    /\ item' = [i \in Items |->
          IF i \notin S THEN item[i]
          ELSE Refreshed(Returned(item[i], script[s].before[i]), product'[i])]
    /\ script' = [script EXCEPT ![s] = Idle]
    /\ UNCHANGED <<plan, portal, edits, pipeline>>

\* record_durable_cost_staged, one RPC per accepted item.
Stage(s, i) ==
    /\ script[s].pc = "staging" /\ i \in Accepted(s) /\ Owns(s, i)
    /\ item' = [item EXCEPT ![i].recovery = "resolved", ![i].worker = NoOne, ![i].cooling = FALSE]
    /\ script' = [script EXCEPT ![s] =
          IF Accepted(s) = {i} THEN Idle ELSE [@ EXCEPT !.price[i] = 0]]
    /\ UNCHANGED <<product, plan, portal, edits, pipeline>>

\* The staging call failed, or one item was refused: the rest goes to a person.
StageFails(s) ==
    /\ script[s].pc = "staging"
    /\ item' = Released(s, Accepted(s), "manual_review")
    /\ script' = [script EXCEPT ![s] = Idle]
    /\ UNCHANGED <<product, plan, portal, edits, pipeline>>

-----------------------------------------------------------------------------
Recovery(s) ==
    \/ ClaimBatch(s) \/ PortalRefuses(s) \/ Crash(s) \/ FetchEnds(s)
    \/ Apply(s) \/ ApplyRefused(s) \/ Verify(s) \/ RollBack(s) \/ StageFails(s)
    \/ \E i \in Items : FetchAccepts(s, i) \/ FetchFails(s, i) \/ Stage(s, i)

Next ==
    \/ CooldownEnds
    \/ \E s \in Scripts : Recovery(s)
    \/ \E m \in Makers : PlanCreation(m) \/ ApplyCreation(m) \/ DropPlan(m)
    \/ \E i \in Items : \/ Refresh(i) \/ ClaimAges(i) \/ RetryFallsDue(i)
                        \/ RollbackCreation(i) \/ Review(i) \/ Observe(i) \/ Person(i)

Spec == Init /\ [][Next]_vars

\* While the schedule is on and releases go on, every dispatch poll refreshes the
\* rows that were refreshed least recently, and time passes; nothing is assumed of
\* scripts, portal and people.
FairSpec == Spec /\ \A i \in Items : WF_vars(ClaimAges(i)) /\ WF_vars(Refresh(i))

-----------------------------------------------------------------------------
\* The state is well formed; in particular no item is claimed more than
\* MaxAttempts times, whatever claims lapse, crash or are refused by the portal.
TypeOK ==
    /\ item \in [Items -> ItemRow]
    /\ product \in [Items -> ProductRow]
    /\ \A s \in Scripts : script[s].pc \in
          {"idle", "fetching", "applying", "staging", "verifying", "rolling_back"}
    /\ \A m \in Makers : plan[m].items \subseteq Items /\ plan[m].current \in BOOLEAN
    /\ pipeline \in {"applying", "staging"}
    /\ portal \in {"open", "cooldown"} /\ edits \in 0..MaxEdits

\* A recovered price is applied only under the claim it was read for: no other
\* claim of the item was taken in between (the worker check of
\* apply_cost_recovery_plan against claims that lapse and are taken again).
AppliesOwnClaim ==
    [][\A s \in Scripts, i \in Items :
          script[s].pc = "applying" /\ script'[s] # script[s]
             /\ product'[i].supplier # product[i].supplier
          => item[i].attempts = script[s].before[i].attempt]_vars

\* A rollback puts back the supplier price that stood just before the script
\* applied its own, though it writes what the script read when it claimed.
RollbackRestoresCost ==
    [][\A s \in Scripts :
          script[s].pc = "rolling_back" /\ script'[s].pc = "idle" /\ product' # product =>
             \A i \in Accepted(s) : product'[i].supplier = script[s].was[i]]_vars

Owned(i) == item[i].recovery \in {"claimed", "lapsed"}

\* The claim of a script that stopped is given up: the item is queued again or
\* handed to a person.
ClaimsEnd ==
    \A i \in Items : Owned(i) ~> ~Owned(i)
=============================================================================
