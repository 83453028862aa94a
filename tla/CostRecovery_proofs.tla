-------------------------- MODULE CostRecovery_proofs --------------------------
(***************************************************************************)
(* Proofs about CostRecovery, for every number of items, scripts and       *)
(* makers of plans, every set of dealer prices, every limit of attempts    *)
(* and any number of edits by people.                                      *)
(***************************************************************************)
EXTENDS CostRecovery, TLAPS

-----------------------------------------------------------------------------
(* The inductive invariant.                                                *)

Suppliers == {NoLine, 0} \cup Prices

(* What a script keeps between two RPCs.                                   *)
ClaimRow ==
  [attempt : 0..MaxAttempts, supplier : Suppliers, standard : {0} \cup Prices,
   list : Lists, basis : {"none", "cost_plus", "retail_evidence"}, titled : BOOLEAN]

ScriptRow ==
  [pc : {"idle", "fetching", "applying", "staging", "verifying", "rolling_back"},
   todo : SUBSET Items, price : [Items -> {0} \cup Prices], before : [Items -> ClaimRow],
   was : [Items -> Suppliers], after : [Items -> ProductRow]]

PlanRow == [items : SUBSET Items, current : BOOLEAN]

ItemsTyped    == item \in [Items -> ItemRow]
ProductsTyped == product \in [Items -> ProductRow]
ScriptsTyped  == script \in [Scripts -> ScriptRow]
PlansTyped    == plan \in [Makers -> PlanRow]
RestTyped     ==
  pipeline \in {"applying", "staging"} /\ portal \in {"open", "cooldown"} /\ edits \in 0..MaxEdits

(* An item that may be claimed, or may be after its wait, has an attempt   *)
(* left.                                                                   *)
TryLeft(it) == it.recovery \in {"queued", "retry_wait"} => it.attempts < MaxAttempts

TriesLeft == \A i \in Items : TryLeft(item[i])

(* The claim of worker s on an item.                                       *)
Holds(it, s) == it.recovery \in {"claimed", "lapsed"} /\ it.worker = s

(* Where the script of x has yet to read a page, or has read a price, and  *)
(* still holds the item, it is by the claim it knows.                      *)
SameClaim(x, s, I) ==
  \A i \in Items :
    (i \in x.todo \/ x.price[i] # 0) /\ Holds(I[i], s) => I[i].attempts = x.before[i].attempt

(* What an applied price has replaced is what the claim has read.          *)
Stood(x) ==
  x.pc \in {"verifying", "rolling_back"} =>
    \A i \in Items : x.price[i] # 0 => x.was[i] = x.before[i].supplier

ScriptsKnow == \A s \in Scripts : SameClaim(script[s], s, item) /\ Stood(script[s])

IInv ==
  ItemsTyped /\ ProductsTyped /\ ScriptsTyped /\ PlansTyped /\ RestTyped
    /\ TriesLeft /\ ScriptsKnow

(* What may happen to an item between two RPCs of the script that holds    *)
(* it: others do not claim it.                                             *)
NoNewClaim(it, new) ==
  /\ new.attempts = it.attempts
  /\ new.recovery \in {"claimed", "lapsed"} =>
       it.recovery \in {"claimed", "lapsed"} /\ new.worker = it.worker

-----------------------------------------------------------------------------
(* What the operators on rows return.                                      *)

(* A price of a sale stays within the list prices.                         *)
LEMMA PricesAreListed ==
  /\ 0 \in Lists /\ Retail \in Lists /\ \A p \in Prices : Markup(p) \in Lists /\ p # 0
  /\ 0 \in 0..MaxAttempts
  BY CostConstants DEF Lists, Retail

(* A refresh of readiness neither claims nor spends an attempt, and queues *)
(* only items with an attempt left.                                        *)
LEMMA RefreshedRow ==
  ASSUME NEW it \in ItemRow, NEW pr
  PROVE  /\ Refreshed(it, pr) \in ItemRow
         /\ NoNewClaim(it, Refreshed(it, pr)) /\ TryLeft(Refreshed(it, pr))
  <1>. DEFINE new == Refreshed(it, pr)
  <1>1. \A r \in {"resolved", "not_required", "queued"} :
          LET x == [it EXCEPT !.recovery = r, !.worker = NoOne, !.cooling = FALSE]
          IN  x \in ItemRow /\ x.attempts = it.attempts /\ x.recovery = r
    BY DEF ItemRow
  <1>2. CASE new = [it EXCEPT !.recovery = "resolved", !.worker = NoOne, !.cooling = FALSE]
               \/ new = [it EXCEPT !.recovery = "not_required", !.worker = NoOne, !.cooling = FALSE]
    BY <1>1, <1>2 DEF NoNewClaim, TryLeft
  <1>3. CASE /\ NextRecovery(it) = "queued"
             /\ new = [it EXCEPT !.recovery = "queued", !.worker = NoOne, !.cooling = FALSE]
    <2>1. it.attempts < MaxAttempts
      BY <1>3, CostConstants DEF NextRecovery, ItemRow
    <2>. QED
      BY <1>1, <1>3, <2>1 DEF NoNewClaim, TryLeft
  <1>4. CASE NextRecovery(it) # "queued" /\ new = [it EXCEPT !.recovery = NextRecovery(it)]
    <2>. DEFINE r == NextRecovery(it)
    <2>1. /\ r \in {"manual_review", "claimed", "retry_wait"}
          /\ r = "claimed" => it.recovery = "claimed"
          /\ r = "retry_wait" => it.attempts < MaxAttempts
      BY <1>4, CostConstants DEF NextRecovery, ItemRow
    <2>2. new = [it EXCEPT !.recovery = r]
      BY <1>4
    <2>. HIDE DEF r, new
    <2>3. /\ new \in ItemRow /\ new.attempts = it.attempts /\ new.recovery = r
          /\ new.worker = it.worker
      BY <2>1, <2>2 DEF ItemRow
    <2>4. NoNewClaim(it, new) /\ TryLeft(new)
      BY <2>1, <2>3 DEF NoNewClaim, TryLeft
    <2>. QED
      BY <2>3, <2>4 DEF new
  <1>. QED
    BY <1>2, <1>3, <1>4 DEF Refreshed

(* A failed attempt ends the claim; the item waits only if another attempt *)
(* is left.                                                                *)
LEMMA RecordedRow ==
  ASSUME NEW it \in ItemRow, NEW outcome
  PROVE  /\ Recorded(it, outcome) \in ItemRow
         /\ NoNewClaim(it, Recorded(it, outcome)) /\ TryLeft(Recorded(it, outcome))
  <1>. DEFINE new == Recorded(it, outcome)
              manual == [it EXCEPT !.recovery = "manual_review", !.cooling = FALSE, !.worker = NoOne]
              wait == [it EXCEPT !.recovery = "retry_wait", !.cooling = TRUE, !.worker = NoOne]
  <1>1. \/ new = manual
        \/ new = wait /\ it.attempts < MaxAttempts
    BY CostConstants DEF Recorded, ItemRow
  <1>2. /\ manual \in ItemRow /\ manual.attempts = it.attempts /\ manual.recovery = "manual_review"
        /\ wait \in ItemRow /\ wait.attempts = it.attempts /\ wait.recovery = "retry_wait"
    BY DEF ItemRow
  <1>. HIDE DEF new, manual, wait
  <1>3. new \in ItemRow /\ NoNewClaim(it, new) /\ TryLeft(new)
    BY <1>1, <1>2 DEF NoNewClaim, TryLeft
  <1>. QED
    BY <1>3 DEF new

(* The items of a script that are released.                                *)
LEMMA ReleasedItems ==
  ASSUME ItemsTyped, TriesLeft, NEW s, NEW S, NEW outcome, item' = Released(s, S, outcome)
  PROVE  ItemsTyped' /\ TriesLeft' /\ \A i \in Items : NoNewClaim(item[i], item'[i])
  <1>1. ASSUME NEW i \in Items
        PROVE  item'[i] \in ItemRow /\ NoNewClaim(item[i], item'[i]) /\ TryLeft(item'[i])
    <2>1. item[i] \in ItemRow /\ TryLeft(item[i]) /\ NoNewClaim(item[i], item[i])
      BY DEF ItemsTyped, TriesLeft, NoNewClaim
    <2>2. item'[i] = item[i] \/ item'[i] = Recorded(item[i], outcome)
      BY DEF Released
    <2>. QED
      BY <2>1, <2>2, RecordedRow
  <1>. QED
    BY <1>1 DEF Released, ItemsTyped, TriesLeft

(* Rows of plans that are voided.                                          *)
LEMMA VoidedPlans ==
  ASSUME PlansTyped, NEW S
  PROVE  Voided(S) \in [Makers -> PlanRow]
  BY DEF PlansTyped, Voided, PlanRow

(* A script that does nothing holds nothing.                               *)
LEMMA IdleScript ==
  Idle \in ScriptRow /\ Stood(Idle) /\ \A s, I : SameClaim(Idle, s, I)
  <1>1. Unclaimed \in ClaimRow
    BY PricesAreListed DEF Unclaimed, ClaimRow, Suppliers
  <1>2. Absent \in ProductRow
    BY PricesAreListed DEF Absent, ProductRow
  <1>3. Idle \in ScriptRow
    BY <1>1, <1>2 DEF Idle, ScriptRow, Suppliers
  <1>. QED
    BY <1>3 DEF Idle, Stood, SameClaim

(* The draft that is made of a listing page.                               *)
LEMMA DraftProduct == Draft \in ProductRow /\ Absent \in ProductRow
  BY PricesAreListed DEF Draft, Absent, ProductRow

-----------------------------------------------------------------------------
(* What a step does to the parts.                                          *)

(* A step of somebody else than the scripts.                               *)
LEMMA OthersKeep ==
  ASSUME IInv, ItemsTyped', ProductsTyped', PlansTyped', RestTyped', TriesLeft',
         UNCHANGED script, \A i \in Items : NoNewClaim(item[i], item'[i])
  PROVE  IInv'
  <1>1. ScriptsKnow'
    BY DEF IInv, ScriptsKnow, SameClaim, Holds, NoNewClaim
  <1>. QED
    BY <1>1 DEF IInv, ScriptsTyped

(* A step of script s, which goes on as x, while no item is claimed.       *)
LEMMA ScriptMoves ==
  ASSUME IInv, NEW s \in Scripts, NEW x \in ScriptRow, script' = [script EXCEPT ![s] = x],
         ItemsTyped', ProductsTyped', RestTyped', TriesLeft', UNCHANGED plan,
         \A i \in Items : NoNewClaim(item[i], item'[i]),
         SameClaim(x, s, item'), Stood(x)
  PROVE  IInv'
  <1>1. ASSUME NEW t \in Scripts
        PROVE  SameClaim(script'[t], t, item') /\ Stood(script'[t])
    <2>1. CASE t = s
      BY <2>1 DEF IInv, ScriptsTyped
    <2>2. CASE t # s
      <3>1. script'[t] = script[t]
        BY <2>2 DEF IInv, ScriptsTyped
      <3>2. SameClaim(script[t], t, item')
        BY DEF IInv, ScriptsKnow, SameClaim, Holds, NoNewClaim
      <3>. QED
        BY <3>1, <3>2 DEF IInv, ScriptsKnow
    <2>. QED
      BY <2>1, <2>2
  <1>2. ScriptsTyped' /\ PlansTyped'
    BY DEF IInv, ScriptsTyped, PlansTyped
  <1>3. ScriptsKnow'
    BY <1>1 DEF ScriptsKnow
  <1>. QED
    BY <1>2, <1>3 DEF IInv

(* A script that keeps what it knows, or forgets some of it.               *)
LEMMA StillSameClaim ==
  ASSUME IInv, NEW s \in Scripts, NEW x,
         x.todo \subseteq script[s].todo, x.before = script[s].before,
         \A i \in Items : x.price[i] # 0 => script[s].price[i] # 0 \/ i \in script[s].todo,
         \A i \in Items : NoNewClaim(item[i], item'[i])
  PROVE  SameClaim(x, s, item')
  <1>1. SameClaim(script[s], s, item)
    BY DEF IInv, ScriptsKnow
  <1>. QED
    BY <1>1 DEF SameClaim, Holds, NoNewClaim

(* One item that changes.                                                  *)
LEMMA OneItem ==
  ASSUME ItemsTyped, TriesLeft, NEW i \in Items, NEW new \in ItemRow,
         NoNewClaim(item[i], new), TryLeft(new), item' = [item EXCEPT ![i] = new]
  PROVE  ItemsTyped' /\ TriesLeft' /\ \A j \in Items : NoNewClaim(item[j], item'[j])
  <1>1. ASSUME NEW j \in Items
        PROVE  /\ item'[j] \in ItemRow /\ TryLeft(item'[j])
               /\ NoNewClaim(item[j], item'[j])
    <2>1. item[j] \in ItemRow /\ TryLeft(item[j]) /\ NoNewClaim(item[j], item[j])
      BY DEF ItemsTyped, TriesLeft, NoNewClaim
    <2>2. item'[j] = IF j = i THEN new ELSE item[j]
      BY DEF ItemsTyped
    <2>. QED
      BY <2>1, <2>2
  <1>. QED
    BY <1>1 DEF ItemsTyped, TriesLeft

(* No item changes.                                                        *)
LEMMA NoItem ==
  ASSUME ItemsTyped, TriesLeft, UNCHANGED item
  PROVE  ItemsTyped' /\ TriesLeft' /\ \A j \in Items : NoNewClaim(item[j], item'[j])
  BY DEF ItemsTyped, TriesLeft, NoNewClaim

(* An item whose match, creation review, title or wait changes.            *)
LEMMA RewrittenRow ==
  ASSUME NEW it \in ItemRow, NEW m \in {"missing", "active", "archived"},
         NEW c \in {"not_authorized", "review_required", "approved", "rejected", "created"}
  PROVE  LET new == [it EXCEPT !.match = m, !.creation = c]
         IN  /\ new \in ItemRow /\ NoNewClaim(it, new)
             /\ TryLeft(it) => TryLeft(new)
  BY ZenonT(60) DEF ItemRow, NoNewClaim, TryLeft

(* A refresh of a row that was rewritten claims nothing either.            *)
LEMMA RefreshedAfter ==
  ASSUME NEW it, NEW between \in ItemRow, NEW pr, NoNewClaim(it, between)
  PROVE  LET new == Refreshed(between, pr)
         IN  new \in ItemRow /\ NoNewClaim(it, new) /\ TryLeft(new)
  <1>. DEFINE new == Refreshed(between, pr)
  <1>1. new \in ItemRow /\ NoNewClaim(between, new) /\ TryLeft(new)
    BY RefreshedRow
  <1>. HIDE DEF new
  <1>2. NoNewClaim(it, new)
    BY <1>1 DEF NoNewClaim
  <1>. QED
    BY <1>1, <1>2 DEF new

-----------------------------------------------------------------------------
(* The steps keep the invariant.                                           *)

(* In an initial state nothing is claimed and no script is at work.        *)
LEMMA IInvInitially == Init => IInv
  <1>. SUFFICES ASSUME Init PROVE IInv
    OBVIOUS
  <1>1. PICK seen \in SUBSET Items, p \in Prices :
          /\ item = [i \in Items |->
                [match |-> IF i \in seen THEN "active" ELSE "missing",
                 creation |-> IF i \in seen THEN "not_authorized" ELSE "review_required",
                 recovery |-> "not_required", worker |-> NoOne,
                 attempts |-> 0, cooling |-> FALSE, titled |-> FALSE, evidence |-> 0]]
          /\ product = [i \in Items |->
                IF i \in seen THEN [Draft EXCEPT !.supplier = p, !.standard = p, !.touched = TRUE]
                ELSE Absent]
    BY DEF Init
  <1>2. ItemsTyped /\ TriesLeft
    <2>1. ASSUME NEW m \in {"active", "missing"}, NEW c \in {"not_authorized", "review_required"}
          PROVE  LET it == [match |-> m, creation |-> c,
                            recovery |-> "not_required", worker |-> NoOne,
                            attempts |-> 0, cooling |-> FALSE, titled |-> FALSE, evidence |-> 0]
                 IN  it \in ItemRow /\ TryLeft(it)
      BY PricesAreListed DEF ItemRow, TryLeft
    <2>2. ASSUME NEW i \in Items
          PROVE  item[i] \in ItemRow /\ TryLeft(item[i])
      <3>. DEFINE m == IF i \in seen THEN "active" ELSE "missing"
                  c == IF i \in seen THEN "not_authorized" ELSE "review_required"
      <3>1. m \in {"active", "missing"} /\ c \in {"not_authorized", "review_required"}
        OBVIOUS
      <3>2. item[i] = [match |-> m, creation |-> c,
                       recovery |-> "not_required", worker |-> NoOne,
                       attempts |-> 0, cooling |-> FALSE, titled |-> FALSE, evidence |-> 0]
        BY <1>1
      <3>. HIDE DEF m, c
      <3>. QED
        BY <2>1, <3>1, <3>2
    <2>. QED
      BY <1>1, <2>2 DEF ItemsTyped, TriesLeft
  <1>3. ProductsTyped
    <2>1. [Draft EXCEPT !.supplier = p, !.standard = p, !.touched = TRUE] \in ProductRow
      BY DraftProduct DEF ProductRow
    <2>. QED
      BY <1>1, <2>1, DraftProduct DEF ProductsTyped
  <1>4. ScriptsTyped /\ ScriptsKnow
    BY IdleScript DEF Init, ScriptsTyped, ScriptsKnow
  <1>5. PlansTyped /\ RestTyped
    BY CostConstants DEF Init, PlansTyped, PlanRow, RestTyped
  <1>. QED
    BY <1>2, <1>3, <1>4, <1>5 DEF IInv

(* The refresh of an item, the ageing of its claim, and the end of a wait. *)
LEMMA ItemAges ==
  ASSUME IInv, NEW i \in Items, Refresh(i) \/ ClaimAges(i) \/ RetryFallsDue(i)
  PROVE  IInv'
  <1>1. item[i] \in ItemRow /\ TryLeft(item[i]) /\ ItemsTyped /\ TriesLeft
    BY DEF IInv, ItemsTyped, TriesLeft
  <1>2. PICK new \in ItemRow :
          /\ item' = [item EXCEPT ![i] = new]
          /\ NoNewClaim(item[i], new) /\ TryLeft(new)
    <2>1. CASE Refresh(i)
      BY <1>1, <2>1, RefreshedRow DEF Refresh
    <2>2. CASE ClaimAges(i)
      <3>. DEFINE new == [item[i] EXCEPT !.recovery = "lapsed"]
      <3>1. new \in ItemRow /\ NoNewClaim(item[i], new) /\ TryLeft(new)
        BY <1>1, <2>2 DEF ClaimAges, ItemRow, NoNewClaim, TryLeft
      <3>. QED
        BY <1>1, <2>2, <3>1 DEF ClaimAges, ItemsTyped
    <2>3. CASE RetryFallsDue(i)
      <3>. DEFINE new == [item[i] EXCEPT !.cooling = FALSE]
      <3>1. new \in ItemRow /\ NoNewClaim(item[i], new) /\ TryLeft(new)
        BY <1>1 DEF ItemRow, NoNewClaim, TryLeft
      <3>. QED
        BY <1>1, <2>3, <3>1 DEF RetryFallsDue, ItemsTyped
    <2>. QED
      BY <2>1, <2>2, <2>3
  <1>3. ItemsTyped' /\ TriesLeft' /\ \A j \in Items : NoNewClaim(item[j], item'[j])
    BY <1>1, <1>2, OneItem
  <1>4. UNCHANGED <<product, script, plan, portal, edits, pipeline>>
    BY DEF Refresh, ClaimAges, RetryFallsDue
  <1>5. ProductsTyped' /\ PlansTyped' /\ RestTyped'
    BY <1>4 DEF IInv, ProductsTyped, PlansTyped, RestTyped
  <1>. QED
    BY <1>3, <1>4, <1>5, OthersKeep

(* The cooldown of the portal ends; a plan of products is made or dropped. *)
LEMMA PlansCome ==
  ASSUME IInv, CooldownEnds \/ \E m \in Makers : PlanCreation(m) \/ DropPlan(m)
  PROVE  IInv'
  <1>1. UNCHANGED <<item, product, script, edits, pipeline>>
    BY DEF CooldownEnds, PlanCreation, DropPlan
  <1>2. PlansTyped'
    <2>1. CASE UNCHANGED plan
      BY <2>1 DEF IInv, PlansTyped
    <2>2. ASSUME NEW m \in Makers, NEW S \in SUBSET Items,
                 plan' = [plan EXCEPT ![m] = [items |-> S, current |-> TRUE]]
          PROVE  PlansTyped'
      <3>1. [items |-> S, current |-> TRUE] \in PlanRow
        BY DEF PlanRow
      <3>. QED
        BY <2>2, <3>1 DEF IInv, PlansTyped
    <2>3. ASSUME NEW m \in Makers, PlanCreation(m)
          PROVE  PlansTyped'
      BY <2>2, <2>3 DEF PlanCreation
    <2>4. ASSUME NEW m \in Makers, DropPlan(m)
          PROVE  PlansTyped'
      <3>1. {} \in SUBSET Items
        OBVIOUS
      <3>. QED
        BY <2>2, <2>4, <3>1 DEF DropPlan
    <2>. QED
      BY <2>1, <2>3, <2>4 DEF CooldownEnds
  <1>3. RestTyped'
    BY <1>1 DEF IInv, RestTyped, CooldownEnds, PlanCreation, DropPlan
  <1>4. ProductsTyped' /\ ItemsTyped' /\ TriesLeft' /\ \A j \in Items : NoNewClaim(item[j], item'[j])
    BY <1>1, NoItem DEF IInv, ProductsTyped
  <1>. QED
    BY <1>1, <1>2, <1>3, <1>4, OthersKeep

(* Products are made of a plan.                                            *)
LEMMA ApplyCreationKeeps == ASSUME IInv, NEW m \in Makers, ApplyCreation(m) PROVE IInv'
  <1>. DEFINE S == plan[m].items
  <1>1. ProductsTyped'
    BY DraftProduct DEF ApplyCreation, IInv, ProductsTyped
  <1>2. ASSUME NEW i \in Items
        PROVE  item'[i] \in ItemRow /\ NoNewClaim(item[i], item'[i]) /\ TryLeft(item'[i])
    <2>. DEFINE a == IF product'[i].active THEN "active" ELSE "archived"
                c == IF product[i].exists THEN "not_authorized" ELSE "created"
                between == [item[i] EXCEPT !.match = a, !.creation = c]
    <2>1. item[i] \in ItemRow /\ TryLeft(item[i]) /\ NoNewClaim(item[i], item[i])
      BY DEF IInv, ItemsTyped, TriesLeft, NoNewClaim
    <2>2. item'[i] = item[i] \/ item'[i] = Refreshed(between, product'[i])
      BY DEF ApplyCreation
    <2>3. /\ a \in {"missing", "active", "archived"}
          /\ c \in {"not_authorized", "review_required", "approved", "rejected", "created"}
      OBVIOUS
    <2>. HIDE DEF a, c
    <2>4. between \in ItemRow /\ NoNewClaim(item[i], between)
      BY <2>1, <2>3, RewrittenRow
    <2>. HIDE DEF between
    <2>. QED
      BY <2>1, <2>2, <2>4, RefreshedAfter
  <1>3. ItemsTyped' /\ TriesLeft'
    BY <1>2 DEF ApplyCreation, ItemsTyped, TriesLeft
  <1>4. PlansTyped'
    <2>1. [items |-> {}, current |-> TRUE] \in PlanRow
      BY DEF PlanRow
    <2>2. plan' = [Voided(S) EXCEPT ![m] = [items |-> {}, current |-> TRUE]]
      BY DEF ApplyCreation
    <2>. QED
      BY <2>1, <2>2, VoidedPlans DEF IInv, PlansTyped
  <1>5. UNCHANGED <<script, portal, edits, pipeline>> /\ RestTyped'
    BY DEF ApplyCreation, IInv, RestTyped
  <1>. QED
    BY <1>1, <1>2, <1>3, <1>4, <1>5, OthersKeep

(* An item is reviewed, rematched, or taken back by the rollback of its    *)
(* creation.                                                               *)
LEMMA ItemRewritten ==
  ASSUME IInv, NEW i \in Items, Review(i) \/ Observe(i) \/ RollbackCreation(i)
  PROVE  IInv'
  <1>1. item[i] \in ItemRow /\ TryLeft(item[i]) /\ ItemsTyped /\ TriesLeft
    BY DEF IInv, ItemsTyped, TriesLeft
  <1>2. PICK m \in {"missing", "active", "archived"},
             c \in {"not_authorized", "review_required", "approved", "rejected", "created"} :
          LET between == [item[i] EXCEPT !.match = m, !.creation = c]
          IN  \/ item' = [item EXCEPT ![i] = between]
              \/ item' = [item EXCEPT ![i] = Refreshed(between, product'[i])]
    <2>1. CASE Review(i)
      <3>1. PICK c \in {"not_authorized", "review_required", "approved", "rejected", "created"} :
              item' = [item EXCEPT ![i].creation = c]
        BY <2>1 DEF Review
      <3>2. item' = [item EXCEPT ![i] = [item[i] EXCEPT !.match = item[i].match, !.creation = c]]
        BY <1>1, <3>1 DEF ItemRow, ItemsTyped
      <3>. QED
        BY <1>1, <3>2 DEF ItemRow
    <2>2. CASE Observe(i)
      <3>. DEFINE m == IF ~product[i].exists THEN "missing"
                       ELSE IF product[i].active THEN "active" ELSE "archived"
                  c == IF m # "missing" /\ item[i].creation = "created" THEN "created"
                       ELSE IF m = "missing" THEN "review_required" ELSE "not_authorized"
      <3>1. item' = [item EXCEPT ![i] = [item[i] EXCEPT !.match = m, !.creation = c]]
        BY <1>1, <2>2 DEF Observe, ItemsTyped
      <3>2. /\ m \in {"missing", "active", "archived"}
            /\ c \in {"not_authorized", "review_required", "approved", "rejected", "created"}
        OBVIOUS
      <3>. HIDE DEF m, c
      <3>. QED
        BY <3>1, <3>2
    <2>3. CASE RollbackCreation(i)
      BY <2>3 DEF RollbackCreation
    <2>. QED
      BY <2>1, <2>2, <2>3
  <1>. DEFINE between == [item[i] EXCEPT !.match = m, !.creation = c]
  <1>3. between \in ItemRow /\ NoNewClaim(item[i], between) /\ TryLeft(between)
    BY <1>1, RewrittenRow
  <1>4. item' = [item EXCEPT ![i] = between] \/ item' = [item EXCEPT ![i] = Refreshed(between, product'[i])]
    BY <1>2
  <1>. HIDE DEF between
  <1>5. PICK new \in ItemRow :
          item' = [item EXCEPT ![i] = new] /\ NoNewClaim(item[i], new) /\ TryLeft(new)
    BY <1>3, <1>4, RefreshedAfter
  <1>6. ItemsTyped' /\ TriesLeft' /\ \A j \in Items : NoNewClaim(item[j], item'[j])
    BY <1>1, <1>5, OneItem
  <1>7. ProductsTyped'
    BY DEF Review, Observe, RollbackCreation, IInv, ProductsTyped, ProductRow
  <1>8. PlansTyped'
    BY VoidedPlans DEF Review, Observe, RollbackCreation, IInv, PlansTyped
  <1>9. UNCHANGED script /\ RestTyped'
    BY CostConstants DEF Review, Observe, RollbackCreation, IInv, RestTyped
  <1>. QED
    BY <1>6, <1>7, <1>8, <1>9, OthersKeep

(* People make, reprice and archive products.                              *)
LEMMA PersonKeeps == ASSUME IInv, NEW i \in Items, Person(i) PROVE IInv'
  <1>1. ProductsTyped'
    <2>1. product[i] \in ProductRow /\ ProductsTyped
      BY DEF IInv, ProductsTyped
    <2>2. CASE PersonCreates(i)
      <3>1. [Draft EXCEPT !.supplier = NoLine, !.touched = TRUE] \in ProductRow
        BY DraftProduct DEF ProductRow
      <3>. QED
        BY <2>1, <2>2, <3>1 DEF PersonCreates, ProductsTyped
    <2>3. CASE PersonEdits(i)
      <3>1. ASSUME NEW new \in ProductRow, product' = [product EXCEPT ![i] = new]
            PROVE  ProductsTyped'
        BY <2>1, <3>1 DEF ProductsTyped
      <3>2. CASE product' = [product EXCEPT ![i].list = Retail, ![i].basis = "retail_evidence",
                                            ![i].touched = TRUE]
        <4>1. [product[i] EXCEPT !.list = Retail, !.basis = "retail_evidence", !.touched = TRUE]
                \in ProductRow
          BY <2>1, PricesAreListed DEF ProductRow
        <4>. QED
          BY <2>1, <3>1, <3>2, <4>1 DEF ProductsTyped
      <3>3. ASSUME NEW p \in Prices,
                   \/ product' = [product EXCEPT ![i].supplier = p, ![i].touched = TRUE]
                   \/ product' = [product EXCEPT ![i].standard = p, ![i].touched = TRUE]
            PROVE  ProductsTyped'
        <4>1. /\ [product[i] EXCEPT !.supplier = p, !.touched = TRUE] \in ProductRow
              /\ [product[i] EXCEPT !.standard = p, !.touched = TRUE] \in ProductRow
          BY <2>1 DEF ProductRow
        <4>. QED
          BY <2>1, <3>1, <3>3, <4>1 DEF ProductsTyped
      <3>4. CASE product' = [product EXCEPT ![i].active = ~@, ![i].touched = TRUE]
        <4>1. [product[i] EXCEPT !.active = ~@, !.touched = TRUE] \in ProductRow
          BY <2>1 DEF ProductRow
        <4>. QED
          BY <2>1, <3>1, <3>4, <4>1 DEF ProductsTyped
      <3>. QED
        BY <2>3, <3>2, <3>3, <3>4 DEF PersonEdits
    <2>. QED
      BY <2>2, <2>3 DEF Person
  <1>2. UNCHANGED <<item, script, plan>> /\ RestTyped' /\ PlansTyped'
    BY CostConstants DEF Person, IInv, RestTyped, PlansTyped
  <1>3. ItemsTyped' /\ TriesLeft' /\ \A j \in Items : NoNewClaim(item[j], item'[j])
    BY <1>2, NoItem DEF IInv
  <1>. QED
    BY <1>1, <1>2, <1>3, OthersKeep

(* A batch is claimed: the script knows the attempts it has made, and what *)
(* another script knew of these items it no longer holds.                  *)
LEMMA ClaimBatchKeeps == ASSUME IInv, NEW s \in Scripts, ClaimBatch(s) PROVE IInv'
  <1>1. PICK S \in SUBSET {i \in Items : Claimable(i)} :
          /\ item' = [i \in Items |->
                IF i \in S THEN [item[i] EXCEPT !.recovery = "claimed", !.worker = s,
                                                !.attempts = @ + 1]
                ELSE item[i]]
          /\ script' = [script EXCEPT ![s] =
                [Idle EXCEPT !.pc = "fetching", !.todo = S,
                    !.before = [i \in Items |->
                        IF i \in S THEN [attempt |-> item'[i].attempts,
                                         supplier |-> product[i].supplier,
                                         standard |-> product[i].standard,
                                         list |-> product[i].list,
                                         basis |-> product[i].basis,
                                         titled |-> item[i].titled]
                        ELSE Unclaimed]]]
    BY DEF ClaimBatch
  <1>2. ASSUME NEW i \in Items
        PROVE  /\ item'[i] \in ItemRow /\ TryLeft(item'[i])
               /\ i \in S => item'[i].worker = s
               /\ i \notin S => item'[i] = item[i]
    <2>1. item[i] \in ItemRow /\ TryLeft(item[i])
      BY DEF IInv, ItemsTyped, TriesLeft
    <2>2. CASE i \in S
      <3>. DEFINE n == item[i].attempts + 1
      <3>1. n \in 0..MaxAttempts
        BY <2>1, <2>2, CostConstants DEF Claimable, TryLeft, ItemRow
      <3>2. item'[i] = [item[i] EXCEPT !.recovery = "claimed", !.worker = s, !.attempts = n]
        BY <1>1, <2>2
      <3>. HIDE DEF n
      <3>. QED
        BY <2>1, <2>2, <3>1, <3>2 DEF ItemRow, TryLeft
    <2>3. CASE i \notin S
      BY <1>1, <2>1, <2>3
    <2>. QED
      BY <2>2, <2>3
  <1>3. ItemsTyped' /\ TriesLeft'
    BY <1>1, <1>2 DEF ItemsTyped, TriesLeft
  <1>. DEFINE row(i) == IF i \in S THEN [attempt |-> item'[i].attempts,
                                         supplier |-> product[i].supplier,
                                         standard |-> product[i].standard,
                                         list |-> product[i].list,
                                         basis |-> product[i].basis,
                                         titled |-> item[i].titled]
                        ELSE Unclaimed
              before == [i \in Items |-> row(i)]
              x == [Idle EXCEPT !.pc = "fetching", !.todo = S, !.before = before]
  <1>4. ASSUME NEW i \in Items
        PROVE  row(i) \in ClaimRow /\ (i \in S => row(i).attempt = item'[i].attempts)
    <2>1. item'[i] \in ItemRow /\ item[i] \in ItemRow /\ product[i] \in ProductRow
      BY <1>2 DEF IInv, ItemsTyped, ProductsTyped
    <2>2. CASE i \in S
      BY <2>1, <2>2 DEF ClaimRow, ItemRow, ProductRow, Suppliers
    <2>3. CASE i \notin S
      BY <2>3, PricesAreListed DEF Unclaimed, ClaimRow, Suppliers
    <2>. QED
      BY <2>2, <2>3
  <1>. HIDE DEF row
  <1>5. before \in [Items -> ClaimRow] /\ \A i \in Items : before[i] = row(i)
    BY <1>4
  <1>6. script' = [script EXCEPT ![s] = x]
    BY <1>1 DEF row
  <1>. HIDE DEF before
  <1>7. /\ x \in ScriptRow /\ x.pc = "fetching" /\ x.todo = S /\ x.before = before
        /\ \A i \in Items : x.price[i] = 0
    <2>1. x.price = Idle.price /\ Idle.price = [i \in Items |-> 0]
      BY IdleScript DEF ScriptRow, Idle
    <2>2. x \in ScriptRow /\ x.pc = "fetching" /\ x.todo = S /\ x.before = before
      BY IdleScript, <1>5 DEF ScriptRow
    <2>. QED
      BY <2>1, <2>2
  <1>. HIDE DEF x
  <1>8. ScriptsTyped' /\ script'[s] = x /\ \A t \in Scripts \ {s} : script'[t] = script[t]
    BY <1>6, <1>7 DEF IInv, ScriptsTyped
  <1>9. ScriptsKnow'
    <2>1. SameClaim(x, s, item') /\ Stood(x)
      BY <1>4, <1>5, <1>7 DEF SameClaim, Stood
    <2>2. ASSUME NEW t \in Scripts \ {s}
          PROVE  SameClaim(script[t], t, item') /\ Stood(script[t])
      BY <1>2 DEF IInv, ScriptsKnow, SameClaim, Holds
    <2>. QED
      BY <1>8, <2>1, <2>2 DEF ScriptsKnow
  <1>10. ProductsTyped' /\ PlansTyped' /\ RestTyped'
    BY DEF ClaimBatch, IInv, ProductsTyped, PlansTyped, RestTyped
  <1>. QED
    BY <1>3, <1>8, <1>9, <1>10 DEF IInv

(* A script that gives up, with the items it releases.                     *)
LEMMA ScriptEnds ==
  ASSUME IInv, NEW s \in Scripts, script' = [script EXCEPT ![s] = Idle],
         ItemsTyped', ProductsTyped', RestTyped', TriesLeft', UNCHANGED plan,
         \A i \in Items : NoNewClaim(item[i], item'[i])
  PROVE  IInv'
  BY ScriptMoves, IdleScript

(* The portal refuses, the process ends, or what was accepted is refused.  *)
LEMMA GivesUp ==
  ASSUME IInv, NEW s \in Scripts,
         PortalRefuses(s) \/ Crash(s) \/ ApplyRefused(s) \/ StageFails(s)
  PROVE  IInv'
  <1>1. script' = [script EXCEPT ![s] = Idle] /\ UNCHANGED <<product, plan>>
    BY DEF PortalRefuses, Crash, ApplyRefused, StageFails
  <1>2. ItemsTyped' /\ TriesLeft' /\ \A i \in Items : NoNewClaim(item[i], item'[i])
    <2>1. CASE UNCHANGED item
      BY <2>1, NoItem DEF IInv
    <2>2. CASE \E S, outcome : item' = Released(s, S, outcome)
      BY <2>2, ReleasedItems DEF IInv
    <2>. QED
      BY <2>1, <2>2 DEF PortalRefuses, Crash, ApplyRefused, StageFails
  <1>3. ProductsTyped' /\ RestTyped'
    BY DEF PortalRefuses, Crash, ApplyRefused, StageFails, IInv, ProductsTyped, RestTyped
  <1>. QED
    BY <1>1, <1>2, <1>3, ScriptEnds

(* A script that goes on to another stage with what it knows.              *)
LEMMA ScriptGoesOn ==
  ASSUME IInv, NEW s \in Scripts,
         NEW pc \in {"fetching", "applying", "staging", "verifying", "rolling_back"},
         script' = [script EXCEPT ![s].pc = pc],
         pc \in {"verifying", "rolling_back"} => script[s].pc \in {"verifying", "rolling_back"},
         UNCHANGED <<item, product, plan, portal, edits, pipeline>>
  PROVE  IInv'
  <1>. DEFINE x == [script[s] EXCEPT !.pc = pc]
  <1>1. script[s] \in ScriptRow /\ Stood(script[s])
    BY DEF IInv, ScriptsTyped, ScriptsKnow
  <1>2. /\ x \in ScriptRow /\ x.pc = pc /\ x.todo = script[s].todo /\ x.price = script[s].price
        /\ x.before = script[s].before /\ x.was = script[s].was
    BY <1>1 DEF ScriptRow
  <1>3. script' = [script EXCEPT ![s] = x]
    BY DEF IInv, ScriptsTyped
  <1>. HIDE DEF x
  <1>4. ItemsTyped' /\ TriesLeft' /\ \A i \in Items : NoNewClaim(item[i], item'[i])
    BY NoItem DEF IInv
  <1>5. SameClaim(x, s, item')
    BY <1>2, <1>4, StillSameClaim
  <1>6. Stood(x)
    BY <1>1, <1>2 DEF Stood
  <1>7. ProductsTyped' /\ RestTyped'
    BY DEF IInv, ProductsTyped, RestTyped
  <1>. QED
    BY <1>2, <1>3, <1>4, <1>5, <1>6, <1>7, ScriptMoves

(* The batch has been read, or the rows have been read back.               *)
LEMMA StageChanges ==
  ASSUME IInv, NEW s \in Scripts, FetchEnds(s) \/ Verify(s)
  PROVE  IInv'
  <1>1. UNCHANGED <<item, product, plan, portal, edits, pipeline>>
    BY DEF FetchEnds, Verify
  <1>2. CASE script' = [script EXCEPT ![s] = Idle]
    <2>1. ItemsTyped' /\ TriesLeft' /\ \A i \in Items : NoNewClaim(item[i], item'[i])
      BY <1>1, NoItem DEF IInv
    <2>2. ProductsTyped' /\ RestTyped'
      BY <1>1 DEF IInv, ProductsTyped, RestTyped
    <2>. QED
      BY <1>1, <1>2, <2>1, <2>2, ScriptEnds
  <1>3. CASE script' = [script EXCEPT ![s].pc = pipeline]
    <2>1. pipeline \in {"applying", "staging"}
      BY DEF IInv, RestTyped
    <2>. QED
      BY <1>1, <1>3, <2>1, ScriptGoesOn
  <1>4. CASE script[s].pc = "verifying" /\ script' = [script EXCEPT ![s].pc = "rolling_back"]
    BY <1>1, <1>4, ScriptGoesOn
  <1>. QED
    BY <1>2, <1>3, <1>4 DEF FetchEnds, Verify

(* A price is read, or an item with a price is staged: the script forgets  *)
(* a page or a price.                                                      *)
LEMMA FetchAcceptsKeeps ==
  ASSUME IInv, NEW s \in Scripts, NEW i \in Items, FetchAccepts(s, i)
  PROVE  IInv'
  <1>1. PICK p \in Prices : script' = [script EXCEPT ![s].price[i] = p, ![s].todo = @ \ {i}]
    BY DEF FetchAccepts
  <1>. DEFINE price == [script[s].price EXCEPT ![i] = p]
              todo == script[s].todo \ {i}
              x == [script[s] EXCEPT !.price = price, !.todo = todo]
  <1>2. script[s] \in ScriptRow /\ script[s].pc = "fetching" /\ i \in script[s].todo
    BY DEF IInv, ScriptsTyped, FetchAccepts
  <1>3. /\ price \in [Items -> {0} \cup Prices] /\ todo \in SUBSET Items
        /\ todo \subseteq script[s].todo
        /\ \A j \in Items : price[j] # 0 => script[s].price[j] # 0 \/ j \in script[s].todo
    BY <1>2 DEF ScriptRow
  <1>4. script' = [script EXCEPT ![s] = x]
    BY <1>1 DEF IInv, ScriptsTyped
  <1>. HIDE DEF price, todo
  <1>5. /\ x \in ScriptRow /\ x.pc = "fetching" /\ x.todo = todo /\ x.price = price
        /\ x.before = script[s].before
    BY <1>2, <1>3 DEF ScriptRow
  <1>. HIDE DEF x
  <1>6. /\ ItemsTyped' /\ TriesLeft' /\ \A j \in Items : NoNewClaim(item[j], item'[j])
        /\ ProductsTyped' /\ RestTyped' /\ UNCHANGED plan
    BY NoItem DEF FetchAccepts, IInv, ProductsTyped, RestTyped
  <1>7. SameClaim(x, s, item')
    BY <1>3, <1>5, <1>6, StillSameClaim
  <1>8. Stood(x)
    BY <1>5 DEF Stood
  <1>. QED
    BY <1>4, <1>5, <1>6, <1>7, <1>8, ScriptMoves

(* A page cannot be read: the claim ends, or is found to have ended.       *)
LEMMA FetchFailsKeeps ==
  ASSUME IInv, NEW s \in Scripts, NEW i \in Items, FetchFails(s, i)
  PROVE  IInv'
  <1>1. /\ script[s] \in ScriptRow /\ script[s].pc = "fetching"
        /\ ProductsTyped' /\ RestTyped' /\ UNCHANGED plan
    BY DEF FetchFails, IInv, ScriptsTyped, ProductsTyped, RestTyped
  <1>2. CASE script' = [script EXCEPT ![s] = Idle] /\ UNCHANGED item
    BY <1>1, <1>2, NoItem, ScriptEnds DEF IInv
  <1>3. ASSUME NEW outcome, item' = [item EXCEPT ![i] = Recorded(item[i], outcome)],
               script' = [script EXCEPT ![s].todo = @ \ {i}]
        PROVE  IInv'
    <2>. DEFINE todo == script[s].todo \ {i}
                x == [script[s] EXCEPT !.todo = todo]
    <2>1. todo \in SUBSET Items /\ todo \subseteq script[s].todo
      BY <1>1 DEF ScriptRow
    <2>2. script' = [script EXCEPT ![s] = x]
      BY <1>3 DEF IInv, ScriptsTyped
    <2>. HIDE DEF todo
    <2>3. /\ x \in ScriptRow /\ x.pc = "fetching" /\ x.todo = todo /\ x.price = script[s].price
          /\ x.before = script[s].before
      BY <1>1, <2>1 DEF ScriptRow
    <2>. HIDE DEF x
    <2>4. item[i] \in ItemRow /\ ItemsTyped /\ TriesLeft
      BY DEF IInv, ItemsTyped
    <2>5. ItemsTyped' /\ TriesLeft' /\ \A j \in Items : NoNewClaim(item[j], item'[j])
      BY <1>3, <2>4, RecordedRow, OneItem
    <2>6. SameClaim(x, s, item')
      BY <2>1, <2>3, <2>5, StillSameClaim
    <2>7. Stood(x)
      BY <2>3 DEF Stood
    <2>. QED
      BY <1>1, <2>2, <2>3, <2>5, <2>6, <2>7, ScriptMoves
  <1>. QED
    BY <1>2, <1>3 DEF FetchFails

(* An item is staged: its claim ends, and the script forgets its price.    *)
LEMMA StageKeeps == ASSUME IInv, NEW s \in Scripts, NEW i \in Items, Stage(s, i) PROVE IInv'
  <1>1. /\ script[s] \in ScriptRow /\ script[s].pc = "staging"
        /\ item[i] \in ItemRow /\ ItemsTyped /\ TriesLeft
        /\ ProductsTyped' /\ RestTyped' /\ UNCHANGED plan
    BY DEF Stage, IInv, ScriptsTyped, ProductsTyped, RestTyped, ItemsTyped
  <1>. DEFINE new == [item[i] EXCEPT !.recovery = "resolved", !.worker = NoOne, !.cooling = FALSE]
  <1>2. new \in ItemRow /\ NoNewClaim(item[i], new) /\ TryLeft(new)
    BY <1>1 DEF ItemRow, NoNewClaim, TryLeft
  <1>3. item' = [item EXCEPT ![i] = new]
    BY <1>1 DEF Stage, ItemsTyped
  <1>. HIDE DEF new
  <1>4. ItemsTyped' /\ TriesLeft' /\ \A j \in Items : NoNewClaim(item[j], item'[j])
    BY <1>1, <1>2, <1>3, OneItem
  <1>5. CASE script' = [script EXCEPT ![s] = Idle]
    BY <1>1, <1>4, <1>5, ScriptEnds
  <1>6. CASE script' = [script EXCEPT ![s] = [script[s] EXCEPT !.price[i] = 0]]
    <2>. DEFINE price == [script[s].price EXCEPT ![i] = 0]
                x == [script[s] EXCEPT !.price = price]
    <2>1. /\ price \in [Items -> {0} \cup Prices]
          /\ \A j \in Items : price[j] # 0 => script[s].price[j] # 0
      BY <1>1 DEF ScriptRow
    <2>2. script' = [script EXCEPT ![s] = x]
      BY <1>6
    <2>. HIDE DEF price
    <2>3. /\ x \in ScriptRow /\ x.pc = "staging" /\ x.todo = script[s].todo /\ x.price = price
          /\ x.before = script[s].before
      BY <1>1, <2>1 DEF ScriptRow
    <2>. HIDE DEF x
    <2>4. SameClaim(x, s, item')
      BY <1>4, <2>1, <2>3, StillSameClaim
    <2>5. Stood(x)
      BY <2>3 DEF Stood
    <2>. QED
      BY <1>1, <1>4, <2>2, <2>3, <2>4, <2>5, ScriptMoves
  <1>. QED
    BY <1>5, <1>6 DEF Stage

(* A price that is applied, and a product that gets back what it had.      *)
LEMMA PricedProduct ==
  ASSUME NEW pr \in ProductRow, NEW p \in Prices
  PROVE  Priced(pr, p) \in ProductRow
  <1>1. Markup(p) \in Lists
    BY PricesAreListed
  <1>2. [pr EXCEPT !.supplier = p, !.standard = p, !.touched = TRUE] \in ProductRow
    BY DEF ProductRow
  <1>3. \A costed \in ProductRow :
          [costed EXCEPT !.list = Markup(p), !.basis = "cost_plus"] \in ProductRow
    BY <1>1 DEF ProductRow
  <1>. QED
    BY <1>2, <1>3 DEF Priced

(* The recovered prices are applied, each to what stood when it was        *)
(* claimed.                                                                *)
LEMMA ApplyKeeps == ASSUME IInv, NEW s \in Scripts, Apply(s) PROVE IInv'
  <1>. DEFINE S == Accepted(s)
  <1>1. /\ script[s] \in ScriptRow /\ S \subseteq Items
        /\ \A i \in S : /\ script[s].price[i] \in Prices
                        /\ product[i].supplier = script[s].before[i].supplier
        /\ \A i \in Items \ S : script[s].price[i] = 0
    BY DEF Apply, Applicable, Accepted, IInv, ScriptsTyped, ScriptRow
  <1>2. /\ product' = [i \in Items |-> IF i \in S THEN Priced(product[i], script[s].price[i])
                                       ELSE product[i]]
        /\ UNCHANGED <<plan, portal, edits, pipeline>>
    BY DEF Apply
  <1>3. ProductsTyped' /\ RestTyped'
    BY <1>1, <1>2, PricedProduct DEF IInv, ProductsTyped, RestTyped
  <1>4. ASSUME NEW i \in Items
        PROVE  item'[i] \in ItemRow /\ NoNewClaim(item[i], item'[i]) /\ TryLeft(item'[i])
    <2>. DEFINE between == [item[i] EXCEPT !.titled = TRUE, !.recovery = "resolved",
                              !.cooling = FALSE, !.worker = NoOne, !.evidence = script[s].price[i]]
    <2>1. item[i] \in ItemRow /\ TryLeft(item[i]) /\ NoNewClaim(item[i], item[i])
      BY DEF IInv, ItemsTyped, TriesLeft, NoNewClaim
    <2>2. CASE i \in S
      <3>1. item'[i] = Refreshed(between, product'[i])
        BY <2>2 DEF Apply
      <3>2. between \in ItemRow /\ NoNewClaim(item[i], between)
        BY <1>1, <2>1, <2>2 DEF ItemRow, NoNewClaim
      <3>. HIDE DEF between
      <3>. QED
        BY <3>1, <3>2, RefreshedAfter
    <2>3. CASE i \notin S
      BY <2>1, <2>3 DEF Apply
    <2>. QED
      BY <2>2, <2>3
  <1>5. ItemsTyped' /\ TriesLeft' /\ \A i \in Items : NoNewClaim(item[i], item'[i])
    BY <1>4 DEF Apply, ItemsTyped, TriesLeft
  <1>6. CASE script' = [script EXCEPT ![s] = Idle]
    BY <1>2, <1>3, <1>5, <1>6, ScriptEnds
  <1>. DEFINE was == [i \in Items |-> IF i \in S THEN product[i].supplier ELSE 0]
              after == [i \in Items |-> IF i \in S THEN product'[i] ELSE Absent]
              x == [script[s] EXCEPT !.pc = "verifying", !.was = was, !.after = after]
  <1>7. CASE script' = [script EXCEPT ![s].pc = "verifying", ![s].was = was, ![s].after = after]
    <2>1. was \in [Items -> Suppliers]
      BY DEF IInv, ProductsTyped, ProductRow, Suppliers
    <2>2. after \in [Items -> ProductRow]
      BY <1>3, DraftProduct DEF ProductsTyped
    <2>3. \A i \in S : was[i] = script[s].before[i].supplier
      BY <1>1
    <2>4. script' = [script EXCEPT ![s] = x]
      BY <1>7 DEF IInv, ScriptsTyped
    <2>. HIDE DEF was, after
    <2>5. /\ x \in ScriptRow /\ x.todo = script[s].todo /\ x.price = script[s].price
          /\ x.before = script[s].before /\ x.was = was
      BY <1>1, <2>1, <2>2 DEF ScriptRow
    <2>. HIDE DEF x
    <2>6. SameClaim(x, s, item')
      BY <1>5, <2>5, StillSameClaim
    <2>7. Stood(x)
      BY <1>1, <2>3, <2>5 DEF Stood
    <2>. QED
      BY <1>2, <1>3, <1>5, <2>4, <2>5, <2>6, <2>7, ScriptMoves
  <1>. QED
    BY <1>6, <1>7 DEF Apply

(* The prices are taken back.                                              *)
LEMMA RollBackKeeps == ASSUME IInv, NEW s \in Scripts, RollBack(s) PROVE IInv'
  <1>. DEFINE S == Accepted(s)
              b(i) == script[s].before[i]
  <1>1. script[s] \in ScriptRow /\ \A i \in Items : b(i) \in ClaimRow
    BY DEF IInv, ScriptsTyped, ScriptRow
  <1>. HIDE DEF b
  <1>2. ASSUME NEW i \in Items
        PROVE  product'[i] \in ProductRow
    <2>1. product[i] \in ProductRow
      BY DEF IInv, ProductsTyped
    <2>2. \/ product'[i] = product[i]
          \/ product'[i] = [product[i] EXCEPT !.supplier = b(i).supplier, !.standard = b(i).standard,
                                              !.list = b(i).list, !.basis = b(i).basis,
                                              !.touched = TRUE]
      BY DEF RollBack, b
    <2>. QED
      BY <1>1, <2>1, <2>2 DEF ProductRow, ClaimRow, Suppliers
  <1>3. ASSUME NEW i \in Items
        PROVE  item'[i] \in ItemRow /\ NoNewClaim(item[i], item'[i]) /\ TryLeft(item'[i])
    <2>. DEFINE between == Returned(item[i], b(i))
    <2>1. item[i] \in ItemRow /\ TryLeft(item[i]) /\ NoNewClaim(item[i], item[i])
      BY DEF IInv, ItemsTyped, TriesLeft, NoNewClaim
    <2>2. item'[i] = item[i] \/ item'[i] = Refreshed(between, product'[i])
      BY DEF RollBack, b
    <2>3. between \in ItemRow /\ NoNewClaim(item[i], between)
      BY <1>1, <2>1 DEF Returned, ItemRow, ClaimRow, NoNewClaim
    <2>. HIDE DEF between
    <2>. QED
      BY <2>1, <2>2, <2>3, RefreshedAfter
  <1>4. ItemsTyped' /\ TriesLeft' /\ \A i \in Items : NoNewClaim(item[i], item'[i])
    BY <1>3 DEF RollBack, ItemsTyped, TriesLeft
  <1>5. /\ ProductsTyped' /\ RestTyped' /\ UNCHANGED plan
        /\ script' = [script EXCEPT ![s] = Idle]
    BY <1>2 DEF RollBack, ProductsTyped, IInv, RestTyped
  <1>. QED
    BY <1>4, <1>5, ScriptEnds

(* Every step keeps the invariant.                                         *)
LEMMA IInvKept == IInv /\ [Next]_vars => IInv'
  <1>. SUFFICES ASSUME IInv, [Next]_vars PROVE IInv'
    OBVIOUS
  <1>1. ASSUME NEW s \in Scripts, Recovery(s)
        PROVE  IInv'
    BY <1>1, ClaimBatchKeeps, GivesUp, StageChanges, FetchAcceptsKeeps, FetchFailsKeeps,
       StageKeeps, ApplyKeeps, RollBackKeeps DEF Recovery
  <1>2. ASSUME NEW m \in Makers, PlanCreation(m) \/ ApplyCreation(m) \/ DropPlan(m)
        PROVE  IInv'
    BY <1>2, PlansCome, ApplyCreationKeeps
  <1>3. ASSUME NEW i \in Items,
               \/ Refresh(i) \/ ClaimAges(i) \/ RetryFallsDue(i)
               \/ RollbackCreation(i) \/ Review(i) \/ Observe(i) \/ Person(i)
        PROVE  IInv'
    BY <1>3, ItemAges, ItemRewritten, PersonKeeps
  <1>4. CASE CooldownEnds
    BY <1>4, PlansCome
  <1>5. CASE UNCHANGED vars
    BY <1>5 DEF vars, IInv, ItemsTyped, ProductsTyped, ScriptsTyped, PlansTyped, RestTyped,
       TriesLeft, ScriptsKnow, SameClaim
  <1>. QED
    BY <1>1, <1>2, <1>3, <1>4, <1>5 DEF Next

(* The invariant holds in every reachable state.                           *)
LEMMA Invariant == Spec => []IInv
  BY IInvInitially, IInvKept, PTL DEF Spec

-----------------------------------------------------------------------------
(* The theorems.                                                           *)

(* The rows stay well formed: whatever claims lapse, are lost with their   *)
(* script or are refused by the portal, claim_cost_recovery_batch claims   *)
(* no item more than MAX_COST_RECOVERY_ATTEMPTS times.                     *)
THEOREM TypeCorrect == Spec => []TypeOK
  <1>1. IInv => TypeOK
    BY DEF IInv, ItemsTyped, ProductsTyped, ScriptsTyped, PlansTyped, RestTyped, TypeOK,
       ScriptRow, PlanRow
  <1>. QED
    BY <1>1, Invariant, PTL

(* Which step moves a script: its own, or none.                            *)
LEMMA OwnStep ==
  ASSUME IInv, [Next]_vars, NEW s \in Scripts, script'[s] # script[s]
  PROVE  Recovery(s)
  <1>1. ASSUME NEW t \in Scripts, Recovery(t)
        PROVE  t = s
    <2>1. script \in [Scripts -> ScriptRow]
      BY DEF IInv, ScriptsTyped
    <2>2. CASE t # s
      <3>1. CASE ClaimBatch(t)
        BY <2>1, <2>2, <3>1 DEF ClaimBatch
      <3>2. CASE FetchEnds(t) \/ Verify(t)
        BY <2>1, <2>2, <3>2 DEF FetchEnds, Verify
      <3>3. CASE Apply(t) \/ RollBack(t)
        BY <2>1, <2>2, <3>3 DEF Apply, RollBack
      <3>4. CASE PortalRefuses(t) \/ Crash(t) \/ ApplyRefused(t) \/ StageFails(t)
        BY <2>1, <2>2, <3>4 DEF PortalRefuses, Crash, ApplyRefused, StageFails
      <3>5. CASE \E i \in Items : FetchAccepts(t, i) \/ FetchFails(t, i) \/ Stage(t, i)
        BY <2>1, <2>2, <3>5 DEF FetchAccepts, FetchFails, Stage
      <3>. QED
        BY <1>1, <3>1, <3>2, <3>3, <3>4, <3>5 DEF Recovery
    <2>. QED
      BY <2>2
  <1>2. UNCHANGED script \/ \E t \in Scripts : Recovery(t)
    BY DEF Next, vars, CooldownEnds, PlanCreation, ApplyCreation, DropPlan, Refresh, ClaimAges,
       RetryFallsDue, RollbackCreation, Review, Observe, Person
  <1>. QED
    BY <1>1, <1>2

(* A recovered price is applied only under the claim that it was read for, *)
(* though apply_cost_recovery_plan compares nothing but the worker: one    *)
(* that lost its claim and took the item again reads it again.             *)
THEOREM AppliesItsOwnClaim == Spec => AppliesOwnClaim
  <1>1. ASSUME IInv, [Next]_vars, NEW s \in Scripts, NEW i \in Items,
               script[s].pc = "applying", script'[s] # script[s],
               product'[i].supplier # product[i].supplier
        PROVE  item[i].attempts = script[s].before[i].attempt
    <2>1. Recovery(s)
      BY <1>1, OwnStep
    <2>2. Apply(s)
      BY <1>1, <2>1 DEF Recovery, ClaimBatch, PortalRefuses, Crash, FetchEnds, ApplyRefused,
         Verify, RollBack, StageFails, FetchAccepts, FetchFails, Stage
    <2>3. i \in Accepted(s) /\ Owns(s, i)
      BY <1>1, <2>2 DEF Apply, Applicable
    <2>. QED
      BY <1>1, <2>3 DEF IInv, ScriptsKnow, SameClaim, Accepted, Owns, Holds
  <1>2. IInv /\ [Next]_vars =>
          [\A s \in Scripts, i \in Items :
             script[s].pc = "applying" /\ script'[s] # script[s]
                /\ product'[i].supplier # product[i].supplier
             => item[i].attempts = script[s].before[i].attempt]_vars
    BY <1>1
  <1>. QED
    BY <1>2, Invariant, PTL DEF Spec, AppliesOwnClaim

(* A rollback puts back the supplier price that stood just before the      *)
(* script applied its own: rollback_cost_recovery writes the values of the *)
(* claim, and apply_cost_recovery_plan has compared them with the product. *)
THEOREM RollbackRestores == Spec => RollbackRestoresCost
  <1>1. ASSUME IInv, [Next]_vars, NEW s \in Scripts,
               script[s].pc = "rolling_back", script'[s].pc = "idle", product' # product
        PROVE  \A i \in Accepted(s) : product'[i].supplier = script[s].was[i]
    <2>1. Recovery(s)
      BY <1>1, OwnStep
    <2>2. RollBack(s)
      BY <1>1, <2>1 DEF Recovery, ClaimBatch, PortalRefuses, Crash, FetchEnds, Apply, ApplyRefused,
         Verify, StageFails, FetchAccepts, FetchFails, Stage
    <2>3. ASSUME NEW i \in Accepted(s)
          PROVE  product'[i].supplier = script[s].before[i].supplier
      <3>1. i \in Items /\ product[i] \in ProductRow
        BY <1>1 DEF Accepted, IInv, ProductsTyped
      <3>2. product'[i] = [product[i] EXCEPT
              !.supplier = script[s].before[i].supplier, !.standard = script[s].before[i].standard,
              !.list = script[s].before[i].list, !.basis = script[s].before[i].basis,
              !.touched = TRUE]
        BY <2>2, <3>1 DEF RollBack
      <3>. QED
        BY <3>1, <3>2 DEF ProductRow
    <2>4. \A i \in Accepted(s) : script[s].was[i] = script[s].before[i].supplier
      BY <1>1 DEF IInv, ScriptsKnow, Stood, Accepted
    <2>. QED
      BY <2>3, <2>4
  <1>2. IInv /\ [Next]_vars =>
          [\A s \in Scripts :
             script[s].pc = "rolling_back" /\ script'[s].pc = "idle" /\ product' # product =>
                \A i \in Accepted(s) : product'[i].supplier = script[s].was[i]]_vars
    BY <1>1
  <1>. QED
    BY <1>2, Invariant, PTL DEF Spec, RollbackRestoresCost
=============================================================================
