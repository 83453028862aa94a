---------------------------- MODULE VendorPromotion ----------------------------
(***************************************************************************)
(* From vendor catalog items to products: observations and dealer costs,   *)
(* the media worker, readiness, promotion plans and refreshes by the       *)
(* promotion worker, with staff at work on the same products               *)
(* (vendor_catalog.py, sparex_catalog_media_worker.py,                     *)
(* sparex_catalog_promotion_worker.py, and the publication gate of         *)
(* catalog_agents.py).                                                     *)
(*                                                                         *)
(* A method that takes the Sparex lock or locks its rows is one step, but  *)
(* apply_promotion_plan reads products in the snapshot its transaction had *)
(* before it got the lock.  There are fewer items than a batch holds.      *)
(* Costs stand for themselves and for the sales price computed from them;  *)
(* an image stands for its source and for the content found there.         *)
(***************************************************************************)
EXTENDS Integers, FiniteSets

CONSTANTS
  Items,        (* items of one source; each has a reference of its own     *)
  Images,       (* image sources                                            *)
  NoImage,      (* no image                                                 *)
  OwnImage,     (* an image that staff put on a product                     *)
  Workers,      (* promotion worker processes                               *)
  MaxCost,      (* bound: dealer costs                                      *)
  MaxProducts,  (* bound: products                                          *)
  Edited        (* bound: products that staff edit                          *)

ASSUME ItemsAssumption == Items # {}
ASSUME ImagesAssumption == NoImage \notin Images /\ OwnImage \notin Images \cup {NoImage}
ASSUME BoundsAssumption ==
  MaxCost \in Nat \ {0} /\ MaxProducts \in Nat /\ Edited \subseteq 1..MaxProducts

VARIABLES
  item,      (* the vendor catalog items                                    *)
  product,   (* products of these references                                *)
  media,     (* the batch of the media worker: items and image sources      *)
  worker     (* the promotion workers                                       *)

vars == <<item, product, media, worker>>

-----------------------------------------------------------------------------
Products == 1..MaxProducts
Pictures == Images \cup {NoImage}
OwnPrice == MaxCost + 1

(* An item that is not offered (discontinued) is archived, and searches    *)
(* overlook it.  image is the source of the last observation, shot the     *)
(* source of the stored content; cost is 0 while there is none, or while   *)
(* name, URL, currency or category raises a blocker; flagged says that     *)
(* readiness_blockers_json is not empty.                                   *)
ItemRecord ==
  [state : {"absent", "blocked", "ready", "operational", "unavailable"},
   offered : BOOLEAN, flagged : BOOLEAN,
   image : Pictures, shot : Pictures, verified : BOOLEAN, cost : 0..MaxCost,
   match : {"missing", "matched", "duplicate"}, product : 0..MaxProducts]

(* supplier is the price of the vendor's supplier record (0: none).        *)
(* keepsPrice is the override flag of the price; staff set the one of the  *)
(* image together with an image of their own.                              *)
ProductRecord ==
  [made : {"none", "staff", "pipeline"}, ref : Items, cost : 0..MaxCost,
   supplier : 0..MaxCost, price : 0..OwnPrice, image : Pictures \cup {OwnImage},
   status : {"draft", "published", "quote"}, keepsPrice : BOOLEAN]

(* known are the matched rows read, plan the planned cost of each item (0: *)
(* not planned), stale the planned items written since, seen the products  *)
(* in the snapshot of the transaction.                                     *)
WorkerRecord ==
  [at : {"idle", "planned", "begun", "refresh"}, known : SUBSET Items,
   plan : [Items -> 0..MaxCost], stale : SUBSET Items, seen : SUBSET Products]

NoPlan == [i \in Items |-> 0]
Idle   == [at |-> "idle", known |-> {}, plan |-> NoPlan, stale |-> {}, seen |-> {}]
NoBatch == [i \in Items |-> NoImage]

Unmade(i) ==
  [made |-> "none", ref |-> i, cost |-> 0, supplier |-> 0, price |-> 0, image |-> NoImage,
   status |-> "draft", keepsPrice |-> FALSE]

Init ==
  /\ item = [i \in Items |->
       [state |-> "absent", offered |-> TRUE, image |-> NoImage, shot |-> NoImage, verified |-> FALSE,
        cost |-> 0, flagged |-> FALSE,
        match |-> "missing", product |-> 0]]
  /\ product = [p \in Products |-> Unmade(CHOOSE i \in Items : TRUE)]
  /\ media = NoBatch
  /\ worker = [w \in Workers |-> Idle]

-----------------------------------------------------------------------------
(* Items.                                                                  *)

Known     == {i \in Items : item[i].state # "absent"}
Active    == {i \in Known : item[i].offered}
Made      == {p \in Products : product[p].made # "none"}
Owners(i) == {p \in Made : product[p].ref = i}
NextFree  == Cardinality(Made) + 1

Planned(w) == {i \in Items : worker[w].plan[i] # 0}

(* Every write of an item moves its write_date past the plans made of it.  *)
Written(S) == [w \in Workers |-> [worker[w] EXCEPT !.stale = @ \cup (S \cap Planned(w))]]

Blocked(it) ==
  it.match = "duplicate" \/ it.cost = 0 \/ it.shot = NoImage \/ ~it.verified

(* _recompute_readiness *)
Judged(it) ==
  [it EXCEPT !.flagged = Blocked(it),
             !.state = CASE ~it.offered -> "unavailable"
                         [] it.offered /\ Blocked(it) -> "blocked"
                         [] OTHER -> "ready"]

Matched(it, i) ==
  [it EXCEPT !.match = CASE Owners(i) = {} -> "missing"
                         [] Cardinality(Owners(i)) = 1 -> "matched"
                         [] OTHER -> "duplicate",
             !.product = IF Cardinality(Owners(i)) = 1 THEN CHOOSE p \in Owners(i) : TRUE ELSE 0]

KeepsShot(it, image) == it.verified /\ it.image = image

(* upsert_catalog_items for one record: the same content in the same       *)
(* artifact leaves readiness and match as they are.                        *)
Observed(it, i, image, cost, offered) ==
  LET kept == KeepsShot(it, image)
      full == Judged(Matched([it EXCEPT
        !.image = image, !.cost = cost, !.offered = offered,
        !.verified = kept, !.shot = IF kept THEN @ ELSE NoImage], i))
      same == /\ it.state # "absent"
              /\ it.image = image /\ it.cost = cost /\ it.offered = offered
  IN  {full} \cup (IF same THEN {it} ELSE {})

(* apply_media_batch for one record, with the product of the item.  The    *)
(* image is exact when what Odoo stored is the content that was sent.      *)
Pictured(it, pr, image, exact) ==
  IF it.product # 0 /\ pr.image = OwnImage
    THEN [item |-> [it EXCEPT !.flagged = TRUE], product |-> pr]
    ELSE [item |-> Judged([it EXCEPT !.shot = image, !.verified = exact]),
          product |-> IF it.product = 0 THEN pr ELSE [pr EXCEPT !.image = image]]

(* A manifest or a stage import shows the item.  One that is archived is   *)
(* not found, and cannot be created again: its SKU is unique.              *)
Observe(i) ==
  /\ i \in Known => i \in Active
  /\ \E image \in Pictures, cost \in 0..MaxCost, offered \in BOOLEAN :
       \E new \in Observed(item[i], i, image, cost, offered) :
         item' = [item EXCEPT ![i] = new]
  /\ worker' = Written({i})
  /\ UNCHANGED <<product, media>>

(* apply_dealer_cost_evidence_batch for one item: the cost, and the image  *)
(* of the detail page where it was fetched.                                *)
DealerCost(i) ==
  /\ i \in Active
  /\ \E image \in Pictures, cost \in 0..MaxCost, exact \in BOOLEAN :
       /\ item[i].image # NoImage => image # NoImage
       /\ \E new \in Observed(item[i], i, image, cost, TRUE) :
            \/ item' = [item EXCEPT ![i] = new] /\ UNCHANGED product
            \/ /\ image # NoImage
               /\ LET p == new.product
                      done == Pictured(new, IF p = 0 THEN Unmade(i) ELSE product[p], image, exact)
                  IN  /\ item' = [item EXCEPT ![i] = done.item]
                      /\ product' = IF p = 0 THEN product
                                    ELSE [product EXCEPT ![p] = done.product]
  /\ worker' = Written({i})
  /\ UNCHANGED media

(* action_request_promotion: only the demand of the item changes. *)
RequestPromotion(i) ==
  /\ i \in Known /\ item[i].match # "matched"
  /\ worker' = Written({i})
  /\ UNCHANGED <<item, product, media>>

-----------------------------------------------------------------------------
(* The media worker.                                                       *)

(* It reads the items without a verified image and downloads what it can.  *)
ReadImages ==
  /\ media = NoBatch
  /\ \E S \in SUBSET {i \in Active : ~item[i].verified /\ item[i].image # NoImage} :
       /\ S # {}
       /\ media' = [i \in Items |-> IF i \in S THEN item[i].image ELSE NoImage]
  /\ UNCHANGED <<item, product, worker>>

InBatch == {i \in Items : media[i] # NoImage}

(* Mutated form of SourceUnchanged: an old download is taken for new.      *)
AnySource(i) == TRUE

SourceUnchanged(i) == item[i].image = media[i]

(* apply_media_batch: all of it or, when an item has changed its image,    *)
(* nothing.  A batch whose answer was lost is sent again.                  *)
ApplyImages ==
  \E exact \in SUBSET InBatch :
    LET of(i) == IF item[i].product = 0 THEN Unmade(i) ELSE product[item[i].product]
        done == [i \in InBatch |-> Pictured(item[i], of(i), media[i], i \in exact)]
    IN  /\ InBatch # {} /\ \A i \in InBatch : SourceUnchanged(i)
        /\ item' = [i \in Items |-> IF i \in InBatch THEN done[i].item ELSE item[i]]
        /\ product' = [p \in Products |->
             IF \E i \in InBatch : item[i].product = p
               THEN done[CHOOSE i \in InBatch : item[i].product = p].product ELSE product[p]]
        /\ worker' = Written(InBatch)
        /\ media' \in {media, NoBatch}

(* The batch is refused, or the worker ends without an answer.             *)
DropImages ==
  /\ InBatch # {} /\ media' = NoBatch
  /\ UNCHANGED <<item, product, worker>>

-----------------------------------------------------------------------------
(* The promotion worker.                                                   *)

Ready(i) == i \in Active /\ item[i].state = "ready" /\ ~item[i].flagged

Go(w, at) == worker' = [worker EXCEPT ![w] = IF at = "idle" THEN Idle ELSE [@ EXCEPT !.at = at]]

(* The rows that are ready are read, and prepare_promotion_plan makes the  *)
(* plan of those without a product.  (A row that changes between the two   *)
(* calls falls out of the plan, as if it had changed before.)              *)
Choose(w) ==
  LET new == {i \in Items : Ready(i) /\ item[i].match = "missing"}
  IN  /\ worker[w].at = "idle" /\ \E i \in Items : Ready(i)
      /\ worker' = [worker EXCEPT ![w] = [@ EXCEPT
           !.at = IF new = {} THEN "refresh" ELSE "planned",
           !.known = {i \in Items : Ready(i) /\ item[i].match = "matched"},
           !.plan = [i \in Items |-> IF i \in new THEN item[i].cost ELSE 0]]]
      /\ UNCHANGED <<item, product, media>>

(* The transaction of apply_promotion_plan has begun and waits for the lock. *)
Begin(w) ==
  /\ worker[w].at = "planned"
  /\ worker' = [worker EXCEPT ![w] = [@ EXCEPT !.at = "begun", !.seen = Made]]
  /\ UNCHANGED <<item, product, media>>

(* Mutated form of Unchanged: rows are neither locked nor read again. *)
TakenFromSnapshot(w, i) == TRUE

(* The row lock, and the snapshot comparison under it. *)
Unchanged(w, i) ==
  i \notin worker[w].stale /\ item[i].match = "missing" /\ ~Blocked(item[i])

Found(w, i) == Owners(i) \cap worker[w].seen

Promotable(w) ==
  \A i \in Planned(w) : Unchanged(w, i) /\ Cardinality(Found(w, i)) <= 1

(* The product that is created of an item. *)
Created(i) ==
  [Unmade(i) EXCEPT !.made = "pipeline", !.cost = item[i].cost, !.supplier = item[i].cost,
                    !.price = item[i].cost, !.image = item[i].shot]

(* Mutated form of Promoted: the item does not learn its product. *)
PromotedUnlinked(it, p) ==
  [it EXCEPT !.state = "operational", !.match = "matched", !.flagged = FALSE]

Promoted(it, p) ==
  [it EXCEPT !.state = "operational", !.match = "matched", !.product = p, !.flagged = FALSE]

(* apply_promotion_plan: all products of the plan, or none.  When the      *)
(* answer is lost the client sends the plan again.                         *)
Apply(w) ==
  LET creates == {i \in Planned(w) : Found(w, i) = {}}
  IN  /\ worker[w].at = "begun" /\ Promotable(w)
      /\ \E new \in [creates -> Products \ Made] :
           LET link == [i \in Planned(w) |->
                 IF i \in creates THEN new[i] ELSE CHOOSE p \in Found(w, i) : TRUE]
           IN  /\ \A i, j \in creates : new[i] = new[j] => i = j
               /\ {new[i] : i \in creates} = NextFree..(NextFree + Cardinality(creates) - 1)
               /\ product' = [p \in Products |->
                    IF \E i \in creates : new[i] = p
                      THEN Created(CHOOSE i \in creates : new[i] = p) ELSE product[p]]
               /\ item' = [i \in Items |->
                    IF i \in Planned(w) THEN Promoted(item[i], link[i]) ELSE item[i]]
      /\ LET next == IF worker[w].known = {} THEN Idle
                     ELSE [Idle EXCEPT !.at = "refresh", !.known = worker[w].known]
             again == [worker[w] EXCEPT !.at = "planned", !.stale = Planned(w), !.seen = {}]
         IN  \E me \in {next, again} :
               worker' = [Written(Planned(w)) EXCEPT ![w] = me]
      /\ UNCHANGED media

(* The plan is refused. *)
Refuse(w) ==
  /\ worker[w].at = "begun" /\ ~Promotable(w)
  /\ Go(w, "idle")
  /\ UNCHANGED <<item, product, media>>

(* _check_sparex_publication_readiness, as far as this module knows. *)
Publishable(pr) ==
  pr.status = "published" =>
    /\ pr.supplier > 0 /\ pr.cost = pr.supplier /\ pr.price = pr.supplier
    /\ pr.image # NoImage

(* The constraints of a product, checked whenever it is written. *)
Allowed(pr) == (pr.status = "quote" => pr.price = 0) /\ Publishable(pr)

Refreshed(pr, it) ==
  [pr EXCEPT !.cost = it.cost, !.price = IF pr.keepsPrice THEN @ ELSE it.cost]

(* The constraints see the supplier record of before: it is written last.  *)
(* The product of a discontinued item is archived, if it is not published. *)
Refreshable(i) ==
  LET pr == product[item[i].product]
  IN  /\ item[i].match = "matched" /\ ~Blocked(item[i])
      /\ Allowed(Refreshed(pr, item[i]))
      /\ item[i].offered \/ pr.status # "published"

(* apply_operational_batch: all of it or nothing. *)
Refresh(w) ==
  LET S == worker[w].known
  IN  /\ worker[w].at = "refresh"
      /\ IF \A i \in S : Refreshable(i)
           THEN /\ product' = [p \in Products |->
                     IF \E i \in S : item[i].product = p
                       THEN LET it == item[CHOOSE i \in S : item[i].product = p]
                            IN  [Refreshed(product[p], it) EXCEPT !.supplier = it.cost]
                       ELSE product[p]]
                /\ item' = [i \in Items |->
                     IF i \in S THEN [item[i] EXCEPT !.state = "operational", !.flagged = FALSE]
                                ELSE item[i]]
                /\ \E me \in {Idle, worker[w]} : worker' = [Written(S) EXCEPT ![w] = me]
           ELSE Go(w, "idle") /\ UNCHANGED <<item, product>>
      /\ UNCHANGED media

(* The worker is killed, its lock times out, or the source has been closed *)
(* to automatic promotion.                                                 *)
Die(w) ==
  /\ worker[w].at # "idle" /\ Go(w, "idle")
  /\ UNCHANGED <<item, product, media>>

-----------------------------------------------------------------------------
(* Staff.                                                                  *)

StaffCreates(i) ==
  /\ NextFree \in Products
  /\ product' = [product EXCEPT ![NextFree] = [Unmade(i) EXCEPT !.made = "staff"]]
  /\ UNCHANGED <<item, media, worker>>

(* A price or an image of their own with its override flag, the flag       *)
(* alone, Ask for Pricing and publication, within the constraints.         *)
StaffEdits(p) ==
  /\ p \in Made \cap Edited
  /\ \E change \in
        { [product[p] EXCEPT !.price = OwnPrice, !.keepsPrice = TRUE],
          [product[p] EXCEPT !.price = 0, !.keepsPrice = FALSE],
          [product[p] EXCEPT !.keepsPrice = ~@],
          [product[p] EXCEPT !.image = OwnImage],
          [product[p] EXCEPT !.status = "draft"],
          [product[p] EXCEPT !.status = "published"],
          [product[p] EXCEPT !.status = "quote", !.price = 0] } :
       Allowed(change) /\ product' = [product EXCEPT ![p] = change]
  /\ UNCHANGED <<item, media, worker>>

-----------------------------------------------------------------------------
Work(w) == Choose(w) \/ Begin(w) \/ Apply(w) \/ Refuse(w) \/ Refresh(w)

Others ==
  \/ \E i \in Items : Observe(i) \/ DealerCost(i) \/ RequestPromotion(i) \/ StaffCreates(i)
  \/ \E p \in Products : StaffEdits(p)

Next ==
  \/ ReadImages \/ ApplyImages \/ DropImages
  \/ \E w \in Workers : Work(w) \/ Die(w)
  \/ Others

Spec == Init /\ [][Next]_vars

-----------------------------------------------------------------------------
(* Properties.                                                             *)

TypeOK ==
  /\ item \in [Items -> ItemRecord]
  /\ \A i \in Items : item[i].product # 0 <=> item[i].match = "matched"
  /\ product \in [Products -> ProductRecord]
  /\ media \in [Items -> Pictures]
  /\ worker \in [Workers -> WorkerRecord]

(* The pipeline creates at most one product of a reference, whatever plans *)
(* are sent again or prepared by two workers at once.                      *)
PromotedOnce ==
  \A i \in Items : Cardinality({p \in Owners(i) : product[p].made = "pipeline"}) <= 1

(* An item offered to the promotion worker has a cost, no other blocker,   *)
(* and an image whose stored content was downloaded from the source it has *)
(* now, though observations change the source while the media worker has   *)
(* it in hand.                                                             *)
ReadyIsSound ==
  \A i \in Items :
    Ready(i) => /\ item[i].cost > 0 /\ item[i].offered
                /\ item[i].verified /\ item[i].shot = item[i].image
=============================================================================
