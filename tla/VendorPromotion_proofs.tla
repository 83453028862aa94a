------------------------ MODULE VendorPromotion_proofs ------------------------
(***************************************************************************)
(* Proofs about VendorPromotion, for every number of items, image sources, *)
(* promotion workers, costs and products.                                  *)
(***************************************************************************)
EXTENDS VendorPromotion, FiniteSetTheorems, TLAPS

-----------------------------------------------------------------------------
(* The inductive invariant.                                                *)

(* An item knows a product exactly if it is matched.                       *)
Linked(it) == it.product # 0 <=> it.match = "matched"

(* An item whose image is verified has the content of its own source, and  *)
(* one that is ready and not flagged has no blocker.                       *)
Sound(it) ==
  /\ it.verified => it.shot = it.image
  /\ it.state = "ready" /\ it.offered /\ ~it.flagged => ~Blocked(it)

ItemOK(it) == it \in ItemRecord /\ Linked(it) /\ Sound(it)

WellFormed ==
  /\ item \in [Items -> ItemRecord] /\ \A i \in Items : ItemOK(item[i])
  /\ product \in [Products -> ProductRecord]
  /\ media \in [Items -> Pictures]
  /\ worker \in [Workers -> WorkerRecord]

(* A reference has at most one product of the pipeline, and an item with   *)
(* such a product does not miss one.                                       *)
OneEach ==
  \A p, q \in Products :
    product[p].made = "pipeline" =>
      /\ item[product[p].ref].match # "missing"
      /\ product[q].made = "pipeline" /\ product[q].ref = product[p].ref => q = p

IInv == WellFormed /\ OneEach

-----------------------------------------------------------------------------
(* What the operators on items return.                                     *)

(* The products of a reference are finitely many.                          *)
LEMMA OwnersFinite ==
  ASSUME NEW i
  PROVE  /\ Owners(i) \subseteq Products /\ IsFiniteSet(Owners(i))
         /\ Cardinality(Owners(i)) = 1 => Owners(i) # {}
  <1>1. Owners(i) \subseteq Products
    BY DEF Owners, Made
  <1>2. IsFiniteSet(Products)
    BY BoundsAssumption, FS_Interval DEF Products
  <1>. QED
    BY <1>1, <1>2, FS_Subset, FS_EmptySet

(* Judging an item keeps it what it is, but for its state and its flag,    *)
(* and the state it gives is sound.                                        *)
LEMMA JudgedItem ==
  ASSUME NEW it \in ItemRecord
  PROVE  /\ Judged(it) \in ItemRecord
         /\ Linked(it) => Linked(Judged(it))
         /\ (it.verified => it.shot = it.image) => Sound(Judged(it))
         /\ Judged(it).match = it.match /\ Judged(it).image = it.image
  <1>. DEFINE s == CASE ~it.offered -> "unavailable"
                     [] it.offered /\ Blocked(it) -> "blocked"
                     [] OTHER -> "ready"
              j == Judged(it)
  <1>1. Blocked(it) \in BOOLEAN
    BY DEF Blocked
  <1>2. s \in {"blocked", "ready", "unavailable"} /\ (s = "ready" => ~Blocked(it))
    BY DEF ItemRecord
  <1>. HIDE DEF s
  <1>3. j = [it EXCEPT !.flagged = Blocked(it), !.state = s]
    BY DEF Judged, s
  <1>4. /\ j \in ItemRecord /\ j.flagged = Blocked(it) /\ j.state = s
        /\ j.match = it.match /\ j.product = it.product /\ j.cost = it.cost
        /\ j.shot = it.shot /\ j.verified = it.verified /\ j.image = it.image
    BY <1>1, <1>2, <1>3 DEF ItemRecord
  <1>. HIDE DEF j
  <1>5. Blocked(j) <=> Blocked(it)
    BY <1>4 DEF Blocked
  <1>. QED
    BY <1>2, <1>4, <1>5 DEF Linked, Sound, j

(* Matching an item finds its product if there is exactly one.             *)
LEMMA MatchedItem ==
  ASSUME NEW it \in ItemRecord, NEW i \in Items
  PROVE  /\ Matched(it, i) \in ItemRecord
         /\ Linked(Matched(it, i))
         /\ Matched(it, i).match = "missing" => Owners(i) = {}
         /\ Matched(it, i).verified = it.verified /\ Matched(it, i).shot = it.shot
         /\ Matched(it, i).image = it.image
  <1>. DEFINE m == CASE Owners(i) = {} -> "missing"
                     [] Cardinality(Owners(i)) = 1 -> "matched"
                     [] OTHER -> "duplicate"
              p == IF Cardinality(Owners(i)) = 1 THEN CHOOSE q \in Owners(i) : TRUE ELSE 0
  <1>1. Cardinality({}) = 0
    BY FS_EmptySet
  <1>2. p \in 0..MaxProducts /\ (p # 0 <=> Cardinality(Owners(i)) = 1)
    BY OwnersFinite, BoundsAssumption DEF Products
  <1>3. /\ m \in {"missing", "matched", "duplicate"}
        /\ m = "matched" <=> Cardinality(Owners(i)) = 1
        /\ m = "missing" => Owners(i) = {}
    BY <1>1
  <1>. HIDE DEF m, p
  <1>4. Matched(it, i) = [it EXCEPT !.match = m, !.product = p]
    BY DEF Matched, m, p
  <1>. QED
    BY <1>2, <1>3, <1>4 DEF ItemRecord, Linked

(* An observation keeps an item sound, and finds no product only where     *)
(* there is none or where it does not look.                                *)
LEMMA ObservedItem ==
  ASSUME NEW it, ItemOK(it), NEW i \in Items, NEW image \in Pictures,
         NEW cost \in 0..MaxCost, NEW offered \in BOOLEAN,
         NEW new \in Observed(it, i, image, cost, offered)
  PROVE  /\ ItemOK(new) /\ new.image = image
         /\ new.match = "missing" => it.match = "missing" \/ Owners(i) = {}
  <1>. DEFINE kept == KeepsShot(it, image)
              shot == IF kept THEN it.shot ELSE NoImage
              seen == [it EXCEPT !.image = image, !.cost = cost, !.offered = offered,
                                 !.verified = kept, !.shot = shot]
              full == Judged(Matched(seen, i))
  <1>1. new = full \/ (new = it /\ it.image = image)
    BY DEF Observed
  <1>2. it \in ItemRecord /\ (it.verified => it.shot = it.image)
    BY DEF ItemOK, Sound
  <1>3. kept \in BOOLEAN /\ shot \in Pictures /\ (kept => shot = image)
    BY <1>2 DEF KeepsShot, ItemRecord, Pictures
  <1>. HIDE DEF kept, shot
  <1>4. /\ seen \in ItemRecord /\ seen.image = image
        /\ seen.verified => seen.shot = seen.image
    BY <1>2, <1>3 DEF ItemRecord
  <1>. HIDE DEF seen
  <1>5. /\ Matched(seen, i) \in ItemRecord /\ Linked(Matched(seen, i))
        /\ Matched(seen, i).verified => Matched(seen, i).shot = Matched(seen, i).image
        /\ Matched(seen, i).image = image
        /\ Matched(seen, i).match = "missing" => Owners(i) = {}
    BY <1>4, MatchedItem
  <1>6. /\ full \in ItemRecord /\ Linked(full) /\ Sound(full)
        /\ full.image = image /\ (full.match = "missing" => Owners(i) = {})
    BY <1>5, JudgedItem
  <1>. QED
    BY <1>1, <1>6 DEF ItemOK

(* A picture taken from the source that an item has keeps the item sound,  *)
(* and the product what it is a product of.                                *)
LEMMA PicturedItem ==
  ASSUME NEW it, ItemOK(it), NEW pr \in ProductRecord, NEW image \in Images,
         it.image = image, NEW exact \in BOOLEAN
  PROVE  /\ ItemOK(Pictured(it, pr, image, exact).item)
         /\ Pictured(it, pr, image, exact).item.match = it.match
         /\ Pictured(it, pr, image, exact).product \in ProductRecord
         /\ Pictured(it, pr, image, exact).product.made = pr.made
         /\ Pictured(it, pr, image, exact).product.ref = pr.ref
  <1>. DEFINE shot == [it EXCEPT !.shot = image, !.verified = exact]
              flag == [it EXCEPT !.flagged = TRUE]
  <1>1. it \in ItemRecord /\ Linked(it)
    BY DEF ItemOK
  <1>2. /\ shot \in ItemRecord /\ Linked(shot) /\ shot.shot = shot.image
        /\ shot.match = it.match
    BY <1>1 DEF ItemRecord, Linked, Pictures
  <1>3. /\ flag \in ItemRecord /\ Linked(flag) /\ flag.match = it.match
        /\ Sound(flag)
    BY <1>1 DEF ItemRecord, Linked, Sound, ItemOK
  <1>. HIDE DEF shot, flag
  <1>4. ItemOK(Judged(shot)) /\ Judged(shot).match = it.match /\ ItemOK(flag)
    BY <1>2, <1>3, JudgedItem DEF ItemOK
  <1>5. \/ Pictured(it, pr, image, exact) = [item |-> flag, product |-> pr]
        \/ Pictured(it, pr, image, exact) =
             [item |-> Judged(shot),
              product |-> IF it.product = 0 THEN pr ELSE [pr EXCEPT !.image = image]]
    BY DEF Pictured, shot, flag
  <1>. DEFINE new == IF it.product = 0 THEN pr ELSE [pr EXCEPT !.image = image]
  <1>6. new \in ProductRecord /\ new.made = pr.made /\ new.ref = pr.ref
    BY DEF ProductRecord, Pictures
  <1>7. CASE Pictured(it, pr, image, exact) = [item |-> flag, product |-> pr]
    BY <1>3, <1>4, <1>7
  <1>. HIDE DEF new
  <1>8. CASE Pictured(it, pr, image, exact) = [item |-> Judged(shot), product |-> new]
    BY <1>2, <1>4, <1>6, <1>8
  <1>. QED
    BY <1>5, <1>7, <1>8 DEF new

(* A product that is not made yet.                                         *)
LEMMA UnmadeProduct == \A i \in Items : Unmade(i) \in ProductRecord /\ Unmade(i).made = "none"
  <1>1. 0 \in 0..MaxCost /\ 0 \in 0..OwnPrice
    BY BoundsAssumption DEF OwnPrice
  <1>. QED
    BY <1>1 DEF Unmade, ProductRecord, Pictures

-----------------------------------------------------------------------------
(* Workers.                                                                *)

(* A worker that does nothing.                                             *)
LEMMA IdleWorker == Idle \in WorkerRecord
  <1>1. NoPlan \in [Items -> 0..MaxCost]
    BY BoundsAssumption DEF NoPlan
  <1>. QED
    BY <1>1 DEF Idle, WorkerRecord

(* Marking plans as written changes nothing else of the workers.           *)
LEMMA WrittenWorkers ==
  ASSUME worker \in [Workers -> WorkerRecord], NEW S
  PROVE  Written(S) \in [Workers -> WorkerRecord]
  BY DEF Written, Planned, WorkerRecord

(* A worker that goes on with its plan, or drops it.                       *)
LEMMA GoneWorkers ==
  ASSUME worker \in [Workers -> WorkerRecord], NEW w \in Workers,
         NEW at \in {"idle", "planned", "begun", "refresh"}, Go(w, at)
  PROVE  worker' \in [Workers -> WorkerRecord]
  <1>1. worker[w] \in WorkerRecord
    OBVIOUS
  <1>2. [worker[w] EXCEPT !.at = at] \in WorkerRecord
    BY <1>1 DEF WorkerRecord
  <1>. QED
    BY <1>2, IdleWorker DEF Go

-----------------------------------------------------------------------------
(* The steps.                                                              *)

(* The initial states satisfy the invariant: nothing is known or made.     *)
LEMMA IInvInitially == Init => IInv
  <1>. SUFFICES ASSUME Init PROVE IInv
    OBVIOUS
  <1>. DEFINE first == [state |-> "absent", offered |-> TRUE, image |-> NoImage, shot |-> NoImage,
                        verified |-> FALSE, cost |-> 0, flagged |-> FALSE,
                        match |-> "missing", product |-> 0]
  <1>1. 0 \in 0..MaxCost /\ 0 \in 0..MaxProducts /\ NoImage \in Pictures
    BY BoundsAssumption DEF Pictures
  <1>2. first \in ItemRecord
    BY <1>1 DEF ItemRecord
  <1>3. Linked(first) /\ Sound(first)
    BY DEF Linked, Sound
  <1>4. item \in [Items -> ItemRecord] /\ \A i \in Items : ItemOK(item[i])
    BY <1>2, <1>3 DEF Init, ItemOK
  <1>5. product \in [Products -> ProductRecord] /\ \A p \in Products : product[p].made = "none"
    BY UnmadeProduct, ItemsAssumption DEF Init
  <1>6. media \in [Items -> Pictures] /\ worker \in [Workers -> WorkerRecord]
    BY <1>1, IdleWorker DEF Init, NoBatch
  <1>. QED
    BY <1>4, <1>5, <1>6 DEF IInv, WellFormed, OneEach

(* A step that makes no product by the pipeline and takes none away from   *)
(* an item.                                                                *)
LEMMA NothingMade ==
  ASSUME IInv, WellFormed',
         \A p \in Products : product'[p].made = "pipeline" =>
            product[p].made = "pipeline" /\ product'[p].ref = product[p].ref,
         \A i \in Items : item'[i].match = "missing" =>
            item[i].match = "missing" \/ Owners(i) = {}
  PROVE  IInv'
  <1>1. \A p \in Products : product[p].made = "pipeline" =>
           product[p].ref \in Items /\ p \in Owners(product[p].ref)
    BY DEF IInv, WellFormed, ProductRecord, Owners, Made
  <1>. QED
    BY <1>1 DEF IInv, OneEach

(* One item that changes.                                                  *)
LEMMA ObserveKeeps == ASSUME IInv, NEW i \in Items, Observe(i) PROVE IInv'
  <1>1. ItemOK(item[i])
    BY DEF IInv, WellFormed
  <1>2. PICK new :
          /\ item' = [item EXCEPT ![i] = new]
          /\ ItemOK(new) /\ (new.match = "missing" => item[i].match = "missing" \/ Owners(i) = {})
    <2>1. PICK image \in Pictures, cost \in 0..MaxCost, offered \in BOOLEAN :
            \E new \in Observed(item[i], i, image, cost, offered) : item' = [item EXCEPT ![i] = new]
      BY DEF Observe
    <2>2. PICK new \in Observed(item[i], i, image, cost, offered) : item' = [item EXCEPT ![i] = new]
      BY <2>1
    <2>3. ItemOK(new) /\ (new.match = "missing" => item[i].match = "missing" \/ Owners(i) = {})
      BY <1>1, <2>1, <2>2, ObservedItem
    <2>. QED
      BY <2>2, <2>3
  <1>3. new \in ItemRecord
    BY <1>2 DEF ItemOK
  <1>4. WellFormed'
    <2>1. item' \in [Items -> ItemRecord] /\ \A j \in Items : ItemOK(item'[j])
      BY <1>2, <1>3 DEF IInv, WellFormed
    <2>2. worker' \in [Workers -> WorkerRecord]
      BY WrittenWorkers DEF Observe, IInv, WellFormed
    <2>. QED
      BY <2>1, <2>2 DEF Observe, IInv, WellFormed
  <1>. QED
    BY <1>2, <1>4, NothingMade DEF Observe, IInv, WellFormed

(* A dealer cost, and with it perhaps the image of the detail page, which  *)
(* the product of the item gets as well.                                   *)
LEMMA DealerCostKeeps == ASSUME IInv, NEW i \in Items, DealerCost(i) PROVE IInv'
  <1>. USE DEF IInv, WellFormed
  <1>0. PICK image \in Pictures, cost \in 0..MaxCost, exact \in BOOLEAN :
          \E new \in Observed(item[i], i, image, cost, TRUE) :
          \/ item' = [item EXCEPT ![i] = new] /\ UNCHANGED product
          \/ /\ image # NoImage
             /\ LET p == new.product
                    done == Pictured(new, IF p = 0 THEN Unmade(i) ELSE product[p], image, exact)
                IN  /\ item' = [item EXCEPT ![i] = done.item]
                    /\ product' = IF p = 0 THEN product
                                  ELSE [product EXCEPT ![p] = done.product]
    BY DEF DealerCost
  <1>1. PICK new \in Observed(item[i], i, image, cost, TRUE) :
          \/ item' = [item EXCEPT ![i] = new] /\ UNCHANGED product
          \/ /\ image # NoImage
             /\ LET p == new.product
                    done == Pictured(new, IF p = 0 THEN Unmade(i) ELSE product[p], image, exact)
                IN  /\ item' = [item EXCEPT ![i] = done.item]
                    /\ product' = IF p = 0 THEN product
                                  ELSE [product EXCEPT ![p] = done.product]
    BY <1>0
  <1>2. /\ ItemOK(new) /\ new.image = image /\ new \in ItemRecord
        /\ new.match = "missing" => item[i].match = "missing" \/ Owners(i) = {}
    <2>1. ItemOK(item[i]) /\ TRUE \in BOOLEAN
      OBVIOUS
    <2>2. /\ ItemOK(new) /\ new.image = image
          /\ new.match = "missing" => item[i].match = "missing" \/ Owners(i) = {}
      <3>1. PICK offered \in BOOLEAN : new \in Observed(item[i], i, image, cost, offered)
        BY <1>1, Zenon
      <3>. HIDE DEF IInv, WellFormed
      <3>. QED
        BY <1>0, <2>1, <3>1, ObservedItem
    <2>. QED
      BY <2>2 DEF ItemOK
  <1>3. worker' \in [Workers -> WorkerRecord]
    BY WrittenWorkers DEF DealerCost
  <1>4. CASE item' = [item EXCEPT ![i] = new] /\ UNCHANGED product
    <2>1. WellFormed'
      BY <1>2, <1>3, <1>4 DEF DealerCost
    <2>. QED
      BY <1>2, <1>4, <2>1, NothingMade
  <1>5. ASSUME image # NoImage, NEW p, p = new.product, NEW done,
               done = Pictured(new, IF p = 0 THEN Unmade(i) ELSE product[p], image, exact),
               item' = [item EXCEPT ![i] = done.item],
               product' = IF p = 0 THEN product ELSE [product EXCEPT ![p] = done.product]
        PROVE  IInv'
    <2>. DEFINE pr == IF p = 0 THEN Unmade(i) ELSE product[p]
    <2>1. p \in 0..MaxProducts /\ image \in Images /\ pr \in ProductRecord
      BY <1>2, <1>5, UnmadeProduct DEF ItemRecord, Products, Pictures
    <2>. HIDE DEF pr
    <2>2. /\ ItemOK(done.item) /\ done.item.match = new.match
          /\ done.product \in ProductRecord
          /\ done.product.made = pr.made /\ done.product.ref = pr.ref
      BY <1>2, <1>5, <2>1, PicturedItem DEF pr
    <2>3. /\ product' \in [Products -> ProductRecord]
          /\ \A q \in Products : /\ product'[q].made = product[q].made
                                 /\ product'[q].ref = product[q].ref
      BY <1>5, <2>1, <2>2 DEF pr, Products
    <2>4. done.item \in ItemRecord
      BY <2>2 DEF ItemOK
    <2>5. WellFormed'
      BY <1>3, <1>5, <2>2, <2>3, <2>4 DEF DealerCost
    <2>. QED
      BY <1>2, <1>5, <2>2, <2>3, <2>5, NothingMade
  <1>. QED
    BY <1>1, <1>4, <1>5

(* The batch of the media worker.                                          *)
LEMMA ApplyImagesKeeps == ASSUME IInv, ApplyImages PROVE IInv'
  <1>. DEFINE of(i) == IF item[i].product = 0 THEN Unmade(i) ELSE product[item[i].product]
              done(i, exact) == Pictured(item[i], of(i), media[i], i \in exact)
  <1>0. PICK exact \in SUBSET InBatch :
          /\ item' = [i \in Items |-> IF i \in InBatch THEN done(i, exact).item ELSE item[i]]
          /\ product' = [p \in Products |->
               IF \E i \in InBatch : item[i].product = p
                 THEN done(CHOOSE i \in InBatch : item[i].product = p, exact).product
                 ELSE product[p]]
    BY DEF ApplyImages
  <1>1. ASSUME NEW i \in InBatch
        PROVE  /\ of(i) \in ProductRecord
               /\ ItemOK(done(i, exact).item) /\ done(i, exact).item.match = item[i].match
               /\ done(i, exact).product \in ProductRecord
               /\ done(i, exact).product.made = of(i).made /\ done(i, exact).product.ref = of(i).ref
    <2>1. /\ i \in Items /\ ItemOK(item[i]) /\ item[i] \in ItemRecord
          /\ media[i] \in Images /\ item[i].image = media[i]
      BY DEF InBatch, IInv, WellFormed, ApplyImages, SourceUnchanged, Pictures
    <2>2. of(i) \in ProductRecord
      BY <2>1, UnmadeProduct DEF ItemRecord, IInv, WellFormed, Products
    <2>3. (i \in exact) \in BOOLEAN
      OBVIOUS
    <2>. HIDE DEF of
    <2>. QED
      BY <2>1, <2>2, <2>3, PicturedItem
  <1>3. \A i \in InBatch : item[i].product # 0 => of(i) = product[item[i].product]
    OBVIOUS
  <1>. HIDE DEF of, done
  <1>4. /\ item' \in [Items -> ItemRecord]
        /\ \A i \in Items : ItemOK(item'[i]) /\ item'[i].match = item[i].match
    BY <1>1, <1>0 DEF IInv, WellFormed, ItemOK
  <1>5. ASSUME NEW p \in Products
        PROVE  /\ product'[p] \in ProductRecord
               /\ product'[p].made = product[p].made /\ product'[p].ref = product[p].ref
    <2>1. CASE \E i \in InBatch : item[i].product = p
      <3>1. PICK i \in InBatch : item[i].product = p /\ product'[p] = done(i, exact).product
        BY <1>0, <2>1
      <3>2. of(i) = product[p]
        BY <1>3, <3>1 DEF Products
      <3>. QED
        BY <1>1, <3>1, <3>2
    <2>2. CASE ~ \E i \in InBatch : item[i].product = p
      BY <1>0, <2>2 DEF IInv, WellFormed
    <2>. QED
      BY <2>1, <2>2
  <1>6. product' \in [Products -> ProductRecord]
    BY <1>0, <1>5
  <1>7. worker' \in [Workers -> WorkerRecord] /\ media' \in [Items -> Pictures]
    <2>1. NoBatch \in [Items -> Pictures]
      BY DEF NoBatch, Pictures
    <2>. QED
      BY <2>1, WrittenWorkers DEF ApplyImages, IInv, WellFormed
  <1>8. WellFormed'
    BY <1>4, <1>6, <1>7 DEF WellFormed
  <1>. QED
    BY <1>4, <1>5, <1>8, NothingMade

(* A plan that is made.                                                    *)
LEMMA ChooseKeeps == ASSUME IInv, NEW w \in Workers, Choose(w) PROVE IInv'
  <1>. DEFINE new == {i \in Items : Ready(i) /\ item[i].match = "missing"}
              at == IF new = {} THEN "refresh" ELSE "planned"
              known == {i \in Items : Ready(i) /\ item[i].match = "matched"}
              plan == [i \in Items |-> IF i \in new THEN item[i].cost ELSE 0]
  <1>1. plan \in [Items -> 0..MaxCost]
    BY BoundsAssumption DEF IInv, WellFormed, ItemRecord
  <1>2. known \in SUBSET Items /\ at \in {"refresh", "planned"}
    OBVIOUS
  <1>3. worker' = [worker EXCEPT ![w] = [worker[w] EXCEPT !.at = at, !.known = known, !.plan = plan]]
    BY DEF Choose, IInv, WellFormed
  <1>. HIDE DEF known, plan, at
  <1>4. [worker[w] EXCEPT !.at = at, !.known = known, !.plan = plan] \in WorkerRecord
    BY <1>1, <1>2 DEF IInv, WellFormed, WorkerRecord
  <1>5. worker' \in [Workers -> WorkerRecord]
    BY <1>3, <1>4 DEF IInv, WellFormed
  <1>. QED
    BY <1>5, NothingMade DEF Choose, IInv, WellFormed

(* A transaction that begins, is refused or dies.                          *)
LEMMA QuietKeeps ==
  ASSUME IInv, NEW w \in Workers, Begin(w) \/ Refuse(w) \/ Die(w)
  PROVE  IInv'
  <1>1. CASE Begin(w)
    <2>1. worker' = [worker EXCEPT ![w] = [worker[w] EXCEPT !.at = "begun", !.seen = Made]]
      BY <1>1 DEF Begin, IInv, WellFormed
    <2>2. [worker[w] EXCEPT !.at = "begun", !.seen = Made] \in WorkerRecord
      BY DEF IInv, WellFormed, WorkerRecord, Made
    <2>3. worker' \in [Workers -> WorkerRecord]
      BY <2>1, <2>2 DEF IInv, WellFormed
    <2>. QED
      BY <1>1, <2>3, NothingMade DEF Begin, IInv, WellFormed
  <1>2. CASE Refuse(w) \/ Die(w)
    <2>1. worker' \in [Workers -> WorkerRecord]
      BY <1>2, GoneWorkers DEF Refuse, Die, IInv, WellFormed
    <2>. QED
      BY <1>2, <2>1, NothingMade DEF Refuse, Die, IInv, WellFormed
  <1>. QED
    BY <1>1, <1>2

(* A plan that is applied: each planned item learns its product, and only  *)
(* items that missed one get a new one.                                    *)
LEMMA ApplyKeeps == ASSUME IInv, NEW w \in Workers, Apply(w) PROVE IInv'
  <1>. DEFINE creates == {i \in Planned(w) : Found(w, i) = {}}
              link(new) == [i \in Planned(w) |->
                              IF i \in creates THEN new[i] ELSE CHOOSE p \in Found(w, i) : TRUE]
  <1>1. PICK new \in [creates -> Products \ Made] :
          /\ \A i, j \in creates : new[i] = new[j] => i = j
          /\ product' = [p \in Products |->
               IF \E i \in creates : new[i] = p
                 THEN Created(CHOOSE i \in creates : new[i] = p) ELSE product[p]]
          /\ item' = [i \in Items |->
               IF i \in Planned(w) THEN Promoted(item[i], link(new)[i]) ELSE item[i]]
    BY DEF Apply
  <1>2. Planned(w) \subseteq Items /\ \A i \in Planned(w) : item[i].match = "missing"
    BY DEF Planned, Apply, Promotable, Unchanged
  <1>3. \A i \in Planned(w) : link(new)[i] \in Products
    BY <1>1 DEF Found, Owners, Made
  <1>4. ASSUME NEW i \in Items
        PROVE  /\ item'[i] \in ItemRecord /\ ItemOK(item'[i])
               /\ i \in Planned(w) => item'[i].match = "matched"
               /\ i \notin Planned(w) => item'[i].match = item[i].match
    <2>1. item[i] \in ItemRecord /\ ItemOK(item[i])
      BY DEF IInv, WellFormed
    <2>2. CASE i \in Planned(w)
      <3>. DEFINE p == link(new)[i]
      <3>1. p \in 1..MaxProducts /\ item'[i] = Promoted(item[i], p)
        BY <1>1, <1>3, <2>2 DEF Products
      <3>. HIDE DEF p
      <3>2. p \in 0..MaxProducts /\ p # 0
        BY <3>1, BoundsAssumption
      <3>. QED
        BY <2>1, <2>2, <3>1, <3>2 DEF Promoted, ItemRecord, ItemOK, Linked, Sound
    <2>3. CASE i \notin Planned(w)
      BY <1>1, <2>1, <2>3
    <2>. QED
      BY <2>2, <2>3
  <1>5. ASSUME NEW i \in creates
        PROVE  Created(i) \in ProductRecord /\ Created(i).ref = i
    <2>1. i \in Items /\ Unmade(i) \in ProductRecord /\ item[i] \in ItemRecord
      BY <1>2, UnmadeProduct DEF IInv, WellFormed
    <2>2. item[i].cost \in 0..MaxCost /\ item[i].cost \in 0..OwnPrice
      BY <2>1, BoundsAssumption DEF ItemRecord, OwnPrice
    <2>3. Created(i) \in ProductRecord
      BY <2>1, <2>2 DEF Created, ProductRecord, ItemRecord
    <2>. QED
      BY <2>3 DEF Created, Unmade
  <1>6. ASSUME NEW p \in Products
        PROVE  \/ product'[p] = product[p]
               \/ \E i \in creates : new[i] = p /\ product'[p] = Created(i)
    BY <1>1
  <1>. HIDE DEF creates, link
  <1>7. creates \subseteq Planned(w)
    BY DEF creates
  <1>8. WellFormed'
    <2>1. product' \in [Products -> ProductRecord]
      BY <1>1, <1>5, <1>6 DEF IInv, WellFormed
    <2>2. item' \in [Items -> ItemRecord]
      BY <1>1, <1>4
    <2>3. worker' \in [Workers -> WorkerRecord]
      <3>. DEFINE next == IF worker[w].known = {} THEN Idle
                          ELSE [Idle EXCEPT !.at = "refresh", !.known = worker[w].known]
                  again == [worker[w] EXCEPT !.at = "planned", !.stale = Planned(w), !.seen = {}]
      <3>1. next \in WorkerRecord
        BY IdleWorker DEF IInv, WellFormed, WorkerRecord
      <3>2. again \in WorkerRecord
        BY <1>2 DEF IInv, WellFormed, WorkerRecord
      <3>3. \E me \in {next, again} : worker' = [Written(Planned(w)) EXCEPT ![w] = me]
        BY DEF Apply
      <3>. HIDE DEF next, again
      <3>. QED
        BY <3>1, <3>2, <3>3, WrittenWorkers DEF IInv, WellFormed
    <2>. QED
      BY <1>4, <2>1, <2>2, <2>3 DEF Apply, IInv, WellFormed
  <1>9. OneEach'
    <2>1. ASSUME NEW p \in Products, product'[p].made = "pipeline", product'[p] = product[p]
          PROVE  product[p].ref \in Items /\ product[p].ref \notin Planned(w)
                   /\ item[product[p].ref].match # "missing"
      BY <1>2, <2>1 DEF IInv, OneEach, WellFormed, ProductRecord
    <2>2. ASSUME NEW p \in Products, product'[p].made = "pipeline"
          PROVE  item'[product'[p].ref].match # "missing"
      BY <1>2, <1>4, <1>5, <1>6, <1>7, <2>1, <2>2
    <2>3. ASSUME NEW p \in Products, NEW q \in Products,
                 product'[p].made = "pipeline", product'[q].made = "pipeline",
                 product'[q].ref = product'[p].ref
          PROVE  q = p
      <3>1. CASE product'[p] = product[p] /\ product'[q] = product[q]
        BY <2>3, <3>1 DEF IInv, OneEach
      <3>2. CASE product'[p] = product[p] /\ \E i \in creates : new[i] = q /\ product'[q] = Created(i)
        BY <1>5, <1>7, <2>1, <2>3, <3>2
      <3>3. CASE product'[q] = product[q] /\ \E i \in creates : new[i] = p /\ product'[p] = Created(i)
        BY <1>5, <1>7, <2>1, <2>3, <3>3
      <3>4. CASE \E i, j \in creates : /\ new[i] = p /\ product'[p] = Created(i)
                                       /\ new[j] = q /\ product'[q] = Created(j)
        BY <1>5, <2>3, <3>4
      <3>. QED
        BY <1>6, <3>1, <3>2, <3>3, <3>4
    <2>. QED
      BY <2>2, <2>3 DEF OneEach
  <1>. QED
    BY <1>8, <1>9 DEF IInv

(* A batch that is refreshed.                                              *)
LEMMA RefreshKeeps == ASSUME IInv, NEW w \in Workers, Refresh(w) PROVE IInv'
  <1>. DEFINE S == worker[w].known
              of(p) == CHOOSE i \in S : item[i].product = p
              fresh(p) == [Refreshed(product[p], item[of(p)]) EXCEPT !.supplier = item[of(p)].cost]
  <1>0. S \subseteq Items
    BY DEF IInv, WellFormed, WorkerRecord
  <1>1. CASE Go(w, "idle") /\ UNCHANGED <<item, product>>
    <2>1. worker' \in [Workers -> WorkerRecord]
      BY <1>1, GoneWorkers DEF IInv, WellFormed
    <2>. QED
      BY <1>1, <2>1, NothingMade DEF Refresh, IInv, WellFormed
  <1>2. CASE /\ product' = [p \in Products |->
                  IF \E i \in S : item[i].product = p THEN fresh(p) ELSE product[p]]
             /\ item' = [i \in Items |->
                  IF i \in S THEN [item[i] EXCEPT !.state = "operational", !.flagged = FALSE]
                             ELSE item[i]]
             /\ \E me \in {Idle, worker[w]} : worker' = [Written(S) EXCEPT ![w] = me]
    <2>1. ASSUME NEW i \in Items
          PROVE  /\ item'[i] \in ItemRecord /\ ItemOK(item'[i])
                 /\ item'[i].match = item[i].match
      <3>1. item[i] \in ItemRecord /\ ItemOK(item[i])
        BY DEF IInv, WellFormed
      <3>2. \/ item'[i] = item[i]
            \/ item'[i] = [item[i] EXCEPT !.state = "operational", !.flagged = FALSE]
        BY <1>2
      <3>. QED
        BY <3>1, <3>2 DEF ItemRecord, ItemOK, Linked, Sound
    <2>2. ASSUME NEW p \in Products, NEW i \in S
          PROVE  LET new == [Refreshed(product[p], item[i]) EXCEPT !.supplier = item[i].cost]
                 IN  /\ new \in ProductRecord
                     /\ new.made = product[p].made /\ new.ref = product[p].ref
      <3>1. product[p] \in ProductRecord /\ item[i] \in ItemRecord
        BY <1>0 DEF IInv, WellFormed
      <3>. DEFINE c == item[i].cost
                  price == IF product[p].keepsPrice THEN product[p].price ELSE c
      <3>2. c \in 0..MaxCost /\ price \in 0..OwnPrice
        BY <3>1, BoundsAssumption DEF ItemRecord, ProductRecord, OwnPrice
      <3>3. [Refreshed(product[p], item[i]) EXCEPT !.supplier = c]
              = [product[p] EXCEPT !.cost = c, !.price = price, !.supplier = c]
        BY <3>1 DEF Refreshed, ProductRecord
      <3>. HIDE DEF c, price
      <3>4. LET new == [product[p] EXCEPT !.cost = c, !.price = price, !.supplier = c]
            IN  /\ new \in ProductRecord
                /\ new.made = product[p].made /\ new.ref = product[p].ref
        BY <3>1, <3>2 DEF ProductRecord
      <3>. QED
        BY <3>3, <3>4 DEF c
    <2>3. ASSUME NEW p \in Products
          PROVE  /\ product'[p] \in ProductRecord
                 /\ product'[p].made = product[p].made /\ product'[p].ref = product[p].ref
      <3>1. CASE \E i \in S : item[i].product = p
        <4>1. of(p) \in S /\ product'[p] = fresh(p)
          BY <1>2, <3>1
        <4>2. PICK i \in S :
                product'[p] = [Refreshed(product[p], item[i]) EXCEPT !.supplier = item[i].cost]
          BY <4>1
        <4>. HIDE DEF S, of, fresh
        <4>. QED
          BY <2>2, <4>2
      <3>2. CASE ~ \E i \in S : item[i].product = p
        BY <1>2, <3>2 DEF IInv, WellFormed
      <3>. QED
        BY <3>1, <3>2
    <2>4. product' \in [Products -> ProductRecord] /\ item' \in [Items -> ItemRecord]
      <3>. HIDE DEF fresh
      <3>. QED
        BY <1>2, <2>1, <2>3
    <2>5. worker' \in [Workers -> WorkerRecord]
      BY <1>2, IdleWorker, WrittenWorkers DEF IInv, WellFormed
    <2>6. WellFormed'
      BY <2>1, <2>4, <2>5 DEF Refresh, IInv, WellFormed
    <2>. QED
      BY <2>1, <2>3, <2>6, NothingMade
  <1>. QED
    BY <1>1, <1>2 DEF Refresh

(* The media worker that starts or drops a batch, and a promotion that is  *)
(* asked for: items and products stay.                                     *)
LEMMA StillKeeps ==
  ASSUME IInv, ReadImages \/ DropImages \/ \E i \in Items : RequestPromotion(i)
  PROVE  IInv'
  <1>1. UNCHANGED <<item, product>>
    BY DEF ReadImages, DropImages, RequestPromotion
  <1>2. media' \in [Items -> Pictures]
    <2>1. NoBatch \in [Items -> Pictures]
      BY DEF NoBatch, Pictures
    <2>2. CASE ReadImages
      <3>1. PICK S \in SUBSET Items :
              media' = [i \in Items |-> IF i \in S THEN item[i].image ELSE NoImage]
        BY <2>2 DEF ReadImages, Active, Known
      <3>. QED
        BY <3>1 DEF IInv, WellFormed, ItemRecord, Pictures
    <2>. QED
      BY <2>1, <2>2 DEF DropImages, RequestPromotion, IInv, WellFormed
  <1>3. worker' \in [Workers -> WorkerRecord]
    BY WrittenWorkers DEF ReadImages, DropImages, RequestPromotion, IInv, WellFormed
  <1>. QED
    BY <1>1, <1>2, <1>3, NothingMade DEF IInv, WellFormed

(* Staff that create a product: none of the pipeline's, in a free place.   *)
LEMMA StaffCreatesKeeps == ASSUME IInv, NEW i \in Items, StaffCreates(i) PROVE IInv'
  <1>. DEFINE new == [Unmade(i) EXCEPT !.made = "staff"]
  <1>1. new \in ProductRecord /\ new.made = "staff"
    BY UnmadeProduct DEF ProductRecord
  <1>2. NextFree \in Products /\ product' = [product EXCEPT ![NextFree] = new]
    BY DEF StaffCreates
  <1>. HIDE DEF new
  <1>3. /\ product' \in [Products -> ProductRecord]
        /\ \A p \in Products : product'[p].made = "pipeline" => product'[p] = product[p]
    BY <1>1, <1>2 DEF IInv, WellFormed
  <1>. QED
    BY <1>3, NothingMade DEF StaffCreates, IInv, WellFormed

(* Staff that edit a product leave who made it, and of what.               *)
LEMMA StaffEditsKeeps == ASSUME IInv, NEW p \in Products, StaffEdits(p) PROVE IInv'
  <1>1. product[p] \in ProductRecord /\ OwnPrice \in 0..OwnPrice /\ 0 \in 0..OwnPrice
    BY BoundsAssumption DEF IInv, WellFormed, OwnPrice
  <1>2. PICK change :
          /\ change \in
               { [product[p] EXCEPT !.price = OwnPrice, !.keepsPrice = TRUE],
                 [product[p] EXCEPT !.price = 0, !.keepsPrice = FALSE],
                 [product[p] EXCEPT !.keepsPrice = ~@],
                 [product[p] EXCEPT !.image = OwnImage],
                 [product[p] EXCEPT !.status = "draft"],
                 [product[p] EXCEPT !.status = "published"],
                 [product[p] EXCEPT !.status = "quote", !.price = 0] }
          /\ product' = [product EXCEPT ![p] = change]
    BY DEF StaffEdits
  <1>3. /\ change \in ProductRecord
        /\ change.made = product[p].made /\ change.ref = product[p].ref
    BY ZenonT(60), <1>1, <1>2 DEF ProductRecord
  <1>4. /\ product' \in [Products -> ProductRecord]
        /\ \A q \in Products : /\ product'[q].made = product[q].made
                               /\ product'[q].ref = product[q].ref
    BY <1>2, <1>3 DEF IInv, WellFormed
  <1>. QED
    BY <1>4, NothingMade DEF StaffEdits, IInv, WellFormed

(* Every step keeps the invariant.                                         *)
LEMMA IInvKept == IInv /\ [Next]_vars => IInv'
  <1>. SUFFICES ASSUME IInv, [Next]_vars PROVE IInv'
    OBVIOUS
  <1>1. CASE ReadImages \/ DropImages
    BY <1>1, StillKeeps
  <1>2. CASE ApplyImages
    BY <1>2, ApplyImagesKeeps
  <1>3. ASSUME NEW w \in Workers, Work(w) \/ Die(w)
        PROVE  IInv'
    BY <1>3, ChooseKeeps, QuietKeeps, ApplyKeeps, RefreshKeeps DEF Work
  <1>4. ASSUME NEW i \in Items, Observe(i) \/ DealerCost(i) \/ RequestPromotion(i) \/ StaffCreates(i)
        PROVE  IInv'
    BY <1>4, ObserveKeeps, DealerCostKeeps, StillKeeps, StaffCreatesKeeps
  <1>5. ASSUME NEW p \in Products, StaffEdits(p)
        PROVE  IInv'
    BY <1>5, StaffEditsKeeps
  <1>6. CASE UNCHANGED vars
    BY <1>6 DEF vars, IInv, WellFormed, OneEach
  <1>. QED
    BY <1>1, <1>2, <1>3, <1>4, <1>5, <1>6 DEF Next, Others

(* The invariant holds in every reachable state.                           *)
LEMMA Invariant == Spec => []IInv
  BY IInvInitially, IInvKept, PTL DEF Spec

-----------------------------------------------------------------------------
(* The theorems.                                                           *)

(* Items, products, the batch of the media worker and the promotion        *)
(* workers keep their types, and an item knows a product (product_id)      *)
(* exactly while it is matched.                                            *)
THEOREM TypeCorrect == Spec => []TypeOK
  <1>1. IInv => TypeOK
    BY DEF IInv, WellFormed, ItemOK, Linked, TypeOK
  <1>. QED
    BY <1>1, Invariant, PTL

(* apply_promotion_plan creates at most one product of a reference, though *)
(* plans are sent again when an answer is lost, two workers prepare plans  *)
(* of the same items, each reads products in a snapshot taken before it    *)
(* had the lock, and staff create products of the same references.         *)
THEOREM PromotesOnce == Spec => []PromotedOnce
  <1>1. ASSUME IInv, NEW i \in Items
        PROVE  Cardinality({p \in Owners(i) : product[p].made = "pipeline"}) <= 1
    <2>. DEFINE S == {p \in Owners(i) : product[p].made = "pipeline"}
    <2>1. \A p, q \in S : p = q
      BY <1>1 DEF IInv, OneEach, Owners, Made
    <2>. HIDE DEF S
    <2>2. S = {} \/ \E p : S = {p}
      BY <2>1
    <2>3. Cardinality(S) = 0 \/ Cardinality(S) = 1
      BY <2>2, FS_EmptySet, FS_Singleton
    <2>4. Cardinality(S) <= 1
      BY <2>3
    <2>. QED
      BY <2>4 DEF S
  <1>2. IInv => PromotedOnce
    BY <1>1 DEF PromotedOnce
  <1>. QED
    BY <1>2, Invariant, PTL

(* What the promotion worker is offered has a cost and an image that was   *)
(* downloaded from the source the item has now: _recompute_readiness has   *)
(* seen every change of source, and apply_media_batch compares the source  *)
(* it was sent with the one of the locked row.                             *)
THEOREM ReadyStaysSound == Spec => []ReadyIsSound
  <1>1. ASSUME IInv, NEW i \in Items, Ready(i)
        PROVE  /\ item[i].cost > 0 /\ item[i].offered
               /\ item[i].verified /\ item[i].shot = item[i].image
    <2>1. item[i] \in ItemRecord /\ Sound(item[i])
      BY <1>1 DEF IInv, WellFormed, ItemOK
    <2>2. ~Blocked(item[i]) /\ item[i].offered
      BY <1>1, <2>1 DEF Ready, Active, Sound
    <2>. QED
      BY <2>1, <2>2, BoundsAssumption DEF Blocked, Sound, ItemRecord
  <1>2. IInv => ReadyIsSound
    BY <1>1 DEF ReadyIsSound
  <1>. QED
    BY <1>2, Invariant, PTL
=============================================================================
