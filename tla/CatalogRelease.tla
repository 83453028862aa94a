--------------------------- MODULE CatalogRelease ---------------------------
(***************************************************************************)
(* The release of hidden Sparex products to the website: the tasks of the  *)
(* five catalog agents (southern_parts_intelligence/models/                *)
(* catalog_agents.py), the repairs of source links and customer copy that  *)
(* precede them (models/sparex_discovery.py), and the two scripts that     *)
(* drive everything under locks of their own and so run side by side:      *)
(* scripts/sparex_catalog_agents/orchestrator.py and                       *)
(* publication_worker.py.                                                  *)
(*                                                                         *)
(* Every RPC is one database transaction and one action.  The tasks of one *)
(* pipeline follow each other, each queued when the one before completes,  *)
(* so a pipeline is kept as the stage it has reached and the state of the  *)
(* task there.                                                             *)
(***************************************************************************)
EXTENDS Integers, FiniteSets

CONSTANTS
    Products,
    Orchestrators,  \* processes of orchestrator.py
    Publishers,     \* processes of publication_worker.py
    Depth,          \* number of agents in CATALOG_AGENT_SEQUENCE, 5 in the code
    MaxPipelines,   \* bound: pipelines that are ever seeded
    MaxTroubles,    \* bound: changes by others, killed processes and lost replies
    NoOne

Workers == Orchestrators \cup Publishers
Pipelines == 1..MaxPipelines

ASSUME ReleaseConstants ==
    /\ IsFiniteSet(Products) /\ IsFiniteSet(Workers)
    /\ Orchestrators \cap Publishers = {} /\ NoOne \notin Products
    /\ Depth \in Nat \ {0, 1} /\ MaxPipelines \in Nat
    /\ MaxTroubles \in Nat

VARIABLES
    product,   \* product.template
    evidence,  \* the current discovery item of a product
    pipeline,  \* southern.catalog.agent.task, one record per root task
    worker,    \* the local state of every process
    orphans,   \* history: pipelines published by a process that did not live to know
    troubles   \* how many changes by others, kills and lost replies there were

vars == <<product, evidence, pipeline, worker, orphans, troubles>>

\* Where the source link of a product comes from: its URL, and its image,
\* which is filled, compared and taken back together with it.
Origin == {"none", "listing", "staff"}
ProductRow == [url : Origin,
               copy : {"unsafe", "repaired", "staff"},
               price : 0..2,     \* none, without a verified basis, with one
               shown : BOOLEAN,
               hid : BOOLEAN]    \* history: a person has hidden the product
EvidenceRow == [current : BOOLEAN,   \* current and verified, with URL and image
                costed : BOOLEAN]    \* exact dealer cost evidence
PipelineRow == [of : Products \cup {NoOne},
                stage : 0..Depth,
                \* blocked, failed and cancelled tasks are told apart by nothing here
                state : {"queued", "claimed", "completed", "stopped"},
                fresh : BOOLEAN,     \* its idempotency key has the product's write_date
                publication : {"not_applicable", "ready", "published", "verified", "rolled_back"}]

NoPipeline == [of |-> NoOne, stage |-> 0, state |-> "queued", fresh |-> FALSE,
               publication |-> "not_applicable"]
NoFacts == [url |-> "unplanned"]
Facts == [url : Origin, price : 0..2] \cup {NoFacts}
Unplanned == [n \in Pipelines |-> NoFacts]
WorkerRow == [pc : {"idle", "linking", "linked", "copying", "seeding", "claiming",
                    "recording", "preparing", "publishing", "verifying", "confirming",
                    "quoting", "failed", "undo_copy", "undo_links"},
              stage : 1..(Depth + 1),
              rows : SUBSET Products, valid : SUBSET Products, links : SUBSET Products,
              copies : SUBSET Products, tasks : SUBSET Pipelines,
              plan : [Pipelines -> Facts], released : SUBSET Pipelines]
Idle == [pc |-> "idle", stage |-> 1, rows |-> {}, valid |-> {},
         links |-> {}, copies |-> {}, tasks |-> {},
         plan |-> Unplanned, released |-> {}]

Init ==
    /\ product \in [Products -> [url : {"none", "staff"},
                                 copy : {"unsafe"}, price : {2}, shown : {FALSE}, hid : {FALSE}]]
    /\ evidence = [p \in Products |-> [current |-> TRUE, costed |-> TRUE]]
    /\ pipeline = [n \in Pipelines |-> NoPipeline]
    /\ worker = [w \in Workers |-> Idle]
    /\ orphans = {} /\ troubles = 0

-----------------------------------------------------------------------------
(* What the snapshot of a task and the gate of the product look at *)

Sourced(r) == r.url # "none"

\* action_prepare_snapshot: ready_to_publish
Ready(p) ==
    /\ ~product[p].shown /\ Sourced(product[p])
    /\ product[p].copy # "unsafe" /\ product[p].price >= 1
    /\ evidence[p].current

\* Mutated form of Allowed: the gate does not ask for the source of the product.
AllowedUnsourced(p, r) ==
    r.shown => r.copy # "unsafe" /\ r.price >= 2 /\ evidence[p].costed

\* The constraint _check_sparex_publication_readiness on a product that is written.
Allowed(p, r) ==
    r.shown => Sourced(r) /\ r.copy # "unsafe" /\ r.price >= 2 /\ evidence[p].costed

\* _product_invariants
FactsOf(p) == [url |-> product[p].url, price |-> product[p].price]

\* Every write of a product moves its write_date, which plans of repairs and
\* the keys of pipelines hold.
Voided(W, S) == [w \in Workers |-> [W[w] EXCEPT !.valid = @ \ S]]
Aged(P, S) == [n \in Pipelines |-> IF P[n].of \in S THEN [P[n] EXCEPT !.fresh = FALSE] ELSE P[n]]

-----------------------------------------------------------------------------
(* Repairs before the release: orchestrator only *)

Linkable(p) ==
    evidence[p].current /\ ~product[p].shown /\ ~Sourced(product[p])

Copyable(p) == evidence[p].current /\ product[p].copy = "unsafe"

\* The stored marks by which candidates are searched may be old: any part of
\* what the refreshed rows allow is planned.
PlanRepair(w, from, to, skip, eligible) ==
    /\ worker[w].pc = from
    /\ \E S \in SUBSET eligible :
          worker' = [worker EXCEPT ![w].pc = IF S = {} THEN skip ELSE to,
                                   ![w].rows = S, ![w].valid = S]
    /\ UNCHANGED <<product, evidence, pipeline, orphans, troubles>>

PlanLinks(w) ==
    w \in Orchestrators /\ PlanRepair(w, "idle", "linking", "linked", {p \in Products : Linkable(p)})
PlanCopy(w) == PlanRepair(w, "linked", "copying", "seeding", {p \in Products : Copyable(p)})

\* Mutated form of Unchanged: only the row's own conditions are checked again.
UnchangedEnough(w) == TRUE

\* The snapshots of the rows are the planned ones.
Unchanged(w) == worker[w].rows \subseteq worker[w].valid

Linked(r) == [r EXCEPT !.url = "listing"]

\* apply_source_link_plan: all rows or none.
ApplyLinks(w) ==
    LET S == worker[w].rows IN
    /\ worker[w].pc = "linking"
    /\ \A p \in S : Linkable(p)
    /\ Unchanged(w)
    /\ product' = [p \in Products |-> IF p \in S THEN Linked(product[p]) ELSE product[p]]
    /\ worker' = Voided([worker EXCEPT ![w].pc = "linked", ![w].rows = {}, ![w].links = S], S)
    /\ pipeline' = Aged(pipeline, S)
    /\ UNCHANGED <<evidence, orphans, troubles>>

\* apply_description_repair_plan
ApplyCopy(w) ==
    LET S == worker[w].rows IN
    /\ worker[w].pc = "copying"
    /\ Unchanged(w)
    /\ product' = [p \in Products |->
          IF p \in S THEN [product[p] EXCEPT !.copy = "repaired"] ELSE product[p]]
    /\ \A p \in S : Allowed(p, product'[p])
    /\ worker' = Voided([worker EXCEPT ![w].pc = "seeding", ![w].rows = {}, ![w].copies = S], S)
    /\ pipeline' = Aged(pipeline, S)
    /\ UNCHANGED <<evidence, orphans, troubles>>

-----------------------------------------------------------------------------
(* The chain of the agents *)

\* _ready_products; the stored mark publication_candidate may be old.
Seedable(p) ==
    /\ product[p].url # "none" /\ product[p].price >= 1 /\ evidence[p].current
    /\ \A n \in Pipelines :
          pipeline[n].of = p => pipeline[n].publication \notin {"ready", "published"}

Root(p) == {n \in Pipelines : pipeline[n].of = p /\ pipeline[n].fresh}
Unused == {n \in Pipelines : pipeline[n].of = NoOne}

\* seed_ready_candidates takes the coordinator task of this write_date, and
\* queues it again if it had stopped there.
Reseeded(r, p) ==
    IF r.stage = 1 /\ r.state = "stopped" /\ Ready(p)
    THEN [r EXCEPT !.state = "queued"] ELSE r

SeedOne(p) ==
    IF Root(p) # {}
    THEN pipeline' = [n \in Pipelines |->
            IF n \in Root(p) THEN Reseeded(pipeline[n], p) ELSE pipeline[n]]
    ELSE \E n \in Unused :
            /\ \A m \in Unused : n <= m
            /\ pipeline' = [pipeline EXCEPT ![n] =
                  [NoPipeline EXCEPT !.of = p, !.stage = 1, !.fresh = TRUE]]

\* Products are seeded one at a time here, in any order and number.
Seed(w) ==
    /\ worker[w].pc = "seeding" \/ (w \in Publishers /\ worker[w].pc = "idle")
    /\ \E p \in Products : Seedable(p) /\ SeedOne(p)
    /\ worker' = [worker EXCEPT ![w].pc = "seeding"]
    /\ UNCHANGED <<product, evidence, orphans, troubles>>

\* claim_tasks for the agent of the first stage, then of each next one.
ClaimStage(w) ==
    LET stage == worker[w].stage
        S == {n \in Pipelines : pipeline[n].of # NoOne /\ pipeline[n].stage = stage
                                  /\ pipeline[n].state = "queued"} IN
    /\ \/ worker[w].pc = "seeding"
       \/ worker[w].pc = "idle" /\ w \in Publishers
       \/ worker[w].pc = "claiming"
    /\ pipeline' = [n \in Pipelines |->
          IF n \in S THEN [pipeline[n] EXCEPT !.state = "claimed"] ELSE pipeline[n]]
    /\ worker' = [worker EXCEPT ![w].tasks = S,
                                ![w].pc = IF S # {} THEN "recording"
                                          ELSE IF stage < Depth THEN "claiming" ELSE "preparing",
                                ![w].stage = IF S = {} THEN @ + 1 ELSE @]
    /\ UNCHANGED <<product, evidence, orphans, troubles>>

\* Mutated form of HandedOn: the last agent hands on as well.
HandedOnAlways(r) ==
    IF ~Ready(r.of) THEN [r EXCEPT !.state = "stopped"]
    ELSE [r EXCEPT !.stage = @ + 1, !.state = "queued"]

\* record_external_result with the decision that the stage expects: the task
\* completes if the product is still ready, and the next agent's is queued.
HandedOn(r) ==
    IF ~Ready(r.of) THEN [r EXCEPT !.state = "stopped"]
    ELSE IF r.stage < Depth THEN [r EXCEPT !.stage = @ + 1, !.state = "queued"]
    ELSE [r EXCEPT !.state = "completed", !.publication = "ready"]

\* The decision of the deterministic agent or of the model, which may also
\* block or fail the task.
Results(r) == {HandedOn(r), [r EXCEPT !.state = "stopped"]}

Record(w, n) ==
    LET rest == worker[w].tasks \ {n}
        stage == worker[w].stage IN
    /\ worker[w].pc = "recording" /\ n \in worker[w].tasks
    /\ IF pipeline[n].stage = stage /\ pipeline[n].state \in {"queued", "claimed"}
       THEN \E r \in Results(pipeline[n]) : pipeline' = [pipeline EXCEPT ![n] = r]
       ELSE UNCHANGED pipeline
    /\ worker' = [worker EXCEPT ![w].tasks = rest,
                                ![w].pc = IF rest # {} THEN @
                                          ELSE IF stage < Depth THEN "claiming" ELSE "preparing",
                                ![w].stage = IF rest = {} THEN @ + 1 ELSE @]
    /\ UNCHANGED <<product, evidence, orphans, troubles>>

-----------------------------------------------------------------------------
(* Publication, verification and rollback *)

Releasable(n) ==
    /\ pipeline[n].of # NoOne /\ pipeline[n].stage = Depth
    /\ pipeline[n].state = "completed" /\ pipeline[n].publication = "ready"

\* prepare_publication_plan: a task whose product is no longer ready is blocked,
\* though its publication stays ready.
Prepare(w) ==
    LET R == {n \in Pipelines : Releasable(n)}
        S == {n \in R : Ready(pipeline[n].of)} IN
    /\ worker[w].pc = "preparing"
    /\ pipeline' = [n \in Pipelines |->
          IF n \in R \ S THEN [pipeline[n] EXCEPT !.state = "stopped"]
          ELSE pipeline[n]]
    /\ worker' = [worker EXCEPT
          ![w] = IF S = {} /\ w \in Publishers THEN Idle
                 ELSE [@ EXCEPT !.pc = IF S = {} THEN "quoting" ELSE "publishing",
                                !.stage = 1,
                                !.plan = [n \in Pipelines |->
                                   IF n \in S THEN FactsOf(pipeline[n].of) ELSE NoFacts]]]
    /\ UNCHANGED <<product, evidence, orphans, troubles>>

\* Mutated form of Failing: the copy, then the links, then the publications.
FailingInOrder(r) ==
    IF r.copies # {} THEN [r EXCEPT !.pc = "undo_copy"]
    ELSE IF r.links # {} THEN [r EXCEPT !.pc = "undo_links"]
    ELSE IF r.released # {} THEN [r EXCEPT !.pc = "failed"]
    ELSE Idle

\* The handler of the publication part undoes what the run did: publications,
\* then copy, then links.
Failing(r) ==
    IF r.released # {} THEN [r EXCEPT !.pc = "failed"]
    ELSE IF r.copies # {} THEN [r EXCEPT !.pc = "undo_copy"]
    ELSE IF r.links # {} THEN [r EXCEPT !.pc = "undo_links"]
    ELSE Idle

Planned(w) == {n \in Pipelines : worker[w].plan[n] # NoFacts}

\* Mutated form of AsPlanned: the task and its product are not looked at again.
AsPlannedOnce(w, n) == FactsOf(pipeline[n].of) = worker[w].plan[n]

AsPlanned(w, n) ==
    /\ pipeline[n].publication = "ready" /\ Ready(pipeline[n].of)
    /\ FactsOf(pipeline[n].of) = worker[w].plan[n]

Shown(p) == [product[p] EXCEPT !.shown = TRUE]

\* publish_prepared_tasks: all tasks or none; two tasks of one product exclude
\* each other, as the second finds it published.  The reply may be lost.
Publish(w) ==
    LET S == Planned(w)
        written == {pipeline[n].of : n \in S} IN
    /\ worker[w].pc = "publishing"
    /\ \A n \in S : AsPlanned(w, n) /\ Allowed(pipeline[n].of, Shown(pipeline[n].of))
    /\ Cardinality(written) = Cardinality(S)
    /\ product' = [p \in Products |-> IF p \in written THEN Shown(p) ELSE product[p]]
    /\ pipeline' = Aged([n \in Pipelines |->
          IF n \in S THEN [pipeline[n] EXCEPT !.publication = "published"] ELSE pipeline[n]],
          written)
    /\ \/ /\ worker' = Voided([worker EXCEPT ![w].pc = "verifying", ![w].released = S,
                                            ![w].plan = Unplanned], written)
          /\ UNCHANGED <<orphans, troubles>>
       \/ /\ troubles < MaxTroubles /\ troubles' = troubles + 1
          /\ worker' = Voided([worker EXCEPT ![w] = Failing([@ EXCEPT !.plan = Unplanned])], written)
          /\ orphans' = orphans \cup S
    /\ UNCHANGED evidence

\* A task or product has changed, or the gate refuses one: nothing is written.
PublishRefused(w) ==
    /\ worker[w].pc = "publishing"
    /\ \/ \E n \in Planned(w) : \/ ~AsPlanned(w, n)
                                \/ ~Allowed(pipeline[n].of, Shown(pipeline[n].of))
       \/ \E n, m \in Planned(w) : n # m /\ pipeline[n].of = pipeline[m].of
    /\ worker' = [worker EXCEPT ![w] = Failing([@ EXCEPT !.plan = Unplanned])]
    /\ UNCHANGED <<product, evidence, pipeline, orphans, troubles>>

\* verify_public_pages: every page shows its product, or one does not.
VerifyPages(w) ==
    /\ worker[w].pc = "verifying"
    /\ \E next \in {[worker[w] EXCEPT !.pc = "confirming"], Failing(worker[w])} :
          worker' = [worker EXCEPT ![w] = next]
    /\ UNCHANGED <<product, evidence, pipeline, orphans, troubles>>

\* confirm_publications; the reply may be lost, and the script then rolls back.
Confirm(w) ==
    /\ worker[w].pc = "confirming"
    /\ \A n \in worker[w].released : pipeline[n].publication = "published"
    /\ pipeline' = [n \in Pipelines |->
          IF n \in worker[w].released THEN [pipeline[n] EXCEPT !.publication = "verified"]
          ELSE pipeline[n]]
    /\ \/ /\ worker' = [worker EXCEPT ![w] =
                IF w \in Publishers THEN Idle ELSE [@ EXCEPT !.pc = "quoting"]]
          /\ UNCHANGED troubles
       \/ /\ troubles < MaxTroubles /\ troubles' = troubles + 1
          /\ worker' = [worker EXCEPT ![w] = Failing(@)]
    /\ UNCHANGED <<product, evidence, orphans>>

\* The quote-only plan is empty or skipped, or it is refused: a product that is
\* quote only is what the publication gate forbids, so every plan is.
Quotes(w) ==
    /\ worker[w].pc = "quoting"
    /\ \E next \in {Idle, Failing(worker[w])} : worker' = [worker EXCEPT ![w] = next]
    /\ UNCHANGED <<product, evidence, pipeline, orphans, troubles>>

\* rollback_publications passes over a task that is not published, a verified one too.
Withdrawn(n) == pipeline[n].publication = "published"

UndoPublications(w) ==
    LET S == {n \in worker[w].released : Withdrawn(n)}
        written == {pipeline[n].of : n \in S} IN
    /\ worker[w].pc = "failed"
    /\ product' = [p \in Products |->
          IF p \in written THEN [product[p] EXCEPT !.shown = FALSE] ELSE product[p]]
    /\ pipeline' = Aged([n \in Pipelines |->
          IF n \in S THEN [pipeline[n] EXCEPT !.publication = "rolled_back", !.state = "stopped"]
          ELSE pipeline[n]], written)
    /\ worker' = Voided([worker EXCEPT ![w] =
          Failing([@ EXCEPT !.released = {}])], written)
    /\ UNCHANGED <<evidence, orphans, troubles>>

\* Mutated form of CopyStands: the copy is taken back whoever wrote it.
CopyStandsAnyway(w, p) == TRUE

CopyStands(w, p) == product[p].copy = "repaired"
LinkStands(w, p) == product[p].url = "listing"

\* rollback_description_repairs and rollback_source_links: all rows or none; a
\* refusal by them or by the gate ends the script.
UndoRows(w, from, S, standing, before, next) ==
    /\ worker[w].pc = from
    /\ IF standing /\ \A p \in S : Allowed(p, before[p])
       THEN /\ product' = [p \in Products |-> IF p \in S THEN before[p] ELSE product[p]]
            /\ worker' = Voided([worker EXCEPT ![w] = next], S)
            /\ pipeline' = Aged(pipeline, S)
       ELSE /\ worker' = [worker EXCEPT ![w] = Idle]
            /\ UNCHANGED <<product, pipeline>>
    /\ UNCHANGED <<evidence, orphans, troubles>>

UndoCopy(w) ==
    LET S == worker[w].copies IN
    UndoRows(w, "undo_copy", S, \A p \in S : CopyStands(w, p),
             [p \in Products |-> [product[p] EXCEPT !.copy = "unsafe"]],
             Failing([worker[w] EXCEPT !.copies = {}]))

UndoLinks(w) ==
    LET S == worker[w].links IN
    UndoRows(w, "undo_links", S, \A p \in S : LinkStands(w, p),
             [p \in Products |-> [product[p] EXCEPT !.url = "none"]], Idle)

\* The process is killed, or an RPC outside the handled part is refused.
Crash(w) ==
    /\ worker[w].pc # "idle"
    /\ troubles < MaxTroubles /\ troubles' = troubles + 1
    /\ orphans' = orphans \cup worker[w].released
    /\ worker' = [worker EXCEPT ![w] = Idle]
    /\ UNCHANGED <<product, evidence, pipeline>>

-----------------------------------------------------------------------------
(* People and the other workflows *)

Edited(p) ==
    LET r == product[p] IN
    {[r EXCEPT !.url = "staff"], [r EXCEPT !.copy = "staff"]}
       \cup {[r EXCEPT !.price = c] : c \in 0..2}
       \cup {[r EXCEPT !.shown = TRUE], [r EXCEPT !.shown = FALSE, !.hid = TRUE]}

EditProduct(p) ==
    /\ \E r \in Edited(p) \ {product[p]} :
          Allowed(p, r) /\ product' = [product EXCEPT ![p] = r]
    /\ pipeline' = Aged(pipeline, {p})
    /\ worker' = Voided(worker, {p})
    /\ UNCHANGED evidence

\* A sweep or a cost rollback changes what the discovery item shows.
EvidenceChanges(p) ==
    /\ \E f \in {"current", "costed"} : evidence' = [evidence EXCEPT ![p][f] = ~@]
    /\ UNCHANGED <<product, pipeline, worker>>

\* action_cancel
Cancel(n) ==
    /\ pipeline[n].of # NoOne /\ pipeline[n].state \in {"queued", "claimed"}
    /\ pipeline' = [pipeline EXCEPT ![n].state = "stopped"]
    /\ UNCHANGED <<product, evidence, worker>>

Others ==
    /\ troubles < MaxTroubles /\ troubles' = troubles + 1
    /\ \/ \E p \in Products : EditProduct(p) \/ EvidenceChanges(p)
       \/ \E n \in Pipelines : Cancel(n)
    /\ UNCHANGED orphans

-----------------------------------------------------------------------------
Step(w) ==
    \/ PlanLinks(w) \/ ApplyLinks(w) \/ PlanCopy(w) \/ ApplyCopy(w)
    \/ Seed(w) \/ ClaimStage(w) \/ \E n \in Pipelines : Record(w, n)
    \/ Prepare(w) \/ Publish(w) \/ PublishRefused(w) \/ VerifyPages(w) \/ Confirm(w)
    \/ Quotes(w) \/ UndoPublications(w) \/ UndoCopy(w) \/ UndoLinks(w)
    \/ Crash(w)

Next == Others \/ \E w \in Workers : Step(w)

Spec == Init /\ [][Next]_vars

-----------------------------------------------------------------------------
\* The state is well formed.
TypeOK ==
    /\ product \in [Products -> ProductRow]
    /\ evidence \in [Products -> EvidenceRow]
    /\ pipeline \in [Pipelines -> PipelineRow]
    /\ worker \in [Workers -> WorkerRow]
    /\ orphans \subseteq Pipelines /\ troubles \in 0..MaxTroubles

\* No step of the automation replaces a URL, an image or a description that a
\* person has set, neither a repair nor a rollback that comes late
\* (docs/SPAREX_CATALOG_DISCOVERY.md: repairs never overwrite a valid value).
RepairKeepsStaff ==
    [][troubles' = troubles => \A p \in Products, f \in {"url", "copy"} :
          product[p][f] = "staff" => product'[p][f] = "staff"]_vars

\* What one process has released, another does not hide: a product with a
\* published or verified release is shown unless a person hid it, and has one
\* unconfirmed release at most.
ReleaseIsShown ==
    \A n \in Pipelines :
       pipeline[n].publication \in {"published", "verified"} /\ ~product[pipeline[n].of].hid =>
          /\ product[pipeline[n].of].shown
          /\ \A m \in Pipelines \ {n} :
                pipeline[m].of = pipeline[n].of => pipeline[m].publication # "published"

\* What the release of products promises the website, whatever the scripts do
\* to each other, are refused or leave behind when they are killed: products
\* come and go with their publications, all of one batch at once, and a release
\* that is verified is not taken back by a reply that was lost.
Target      == [n \in Pipelines |-> pipeline[n].of]
Publication == [n \in Pipelines |-> pipeline[n].publication]
OnSite      == {p \in Products : product[p].shown}
HiddenOnce  == {p \in Products : product[p].hid}

Contract == INSTANCE ReleaseContract
    WITH Releases <- Pipelines, of <- Target, stage <- Publication,
         shown <- OnSite, hidden <- HiddenOnce

KeepsContract == Contract!Spec

\* A product on the website keeps its source, image, copy and verified price,
\* whichever process takes its repairs back meanwhile.
ShownIsComplete ==
    \A p \in Products : product[p].shown =>
       Sourced(product[p]) /\ product[p].copy # "unsafe" /\ product[p].price >= 2

\* A publication that is neither verified nor rolled back is in the hands of a
\* process that will do one of them, whatever refusals its run meets, unless
\* the process was killed or never heard of it.
PublicationIsHeld ==
    \A n \in Pipelines : pipeline[n].publication = "published" =>
       \/ n \in orphans
       \/ \E w \in Workers : n \in worker[w].released
                            /\ worker[w].pc \in {"verifying", "confirming", "failed"}
=============================================================================
