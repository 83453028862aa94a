------------------------- MODULE CatalogRelease_proofs -------------------------
(***************************************************************************)
(* Proofs about CatalogRelease, for every number of products, processes,   *)
(* pipelines and agents and every number of troubles.                      *)
(***************************************************************************)
EXTENDS CatalogRelease, FiniteSetTheorems, TLAPS

-----------------------------------------------------------------------------
(* The operators that every step is built from.                            *)

(* Voiding plans takes products from the valid rows, and changes no other  *)
(* part of a process.                                                      *)
LEMMA VoidedRows ==
  ASSUME NEW W \in [Workers -> WorkerRow], NEW S
  PROVE  /\ Voided(W, S) \in [Workers -> WorkerRow]
         /\ \A w \in Workers :
              /\ Voided(W, S)[w].pc = W[w].pc
              /\ Voided(W, S)[w].stage = W[w].stage
              /\ Voided(W, S)[w].rows = W[w].rows
              /\ Voided(W, S)[w].valid = W[w].valid \ S
              /\ Voided(W, S)[w].tasks = W[w].tasks
              /\ Voided(W, S)[w].released = W[w].released
  BY SMTT(30) DEF Voided, WorkerRow

(* Aging keys changes no other part of a pipeline.                         *)
LEMMA AgedRows ==
  ASSUME NEW P \in [Pipelines -> PipelineRow], NEW S
  PROVE  /\ Aged(P, S) \in [Pipelines -> PipelineRow]
         /\ \A n \in Pipelines :
              /\ Aged(P, S)[n].of = P[n].of
              /\ Aged(P, S)[n].publication = P[n].publication
              /\ Aged(P, S)[n].stage = P[n].stage
              /\ Aged(P, S)[n].state = P[n].state
  BY DEF Aged, PipelineRow

(* A process that has not begun.                                           *)
LEMMA IdleRow ==
  /\ Idle \in WorkerRow /\ Unplanned \in [Pipelines -> Facts]
  /\ Idle.pc = "idle" /\ Idle.stage = 1 /\ Idle.tasks = {} /\ Idle.released = {}
  <1>1. Unplanned \in [Pipelines -> Facts]
    BY DEF Unplanned, Facts
  <1>. QED
    BY <1>1, ReleaseConstants DEF Idle, WorkerRow

(* A pipeline that is not used.                                            *)
LEMMA EmptyPipeline == NoPipeline \in PipelineRow
  BY ReleaseConstants DEF NoPipeline, PipelineRow

(* A process that fails goes on with its undoing, publications first.      *)
LEMMA FailingRow ==
  ASSUME NEW r \in WorkerRow
  PROVE  /\ Failing(r) \in WorkerRow
         /\ Failing(r).pc \in {"idle", "failed", "undo_copy", "undo_links"}
         /\ r.stage <= Depth => Failing(r).stage <= Depth
         /\ Failing(r).tasks \subseteq r.tasks
         /\ r.released # {} => Failing(r).pc = "failed" /\ Failing(r).released = r.released
  <1>1. CASE Failing(r) = Idle
    BY <1>1, IdleRow, ReleaseConstants DEF Failing, Idle, WorkerRow
  <1>2. CASE \E x \in {"failed", "undo_copy", "undo_links"} : Failing(r) = [r EXCEPT !.pc = x]
    BY <1>2, IdleRow DEF Failing, WorkerRow
  <1>. QED
    BY <1>1, <1>2 DEF Failing

-----------------------------------------------------------------------------
(* Well-formedness: types, and what keeps the chain of the agents within   *)
(* the stages and the pipelines in use.                                    *)

Used == {n \in Pipelines : pipeline[n].of # NoOne}

Chained ==
  /\ \A n \in Pipelines : pipeline[n].publication # "not_applicable" => n \in Used
  /\ \A w \in Workers : /\ worker[w].tasks \subseteq Used
                        /\ worker[w].pc # "preparing" => worker[w].stage <= Depth

WellFormed == TypeOK /\ Chained

(* A step that changes one process, voids plans of others and keeps what   *)
(* pipelines are of keeps the chain.                                       *)
LEMMA ChainedKept ==
  ASSUME WellFormed, TypeOK',
         \A n \in Pipelines : /\ pipeline[n].of # NoOne => pipeline'[n].of = pipeline[n].of
                              /\ \/ pipeline'[n].publication = pipeline[n].publication
                                 \/ pipeline'[n].publication = "not_applicable"
                                 \/ n \in Used,
         \A w \in Workers : /\ worker'[w].tasks \subseteq Used
                            /\ worker'[w].pc # "preparing" => worker'[w].stage <= Depth
  PROVE  WellFormed'
  <1>1. Used \subseteq Used'
    BY DEF Used
  <1>. QED
    BY <1>1 DEF WellFormed, Chained

(* A process that moves on to another row; plans of products that are      *)
(* written meanwhile are void.                                             *)
LEMMA OneMoves ==
  ASSUME WellFormed, NEW w \in Workers, NEW r \in WorkerRow, NEW S,
         r.tasks \subseteq Used, r.pc # "preparing" => r.stage <= Depth,
         worker' \in {[worker EXCEPT ![w] = r], Voided([worker EXCEPT ![w] = r], S)}
  PROVE  /\ worker' \in [Workers -> WorkerRow]
         /\ worker'[w].pc = r.pc /\ worker'[w].released = r.released
         /\ \A v \in Workers : /\ worker'[v].tasks \subseteq Used
                               /\ worker'[v].pc # "preparing" => worker'[v].stage <= Depth
  <1>. DEFINE W == [worker EXCEPT ![w] = r]
  <1>1. /\ W \in [Workers -> WorkerRow]
        /\ \A v \in Workers : W[v] = IF v = w THEN r ELSE worker[v]
    BY DEF WellFormed, TypeOK
  <1>. HIDE DEF W
  <1>2. \A v \in Workers : /\ W[v].tasks \subseteq Used
                           /\ W[v].pc # "preparing" => W[v].stage <= Depth
    BY <1>1 DEF WellFormed, Chained
  <1>3. worker' = W \/ worker' = Voided(W, S)
    BY DEF W
  <1>. QED
    BY <1>1, <1>2, <1>3, VoidedRows

(* The initial states are well formed.                                     *)
LEMMA WellFormedInitially == Init => WellFormed
  <1>. SUFFICES ASSUME Init PROVE WellFormed
    OBVIOUS
  <1>1. TypeOK
    <2>1. product \in [Products -> ProductRow]
      <3>1. ASSUME NEW r \in [url : {"none", "staff"}, copy : {"unsafe"}, price : {2},
                              shown : {FALSE}, hid : {FALSE}]
            PROVE  r \in ProductRow
        <4>1. /\ r = [url |-> r.url, copy |-> r.copy, price |-> r.price, shown |-> r.shown,
                      hid |-> r.hid]
              /\ r.url \in Origin /\ r.copy = "unsafe" /\ r.price = 2
              /\ r.shown = FALSE /\ r.hid = FALSE
          BY DEF Origin
        <4>2. 2 \in 0..2 /\ FALSE \in BOOLEAN
          OBVIOUS
        <4>. QED
          BY <4>1, <4>2, Zenon DEF ProductRow
      <3>. QED
        BY <3>1 DEF Init
    <2>. QED
      BY <2>1, EmptyPipeline, IdleRow, ReleaseConstants DEF Init, TypeOK, EvidenceRow
  <1>2. Chained
    BY IdleRow, ReleaseConstants DEF Init, Chained, NoPipeline
  <1>. QED
    BY <1>1, <1>2 DEF WellFormed

(* A step of one process keeps the state well formed: it changes types of  *)
(* nothing, and publishes pipelines in use only.                           *)
LEMMA StepWF ==
  ASSUME WellFormed, NEW w \in Workers, NEW r \in WorkerRow, NEW S,
         r.tasks \subseteq Used, r.pc # "preparing" => r.stage <= Depth,
         worker' \in {[worker EXCEPT ![w] = r], Voided([worker EXCEPT ![w] = r], S)},
         product' \in [Products -> ProductRow], pipeline' \in [Pipelines -> PipelineRow],
         \A n \in Pipelines : /\ pipeline[n].of # NoOne => pipeline'[n].of = pipeline[n].of
                              /\ \/ pipeline'[n].publication = pipeline[n].publication
                                 \/ n \in Used,
         UNCHANGED evidence, orphans' \subseteq Pipelines, troubles' \in 0..MaxTroubles
  PROVE  WellFormed' /\ worker'[w].pc = r.pc /\ worker'[w].released = r.released
  <1>1. /\ worker' \in [Workers -> WorkerRow]
        /\ worker'[w].pc = r.pc /\ worker'[w].released = r.released
        /\ \A v \in Workers : /\ worker'[v].tasks \subseteq Used
                              /\ worker'[v].pc # "preparing" => worker'[v].stage <= Depth
    BY OneMoves
  <1>2. TypeOK'
    BY <1>1 DEF WellFormed, TypeOK
  <1>. QED
    BY <1>1, <1>2, ChainedKept

(* A repair that is planned.                                               *)
LEMMA PlanRepairWF ==
  ASSUME WellFormed, NEW w \in Workers, NEW from, from # "preparing",
         NEW to \in {"linking", "copying"}, NEW skip \in {"linked", "seeding"},
         NEW eligible \in SUBSET Products,
         PlanRepair(w, from, to, skip, eligible)
  PROVE  WellFormed'
  <1>1. PICK S \in SUBSET eligible :
          worker' = [worker EXCEPT ![w].pc = IF S = {} THEN skip ELSE to,
                                   ![w].rows = S, ![w].valid = S]
    BY DEF PlanRepair
  <1>. DEFINE r == [worker[w] EXCEPT !.pc = IF S = {} THEN skip ELSE to,
                                     !.rows = S, !.valid = S]
  <1>2. worker[w] \in WorkerRow /\ worker' = [worker EXCEPT ![w] = r]
    BY <1>1 DEF WellFormed, TypeOK
  <1>3. /\ r \in WorkerRow /\ r.tasks = worker[w].tasks /\ r.stage = worker[w].stage
        /\ worker[w].pc # "preparing"
    BY <1>2 DEF WorkerRow, PlanRepair
  <1>. HIDE DEF r
  <1>4. worker' \in {[worker EXCEPT ![w] = r], Voided([worker EXCEPT ![w] = r], {})}
    BY <1>2
  <1>5. r.tasks \subseteq Used /\ r.stage <= Depth
    BY <1>3 DEF WellFormed, Chained
  <1>. QED
    BY <1>3, <1>4, <1>5, StepWF DEF PlanRepair, WellFormed, TypeOK

(* Applying the planned links.                                             *)
LEMMA ApplyLinksWF ==
  ASSUME WellFormed, NEW w \in Workers, ApplyLinks(w)
  PROVE  WellFormed' /\ worker'[w].pc = "linked"
  <1>. DEFINE S == worker[w].rows
              r == [worker[w] EXCEPT !.pc = "linked", !.rows = {}, !.links = S]
  <1>1. worker[w] \in WorkerRow /\ worker' = Voided([worker EXCEPT ![w] = r], S)
    BY DEF WellFormed, TypeOK, ApplyLinks
  <1>2. /\ r \in WorkerRow /\ r.tasks = worker[w].tasks /\ r.stage = worker[w].stage
        /\ worker[w].pc = "linking" /\ r.pc = "linked"
    BY <1>1 DEF WorkerRow, ApplyLinks
  <1>3. r.tasks \subseteq Used /\ r.stage <= Depth
    BY <1>2 DEF WellFormed, Chained
  <1>4. product' \in [Products -> ProductRow]
    BY DEF ApplyLinks, WellFormed, TypeOK, Linked, ProductRow, Origin
  <1>. HIDE DEF r
  <1>5. /\ pipeline' \in [Pipelines -> PipelineRow]
        /\ \A n \in Pipelines : /\ pipeline'[n].of = pipeline[n].of
                                /\ pipeline'[n].publication = pipeline[n].publication
    BY AgedRows DEF ApplyLinks, WellFormed, TypeOK
  <1>6. worker' \in {[worker EXCEPT ![w] = r], Voided([worker EXCEPT ![w] = r], S)}
    BY <1>1
  <1>7. WellFormed' /\ worker'[w].pc = r.pc
    <2>1. UNCHANGED evidence /\ orphans' \subseteq Pipelines /\ troubles' \in 0..MaxTroubles
      BY DEF ApplyLinks, WellFormed, TypeOK
    <2>2. \A n \in Pipelines :
             /\ pipeline[n].of # NoOne => pipeline'[n].of = pipeline[n].of
             /\ pipeline'[n].publication = pipeline[n].publication \/ n \in Used
      BY <1>5
    <2>. HIDE DEF S
    <2>. QED
      BY <1>2, <1>3, <1>4, <1>5, <1>6, <2>1, <2>2, StepWF
  <1>. QED
    BY <1>2, <1>7

(* Applying the planned copy.                                              *)
LEMMA ApplyCopyWF ==
  ASSUME WellFormed, NEW w \in Workers, ApplyCopy(w)
  PROVE  WellFormed' /\ worker'[w].pc = "seeding"
  <1>. DEFINE S == worker[w].rows
              r == [worker[w] EXCEPT !.pc = "seeding", !.rows = {}, !.copies = S]
  <1>1. worker[w] \in WorkerRow /\ worker' = Voided([worker EXCEPT ![w] = r], S)
    BY DEF WellFormed, TypeOK, ApplyCopy
  <1>2. /\ r \in WorkerRow /\ r.tasks = worker[w].tasks /\ r.stage = worker[w].stage
        /\ worker[w].pc = "copying" /\ r.pc = "seeding"
    BY <1>1 DEF WorkerRow, ApplyCopy
  <1>3. r.tasks \subseteq Used /\ r.stage <= Depth
    BY <1>2 DEF WellFormed, Chained
  <1>4. product' \in [Products -> ProductRow]
    BY DEF ApplyCopy, WellFormed, TypeOK, ProductRow
  <1>. HIDE DEF r
  <1>5. /\ pipeline' \in [Pipelines -> PipelineRow]
        /\ \A n \in Pipelines : /\ pipeline'[n].of = pipeline[n].of
                                /\ pipeline'[n].publication = pipeline[n].publication
    BY AgedRows DEF ApplyCopy, WellFormed, TypeOK
  <1>6. worker' \in {[worker EXCEPT ![w] = r], Voided([worker EXCEPT ![w] = r], S)}
    BY <1>1
  <1>7. WellFormed' /\ worker'[w].pc = r.pc
    <2>1. UNCHANGED evidence /\ orphans' \subseteq Pipelines /\ troubles' \in 0..MaxTroubles
      BY DEF ApplyCopy, WellFormed, TypeOK
    <2>2. \A n \in Pipelines :
             /\ pipeline[n].of # NoOne => pipeline'[n].of = pipeline[n].of
             /\ pipeline'[n].publication = pipeline[n].publication \/ n \in Used
      BY <1>5
    <2>. HIDE DEF S
    <2>. QED
      BY <1>2, <1>3, <1>4, <1>5, <1>6, <2>1, <2>2, StepWF
  <1>. QED
    BY <1>2, <1>7

(* Seeding a product: its own root task, or an unused record.              *)
LEMMA SeedWF == ASSUME WellFormed, NEW w \in Workers, Seed(w) PROVE WellFormed'
  <1>. DEFINE r == [worker[w] EXCEPT !.pc = "seeding"]
  <1>1. worker[w] \in WorkerRow /\ worker' = [worker EXCEPT ![w] = r]
    BY DEF WellFormed, TypeOK, Seed
  <1>2. /\ r \in WorkerRow /\ r.tasks = worker[w].tasks /\ r.stage = worker[w].stage
        /\ worker[w].pc # "preparing"
    BY <1>1 DEF WorkerRow, Seed
  <1>3. r.tasks \subseteq Used /\ r.stage <= Depth
    BY <1>2 DEF WellFormed, Chained
  <1>4. worker' \in {[worker EXCEPT ![w] = r], Voided([worker EXCEPT ![w] = r], {})}
    BY <1>1
  <1>5. PICK p \in Products : SeedOne(p)
    BY DEF Seed
  <1>6. CASE /\ Root(p) # {}
             /\ pipeline' = [n \in Pipelines |->
                   IF n \in Root(p) THEN Reseeded(pipeline[n], p) ELSE pipeline[n]]
    <2>1. \A q \in PipelineRow : /\ Reseeded(q, p) \in PipelineRow
                                 /\ Reseeded(q, p).of = q.of
                                 /\ Reseeded(q, p).publication = q.publication
      BY DEF Reseeded, PipelineRow
    <2>2. /\ pipeline' \in [Pipelines -> PipelineRow]
          /\ \A n \in Pipelines : /\ pipeline'[n].of = pipeline[n].of
                                  /\ pipeline'[n].publication = pipeline[n].publication
      BY <1>6, <2>1 DEF WellFormed, TypeOK
    <2>. HIDE DEF r
    <2>. QED
      BY <1>2, <1>3, <1>4, <2>2, StepWF DEF Seed, WellFormed, TypeOK
  <1>7. ASSUME NEW n \in Unused,
               pipeline' = [pipeline EXCEPT ![n] =
                 [NoPipeline EXCEPT !.of = p, !.stage = 1, !.fresh = TRUE]]
        PROVE  WellFormed'
    <2>. DEFINE q == [NoPipeline EXCEPT !.of = p, !.stage = 1, !.fresh = TRUE]
    <2>1. q \in PipelineRow /\ q.publication = "not_applicable"
      <3>1. \A x \in PipelineRow, s \in 0..Depth, b \in BOOLEAN :
              LET y == [x EXCEPT !.of = p, !.stage = s, !.fresh = b]
              IN  y \in PipelineRow /\ y.publication = x.publication
        BY <1>5 DEF PipelineRow
      <3>2. 1 \in 0..Depth
        BY ReleaseConstants
      <3>3. NoPipeline.publication = "not_applicable"
        BY DEF NoPipeline
      <3>. QED
        BY <3>1, <3>2, <3>3, EmptyPipeline
    <2>2. n \in Pipelines /\ pipeline[n].of = NoOne /\ pipeline[n].publication = "not_applicable"
      BY DEF Unused, Used, WellFormed, Chained
    <2>. HIDE DEF q
    <2>3. /\ pipeline' \in [Pipelines -> PipelineRow]
          /\ \A m \in Pipelines : /\ pipeline[m].of # NoOne => pipeline'[m].of = pipeline[m].of
                                  /\ pipeline'[m].publication = pipeline[m].publication
      BY <1>7, <2>1, <2>2 DEF WellFormed, TypeOK, q
    <2>. HIDE DEF r
    <2>. QED
      BY <1>2, <1>3, <1>4, <2>3, StepWF DEF Seed, WellFormed, TypeOK
  <1>. QED
    BY <1>5, <1>6, <1>7 DEF SeedOne

(* A process that goes on with the tasks S of its stage, or to the next    *)
(* stage if there are none.                                                *)
NextStage(w, S, next) ==
  [worker[w] EXCEPT !.tasks = S, !.pc = next,
                    !.stage = IF S = {} THEN @ + 1 ELSE @]

(* Such a process is well formed.                                          *)
LEMMA NextStageRow ==
  ASSUME WellFormed, NEW w \in Workers, worker[w].pc # "preparing", NEW S \in SUBSET Used,
         NEW next \in {"recording", "claiming", "preparing"},
         next # "preparing" => S # {} \/ worker[w].stage < Depth
  PROVE  /\ NextStage(w, S, next) \in WorkerRow
         /\ NextStage(w, S, next).tasks \subseteq Used
         /\ NextStage(w, S, next).pc # "preparing" => NextStage(w, S, next).stage <= Depth
  <1>. DEFINE r == NextStage(w, S, next)
              s == IF S = {} THEN worker[w].stage + 1 ELSE worker[w].stage
  <1>1. worker[w] \in WorkerRow /\ worker[w].stage <= Depth
    BY DEF WellFormed, TypeOK, Chained
  <1>2. worker[w].stage \in 1..(Depth + 1) /\ Depth \in Nat
    BY <1>1, ReleaseConstants DEF WorkerRow
  <1>3. s \in 1..(Depth + 1) /\ (next # "preparing" => s <= Depth)
    BY <1>1, <1>2
  <1>. HIDE DEF s
  <1>4. r = [worker[w] EXCEPT !.tasks = S, !.pc = next, !.stage = s]
    BY DEF NextStage, s
  <1>5. r \in WorkerRow /\ r.tasks = S /\ r.pc = next /\ r.stage = s
    BY <1>1, <1>3, <1>4 DEF WorkerRow, Used
  <1>. QED
    BY <1>3, <1>5

(* Claiming the tasks of a stage.                                          *)
LEMMA ClaimStageWF == ASSUME WellFormed, NEW w \in Workers, ClaimStage(w) PROVE WellFormed'
  <1>. DEFINE S == {n \in Pipelines : pipeline[n].of # NoOne
                       /\ pipeline[n].stage = worker[w].stage /\ pipeline[n].state = "queued"}
              next == IF S # {} THEN "recording"
                      ELSE IF worker[w].stage < Depth THEN "claiming" ELSE "preparing"
  <1>1. worker' = [worker EXCEPT ![w] = NextStage(w, S, next)]
    BY DEF ClaimStage, NextStage, WellFormed, TypeOK
  <1>2. worker[w].pc # "preparing" /\ S \in SUBSET Used
    BY DEF ClaimStage, Used
  <1>3. /\ NextStage(w, S, next) \in WorkerRow
        /\ NextStage(w, S, next).tasks \subseteq Used
        /\ NextStage(w, S, next).pc # "preparing" => NextStage(w, S, next).stage <= Depth
    BY <1>2, NextStageRow
  <1>4. /\ pipeline' \in [Pipelines -> PipelineRow]
        /\ \A n \in Pipelines : /\ pipeline'[n].of = pipeline[n].of
                                /\ pipeline'[n].publication = pipeline[n].publication
    BY ZenonT(60) DEF ClaimStage, WellFormed, TypeOK, PipelineRow
  <1>. HIDE DEF S, next
  <1>5. worker' \in {[worker EXCEPT ![w] = NextStage(w, S, next)],
                     Voided([worker EXCEPT ![w] = NextStage(w, S, next)], {})}
    BY <1>1
  <1>. QED
    BY <1>3, <1>4, <1>5, StepWF DEF ClaimStage, WellFormed, TypeOK

(* The result of a task keeps its pipeline well formed.                    *)
LEMMA ResultRow ==
  ASSUME NEW q \in PipelineRow, NEW r \in Results(q)
  PROVE  r \in PipelineRow /\ r.of = q.of
  <1>1. CASE r = [q EXCEPT !.state = "stopped"]
    BY <1>1 DEF PipelineRow
  <1>2. CASE q.stage < Depth /\ r = [q EXCEPT !.stage = @ + 1, !.state = "queued"]
    <2>1. q.stage + 1 \in 0..Depth
      BY <1>2, ReleaseConstants DEF PipelineRow
    <2>. QED
      BY <1>2, <2>1 DEF PipelineRow
  <1>3. CASE r = [q EXCEPT !.state = "completed", !.publication = "ready"]
    BY <1>3 DEF PipelineRow
  <1>. QED
    BY <1>1, <1>2, <1>3 DEF Results, HandedOn

(* Recording the result of a task.                                         *)
LEMMA RecordWF ==
  ASSUME WellFormed, NEW w \in Workers, NEW n \in Pipelines, Record(w, n)
  PROVE  WellFormed'
  <1>. DEFINE rest == worker[w].tasks \ {n}
              next == IF rest # {} THEN worker[w].pc
                      ELSE IF worker[w].stage < Depth THEN "claiming" ELSE "preparing"
  <1>1. worker' = [worker EXCEPT ![w] = NextStage(w, rest, next)]
    BY DEF Record, NextStage, WellFormed, TypeOK
  <1>2. worker[w].pc = "recording" /\ rest \in SUBSET Used /\ n \in Used
    BY DEF Record, WellFormed, Chained
  <1>3. /\ NextStage(w, rest, next) \in WorkerRow
        /\ NextStage(w, rest, next).tasks \subseteq Used
        /\ NextStage(w, rest, next).pc # "preparing" => NextStage(w, rest, next).stage <= Depth
    BY <1>2, NextStageRow
  <1>4. /\ pipeline' \in [Pipelines -> PipelineRow]
        /\ \A m \in Pipelines : /\ pipeline'[m].of = pipeline[m].of
                                /\ m # n => pipeline'[m].publication = pipeline[m].publication
    <2>1. UNCHANGED pipeline
             \/ \E r \in Results(pipeline[n]) : pipeline' = [pipeline EXCEPT ![n] = r]
      BY DEF Record
    <2>. QED
      BY <2>1, ResultRow DEF WellFormed, TypeOK
  <1>. HIDE DEF rest, next
  <1>6. \A m \in Pipelines : pipeline'[m].publication = pipeline[m].publication \/ m \in Used
    BY <1>2, <1>4
  <1>5. worker' \in {[worker EXCEPT ![w] = NextStage(w, rest, next)],
                     Voided([worker EXCEPT ![w] = NextStage(w, rest, next)], {})}
    BY <1>1
  <1>. QED
    BY <1>3, <1>4, <1>5, <1>6, StepWF DEF Record, WellFormed, TypeOK

(* A process that starts again at the first stage with a plan.             *)
PlannedTo(w, F, next) == [worker[w] EXCEPT !.pc = next, !.stage = 1, !.plan = F]

(* It is well formed.                                                      *)
LEMMA PlannedRow ==
  ASSUME WellFormed, NEW w \in Workers, NEW F \in [Pipelines -> Facts],
         NEW next \in {"quoting", "publishing"}
  PROVE  /\ PlannedTo(w, F, next) \in WorkerRow
         /\ PlannedTo(w, F, next).tasks = worker[w].tasks
         /\ PlannedTo(w, F, next).stage = 1
  <1>1. worker[w] \in WorkerRow
    BY DEF WellFormed, TypeOK
  <1>2. 1 \in 1..(Depth + 1)
    BY ReleaseConstants
  <1>. QED
    BY <1>1, <1>2 DEF PlannedTo, WorkerRow

(* Preparing a plan of publication.                                        *)
LEMMA PrepareWF == ASSUME WellFormed, NEW w \in Workers, Prepare(w) PROVE WellFormed'
  <1>. DEFINE S == {n \in {m \in Pipelines : Releasable(m)} : Ready(pipeline[n].of)}
              plan == [n \in Pipelines |->
                         IF n \in S THEN FactsOf(pipeline[n].of) ELSE NoFacts]
              next == IF S = {} THEN "quoting" ELSE "publishing"
              moved == PlannedTo(w, plan, next)
              r == IF S = {} /\ w \in Publishers THEN Idle ELSE moved
  <1>1. worker[w] \in WorkerRow /\ worker[w].tasks \subseteq Used
    BY DEF WellFormed, TypeOK, Chained
  <1>2. plan \in [Pipelines -> Facts]
    <2>1. ASSUME NEW n \in S PROVE FactsOf(pipeline[n].of) \in Facts
      <3>1. pipeline[n].of \in Products
        BY DEF Releasable, WellFormed, TypeOK, PipelineRow
      <3>2. product[pipeline[n].of] \in ProductRow
        BY <3>1 DEF WellFormed, TypeOK
      <3>. QED
        BY <3>2 DEF FactsOf, Facts, ProductRow
    <2>. QED
      BY <2>1 DEF Facts
  <1>. HIDE DEF S, plan
  <1>3. moved \in WorkerRow /\ moved.tasks = worker[w].tasks /\ moved.stage = 1
    BY <1>2, PlannedRow
  <1>4. worker' = [worker EXCEPT ![w] = r]
    BY DEF Prepare, S, plan, PlannedTo
  <1>. HIDE DEF next, moved
  <1>5. r \in WorkerRow /\ r.tasks \subseteq Used /\ r.stage <= Depth
    BY <1>1, <1>3, IdleRow, ReleaseConstants
  <1>6. /\ pipeline' \in [Pipelines -> PipelineRow]
        /\ \A n \in Pipelines : /\ pipeline'[n].of = pipeline[n].of
                                /\ pipeline'[n].publication = pipeline[n].publication
    BY DEF Prepare, WellFormed, TypeOK, PipelineRow
  <1>. HIDE DEF r
  <1>7. worker' \in {[worker EXCEPT ![w] = r], Voided([worker EXCEPT ![w] = r], {})}
    BY <1>4
  <1>. QED
    BY <1>5, <1>6, <1>7, StepWF DEF Prepare, WellFormed, TypeOK

(* A pipeline that is published, verified or rolled back.                  *)
LEMMA WrittenPipelines ==
  ASSUME WellFormed, NEW P \in [Pipelines -> PipelineRow], NEW S,
         \A n \in Pipelines :
            P[n].of = pipeline[n].of
              /\ (P[n].publication = pipeline[n].publication \/ n \in Used),
         pipeline' = Aged(P, S)
  PROVE  /\ pipeline' \in [Pipelines -> PipelineRow]
         /\ \A n \in Pipelines :
              /\ pipeline'[n].of = pipeline[n].of
              /\ pipeline'[n].publication = pipeline[n].publication \/ n \in Used
  BY AgedRows

(* Publishing.                                                             *)
LEMMA PublishWF ==
  ASSUME WellFormed, NEW w \in Workers, Publish(w)
  PROVE  /\ WellFormed'
         /\ \/ /\ worker'[w].pc = "verifying" /\ worker'[w].released = Planned(w)
               /\ orphans' = orphans
            \/ /\ worker'[w].pc \in {"idle", "failed", "undo_copy", "undo_links"}
               /\ orphans' = orphans \cup Planned(w)
  <1>. DEFINE S == Planned(w)
              written == {pipeline[n].of : n \in S}
              P == [n \in Pipelines |->
                      IF n \in S THEN [pipeline[n] EXCEPT !.publication = "published"]
                      ELSE pipeline[n]]
              told == [worker[w] EXCEPT !.pc = "verifying", !.released = S, !.plan = Unplanned]
              lost == Failing([worker[w] EXCEPT !.plan = Unplanned])
  <1>1. /\ worker[w] \in WorkerRow /\ worker[w].tasks \subseteq Used
        /\ worker[w].pc = "publishing" /\ worker[w].stage <= Depth
    BY DEF WellFormed, TypeOK, Chained, Publish
  <1>2. S \in SUBSET Used /\ S \in SUBSET Pipelines
    BY DEF Publish, AsPlanned, Planned, WellFormed, Chained
  <1>3. product' \in [Products -> ProductRow]
    BY ZenonT(60) DEF Publish, Shown, WellFormed, TypeOK, ProductRow
  <1>4. /\ pipeline' \in [Pipelines -> PipelineRow]
        /\ \A n \in Pipelines :
             /\ pipeline'[n].of = pipeline[n].of
             /\ pipeline'[n].publication = pipeline[n].publication \/ n \in Used
    <2>1. P \in [Pipelines -> PipelineRow]
      BY DEF WellFormed, TypeOK, PipelineRow
    <2>2. \A n \in Pipelines :
             P[n].of = pipeline[n].of
               /\ (P[n].publication = pipeline[n].publication \/ n \in Used)
      BY <1>2 DEF WellFormed, TypeOK, PipelineRow
    <2>3. pipeline' = Aged(P, written)
      BY DEF Publish
    <2>. HIDE DEF P
    <2>. QED
      BY <2>1, <2>2, <2>3, WrittenPipelines
  <1>5. /\ told \in WorkerRow /\ told.tasks = worker[w].tasks /\ told.stage = worker[w].stage
        /\ told.pc = "verifying" /\ told.released = S
    BY <1>1, <1>2, IdleRow DEF WorkerRow
  <1>6. /\ lost \in WorkerRow /\ lost.tasks \subseteq Used /\ lost.stage <= Depth
        /\ lost.pc \in {"idle", "failed", "undo_copy", "undo_links"}
    <2>. DEFINE q == [worker[w] EXCEPT !.plan = Unplanned]
    <2>1. q \in WorkerRow /\ q.tasks = worker[w].tasks /\ q.stage = worker[w].stage
      BY <1>1, IdleRow DEF WorkerRow
    <2>. HIDE DEF q
    <2>. QED
      BY <1>1, <2>1, FailingRow DEF q
  <1>7. CASE worker' = Voided([worker EXCEPT ![w] = told], written) /\ UNCHANGED <<orphans, troubles>>
    <2>1. worker' \in {[worker EXCEPT ![w] = told], Voided([worker EXCEPT ![w] = told], written)}
      BY <1>7
    <2>. HIDE DEF told, written
    <2>2. WellFormed' /\ worker'[w].pc = told.pc /\ worker'[w].released = told.released
      BY <1>1, <1>3, <1>4, <1>5, <1>7, <2>1, StepWF DEF Publish, WellFormed, TypeOK
    <2>. QED
      BY <1>5, <1>7, <2>2
  <1>8. CASE /\ worker' = Voided([worker EXCEPT ![w] = lost], written)
             /\ troubles < MaxTroubles /\ troubles' = troubles + 1
             /\ orphans' = orphans \cup S
    <2>1. worker' \in {[worker EXCEPT ![w] = lost], Voided([worker EXCEPT ![w] = lost], written)}
      BY <1>8
    <2>2. troubles' \in 0..MaxTroubles /\ orphans' \subseteq Pipelines
      BY <1>2, <1>8, ReleaseConstants DEF WellFormed, TypeOK
    <2>. HIDE DEF lost, written
    <2>3. WellFormed' /\ worker'[w].pc = lost.pc
      BY <1>3, <1>4, <1>6, <2>1, <2>2, StepWF DEF Publish
    <2>. QED
      BY <1>6, <1>8, <2>3
  <1>9. \/ /\ worker' = Voided([worker EXCEPT ![w] = told], written)
           /\ UNCHANGED <<orphans, troubles>>
        \/ /\ worker' = Voided([worker EXCEPT ![w] = lost], written)
           /\ troubles < MaxTroubles /\ troubles' = troubles + 1
           /\ orphans' = orphans \cup S
    BY DEF Publish, WellFormed, TypeOK
  <1>. QED
    BY <1>7, <1>8, <1>9

(* A step of one process that writes nothing, loses nothing and starts no  *)
(* stage: it fails, or goes on with the same tasks.                        *)
LEMMA QuietWF ==
  ASSUME WellFormed, NEW w \in Workers, worker[w].pc # "preparing",
         NEW r \in WorkerRow, r.tasks \subseteq worker[w].tasks, r.stage <= Depth,
         worker' = [worker EXCEPT ![w] = r],
         UNCHANGED <<product, evidence, pipeline>>,
         orphans' \subseteq Pipelines, troubles' \in 0..MaxTroubles
  PROVE  WellFormed'
  <1>1. worker' \in {[worker EXCEPT ![w] = r], Voided([worker EXCEPT ![w] = r], {})}
    OBVIOUS
  <1>2. r.tasks \subseteq Used
    BY DEF WellFormed, Chained
  <1>. QED
    BY <1>1, <1>2, StepWF DEF WellFormed, TypeOK

(* The plan of publication is refused.                                     *)
LEMMA PublishRefusedWF ==
  ASSUME WellFormed, NEW w \in Workers, PublishRefused(w) PROVE WellFormed'
  <1>. DEFINE q == [worker[w] EXCEPT !.plan = Unplanned]
  <1>1. worker[w] \in WorkerRow /\ worker[w].stage <= Depth /\ worker[w].pc # "preparing"
    BY DEF WellFormed, TypeOK, Chained, PublishRefused
  <1>2. q \in WorkerRow /\ q.tasks = worker[w].tasks /\ q.stage = worker[w].stage
    BY <1>1, IdleRow DEF WorkerRow
  <1>3. worker' = [worker EXCEPT ![w] = Failing(q)]
    BY DEF PublishRefused, WellFormed, TypeOK
  <1>. HIDE DEF q
  <1>. QED
    BY <1>1, <1>2, <1>3, FailingRow, QuietWF DEF PublishRefused, WellFormed, TypeOK

(* Verifying the public pages.                                             *)
LEMMA VerifyPagesWF ==
  ASSUME WellFormed, NEW w \in Workers, VerifyPages(w) PROVE WellFormed'
  <1>. DEFINE q == [worker[w] EXCEPT !.pc = "confirming"]
  <1>1. worker[w] \in WorkerRow /\ worker[w].stage <= Depth /\ worker[w].pc # "preparing"
    BY DEF WellFormed, TypeOK, Chained, VerifyPages
  <1>2. q \in WorkerRow /\ q.tasks = worker[w].tasks /\ q.stage = worker[w].stage
    BY <1>1 DEF WorkerRow
  <1>3. worker' = [worker EXCEPT ![w] = q] \/ worker' = [worker EXCEPT ![w] = Failing(worker[w])]
    BY DEF VerifyPages
  <1>. HIDE DEF q
  <1>. QED
    BY <1>1, <1>2, <1>3, FailingRow, QuietWF DEF VerifyPages, WellFormed, TypeOK

(* The quote-only part.                                                    *)
LEMMA QuotesWF == ASSUME WellFormed, NEW w \in Workers, Quotes(w) PROVE WellFormed'
  <1>1. worker[w] \in WorkerRow /\ worker[w].stage <= Depth /\ worker[w].pc # "preparing"
    BY DEF WellFormed, TypeOK, Chained, Quotes
  <1>2. worker' = [worker EXCEPT ![w] = Idle] \/ worker' = [worker EXCEPT ![w] = Failing(worker[w])]
    BY DEF Quotes
  <1>3. Idle \in WorkerRow /\ Idle.tasks \subseteq worker[w].tasks /\ Idle.stage <= Depth
    BY IdleRow, ReleaseConstants
  <1>. QED
    BY <1>1, <1>2, <1>3, FailingRow, QuietWF DEF Quotes, WellFormed, TypeOK

(* A process is killed.                                                    *)
LEMMA CrashWF == ASSUME WellFormed, NEW w \in Workers, Crash(w) PROVE WellFormed'
  <1>1. /\ Idle \in WorkerRow /\ Idle.tasks \subseteq Used /\ Idle.stage <= Depth
    BY IdleRow, ReleaseConstants
  <1>2. troubles' \in 0..MaxTroubles /\ orphans' \subseteq Pipelines
    BY ReleaseConstants DEF Crash, WellFormed, TypeOK, WorkerRow
  <1>3. worker' \in {[worker EXCEPT ![w] = Idle], Voided([worker EXCEPT ![w] = Idle], {})}
    BY DEF Crash
  <1>. QED
    BY <1>1, <1>2, <1>3, StepWF DEF Crash, WellFormed, TypeOK

(* Confirming the publications.                                            *)
LEMMA ConfirmWF == ASSUME WellFormed, NEW w \in Workers, Confirm(w) PROVE WellFormed'
  <1>. DEFINE q == [worker[w] EXCEPT !.pc = "quoting"]
              told == IF w \in Publishers THEN Idle ELSE q
  <1>1. /\ worker[w] \in WorkerRow /\ worker[w].stage <= Depth
        /\ worker[w].tasks \subseteq Used
    BY DEF WellFormed, TypeOK, Chained, Confirm
  <1>2. q \in WorkerRow /\ q.tasks = worker[w].tasks /\ q.stage = worker[w].stage
    BY <1>1 DEF WorkerRow
  <1>3. \/ worker' = [worker EXCEPT ![w] = told] /\ UNCHANGED troubles
        \/ /\ worker' = [worker EXCEPT ![w] = Failing(worker[w])]
           /\ troubles < MaxTroubles /\ troubles' = troubles + 1
    BY DEF Confirm, WellFormed, TypeOK
  <1>. HIDE DEF q
  <1>4. told \in WorkerRow /\ told.tasks \subseteq Used /\ told.stage <= Depth
    BY <1>1, <1>2, IdleRow, ReleaseConstants
  <1>. HIDE DEF told
  <1>5. PICK r \in {told, Failing(worker[w])} : worker' = [worker EXCEPT ![w] = r]
    BY <1>3
  <1>6. r \in WorkerRow /\ r.tasks \subseteq Used /\ r.stage <= Depth
    BY <1>1, <1>4, <1>5, FailingRow
  <1>7. troubles' \in 0..MaxTroubles
    BY <1>3, ReleaseConstants DEF WellFormed, TypeOK
  <1>8. /\ pipeline' \in [Pipelines -> PipelineRow]
        /\ \A n \in Pipelines : /\ pipeline'[n].of = pipeline[n].of
                                /\ pipeline'[n].publication = pipeline[n].publication \/ n \in Used
    BY DEF Confirm, WellFormed, TypeOK, PipelineRow, Chained
  <1>9. worker' \in {[worker EXCEPT ![w] = r], Voided([worker EXCEPT ![w] = r], {})}
    BY <1>5
  <1>. QED
    BY <1>6, <1>7, <1>8, <1>9, StepWF DEF Confirm, WellFormed, TypeOK

(* Rolling publications back.                                              *)
LEMMA UndoPublicationsWF ==
  ASSUME WellFormed, NEW w \in Workers, UndoPublications(w)
  PROVE  WellFormed' /\ worker'[w].pc \in {"idle", "failed", "undo_copy", "undo_links"}
  <1>. DEFINE S == {n \in worker[w].released : Withdrawn(n)}
              written == {pipeline[n].of : n \in S}
              P == [n \in Pipelines |->
                      IF n \in S THEN [pipeline[n] EXCEPT !.publication = "rolled_back",
                                                          !.state = "stopped"]
                      ELSE pipeline[n]]
              q == [worker[w] EXCEPT !.released = {}]
  <1>1. /\ worker[w] \in WorkerRow /\ worker[w].stage <= Depth
        /\ worker[w].tasks \subseteq Used
    BY DEF WellFormed, TypeOK, Chained, UndoPublications
  <1>2. q \in WorkerRow /\ q.tasks = worker[w].tasks /\ q.stage = worker[w].stage
    BY <1>1 DEF WorkerRow
  <1>3. worker' = Voided([worker EXCEPT ![w] = Failing(q)], written)
    BY DEF UndoPublications, WellFormed, TypeOK
  <1>4. product' \in [Products -> ProductRow]
    BY ZenonT(60) DEF UndoPublications, WellFormed, TypeOK, ProductRow
  <1>5. /\ pipeline' \in [Pipelines -> PipelineRow]
        /\ \A n \in Pipelines :
             /\ pipeline'[n].of = pipeline[n].of
             /\ pipeline'[n].publication = pipeline[n].publication \/ n \in Used
    <2>1. P \in [Pipelines -> PipelineRow]
      BY ZenonT(60) DEF WellFormed, TypeOK, PipelineRow
    <2>2. \A n \in Pipelines :
             P[n].of = pipeline[n].of
               /\ (P[n].publication = pipeline[n].publication \/ n \in Used)
      BY DEF WellFormed, TypeOK, PipelineRow, Chained, Withdrawn
    <2>3. pipeline' = Aged(P, written)
      BY DEF UndoPublications
    <2>. HIDE DEF P
    <2>. QED
      BY <2>1, <2>2, <2>3, WrittenPipelines
  <1>. HIDE DEF q, written
  <1>6. worker' \in {[worker EXCEPT ![w] = Failing(q)],
                     Voided([worker EXCEPT ![w] = Failing(q)], written)}
    BY <1>3
  <1>7. /\ Failing(q) \in WorkerRow /\ Failing(q).tasks \subseteq Used /\ Failing(q).stage <= Depth
        /\ Failing(q).pc \in {"idle", "failed", "undo_copy", "undo_links"}
    BY <1>1, <1>2, FailingRow
  <1>. QED
    BY <1>4, <1>5, <1>6, <1>7, StepWF DEF UndoPublications, WellFormed, TypeOK

(* Rolling repairs back.                                                   *)
LEMMA UndoRowsWF ==
  ASSUME WellFormed, NEW w \in Workers, NEW from, NEW S, NEW standing,
         NEW before \in [Products -> ProductRow], NEW r \in WorkerRow,
         r.tasks \subseteq worker[w].tasks, r.stage <= Depth,
         UndoRows(w, from, S, standing, before, r)
  PROVE  WellFormed' /\ worker'[w].pc \in {r.pc, "idle"}
  <1>1. Idle \in WorkerRow /\ Idle.tasks \subseteq worker[w].tasks /\ Idle.stage <= Depth
    BY IdleRow, ReleaseConstants
  <1>2. worker[w].tasks \subseteq Used
    BY DEF WellFormed, Chained
  <1>3. CASE /\ product' = [p \in Products |-> IF p \in S THEN before[p] ELSE product[p]]
             /\ worker' = Voided([worker EXCEPT ![w] = r], S)
             /\ pipeline' = Aged(pipeline, S)
    <2>1. worker' \in {[worker EXCEPT ![w] = r], Voided([worker EXCEPT ![w] = r], S)}
      BY <1>3
    <2>2. product' \in [Products -> ProductRow]
      BY <1>3 DEF WellFormed, TypeOK
    <2>3. /\ pipeline' \in [Pipelines -> PipelineRow]
          /\ \A n \in Pipelines : /\ pipeline'[n].of = pipeline[n].of
                                  /\ pipeline'[n].publication = pipeline[n].publication
      BY <1>3, AgedRows DEF WellFormed, TypeOK
    <2>4. r.tasks \subseteq Used
      BY <1>2
    <2>. QED
      BY <2>1, <2>2, <2>3, <2>4, StepWF DEF UndoRows, WellFormed, TypeOK
  <1>4. CASE worker' = [worker EXCEPT ![w] = Idle] /\ UNCHANGED <<product, pipeline>>
    <2>1. worker' \in {[worker EXCEPT ![w] = Idle], Voided([worker EXCEPT ![w] = Idle], {})}
      BY <1>4
    <2>2. WellFormed' /\ worker'[w].pc = Idle.pc
      BY <1>1, <1>2, <1>4, <2>1, StepWF DEF UndoRows, WellFormed, TypeOK
    <2>. QED
      BY <2>2, IdleRow
  <1>. QED
    BY <1>3, <1>4 DEF UndoRows

(* Rolling the copy back, then the links.                                  *)
LEMMA UndoRepairsWF ==
  ASSUME WellFormed, NEW w \in Workers, UndoCopy(w) \/ UndoLinks(w)
  PROVE  WellFormed' /\ worker'[w].pc \in {"idle", "failed", "undo_copy", "undo_links"}
  <1>1. /\ worker[w] \in WorkerRow /\ worker[w].stage <= Depth
    BY DEF WellFormed, TypeOK, Chained, UndoCopy, UndoLinks, UndoRows
  <1>2. CASE UndoCopy(w)
    <2>. DEFINE q == [worker[w] EXCEPT !.copies = {}]
                before == [p \in Products |-> [product[p] EXCEPT !.copy = "unsafe"]]
    <2>1. q \in WorkerRow /\ q.tasks = worker[w].tasks /\ q.stage = worker[w].stage
      BY <1>1 DEF WorkerRow
    <2>2. before \in [Products -> ProductRow]
      BY DEF WellFormed, TypeOK, ProductRow
    <2>3. \E b \in BOOLEAN : UndoRows(w, "undo_copy", worker[w].copies, b, before, Failing(q))
      BY <1>2 DEF UndoCopy
    <2>. HIDE DEF q, before
    <2>4. /\ Failing(q) \in WorkerRow /\ Failing(q).tasks \subseteq worker[w].tasks
          /\ Failing(q).stage <= Depth
      BY <1>1, <2>1, FailingRow
    <2>. DEFINE r == Failing(q)
    <2>. HIDE DEF r
    <2>5. PICK b \in BOOLEAN : UndoRows(w, "undo_copy", worker[w].copies, b, before, r)
      BY <2>3 DEF r
    <2>6. /\ r \in WorkerRow /\ r.tasks \subseteq worker[w].tasks /\ r.stage <= Depth
          /\ r.pc \in {"idle", "failed", "undo_copy", "undo_links"}
      BY <2>1, <2>4, FailingRow DEF r
    <2>. QED
      BY <2>2, <2>5, <2>6, UndoRowsWF
  <1>3. CASE UndoLinks(w)
    <2>. DEFINE before == [p \in Products |-> [product[p] EXCEPT !.url = "none"]]
    <2>1. before \in [Products -> ProductRow]
      BY DEF WellFormed, TypeOK, ProductRow, Origin
    <2>2. \E b \in BOOLEAN : UndoRows(w, "undo_links", worker[w].links, b, before, Idle)
      BY <1>3 DEF UndoLinks
    <2>. HIDE DEF before
    <2>. QED
      BY <2>1, <2>2, IdleRow, ReleaseConstants, UndoRowsWF
  <1>. QED
    BY <1>2, <1>3

(* What people and the other workflows do.                                 *)
LEMMA OthersWF == ASSUME WellFormed, Others PROVE WellFormed'
  <1>1. troubles' \in 0..MaxTroubles /\ orphans' \subseteq Pipelines
    BY ReleaseConstants DEF Others, WellFormed, TypeOK
  <1>2. ASSUME NEW p \in Products, EditProduct(p) PROVE WellFormed'
    <2>1. product' \in [Products -> ProductRow]
      <3>1. ASSUME NEW r \in Edited(p) PROVE r \in ProductRow
        <4>1. product[p] \in ProductRow
          BY DEF WellFormed, TypeOK
        <4>2. CASE \E c \in 0..2 : r = [product[p] EXCEPT !.price = c]
          BY <4>1, <4>2 DEF ProductRow
        <4>3. CASE r = [product[p] EXCEPT !.url = "staff"] \/ r = [product[p] EXCEPT !.copy = "staff"]
          BY <4>1, <4>3 DEF ProductRow, Origin
        <4>4. CASE \/ r = [product[p] EXCEPT !.shown = TRUE]
                   \/ r = [product[p] EXCEPT !.shown = FALSE, !.hid = TRUE]
          BY <4>1, <4>4 DEF ProductRow
        <4>. QED
          BY <4>2, <4>3, <4>4 DEF Edited
      <3>2. PICK r \in Edited(p) : product' = [product EXCEPT ![p] = r]
        BY <1>2 DEF EditProduct
      <3>. QED
        BY <3>1, <3>2 DEF WellFormed, TypeOK
    <2>2. /\ worker' \in [Workers -> WorkerRow]
          /\ \A w \in Workers : /\ worker'[w].tasks = worker[w].tasks
                                /\ worker'[w].pc = worker[w].pc
                                /\ worker'[w].stage = worker[w].stage
      BY <1>2, VoidedRows DEF EditProduct, WellFormed, TypeOK
    <2>3. /\ pipeline' \in [Pipelines -> PipelineRow]
          /\ \A n \in Pipelines : /\ pipeline'[n].of = pipeline[n].of
                                  /\ pipeline'[n].publication = pipeline[n].publication
      BY <1>2, AgedRows DEF EditProduct, WellFormed, TypeOK
    <2>4. TypeOK'
      BY <1>1, <1>2, <2>1, <2>2, <2>3 DEF EditProduct, WellFormed, TypeOK
    <2>. QED
      BY <2>2, <2>3, <2>4, ChainedKept DEF WellFormed, Chained
  <1>3. ASSUME NEW p \in Products, EvidenceChanges(p) PROVE WellFormed'
    <2>1. evidence' \in [Products -> EvidenceRow]
      BY ZenonT(60), <1>3 DEF EvidenceChanges, WellFormed, TypeOK, EvidenceRow
    <2>2. TypeOK'
      BY <1>1, <1>3, <2>1 DEF EvidenceChanges, WellFormed, TypeOK
    <2>. QED
      BY <1>3, <2>2, ChainedKept DEF EvidenceChanges, WellFormed, Chained
  <1>4. ASSUME NEW n \in Pipelines, Cancel(n) PROVE WellFormed'
    <2>1. /\ pipeline' \in [Pipelines -> PipelineRow]
          /\ \A m \in Pipelines : /\ pipeline'[m].of = pipeline[m].of
                                  /\ pipeline'[m].publication = pipeline[m].publication
      BY <1>4 DEF Cancel, WellFormed, TypeOK, PipelineRow
    <2>2. TypeOK'
      BY <1>1, <1>4, <2>1 DEF Cancel, WellFormed, TypeOK
    <2>. QED
      BY <1>4, <2>1, <2>2, ChainedKept DEF Cancel, WellFormed, Chained
  <1>. QED
    BY <1>2, <1>3, <1>4 DEF Others

(* Every step keeps the state well formed.                                 *)
LEMMA WellFormedKept == WellFormed /\ [Next]_vars => WellFormed'
  <1>. SUFFICES ASSUME WellFormed, [Next]_vars PROVE WellFormed'
    OBVIOUS
  <1>1. CASE Others
    BY <1>1, OthersWF
  <1>2. ASSUME NEW w \in Workers, Step(w) PROVE WellFormed'
    <2>1. CASE PlanLinks(w)
      <3>1. {p \in Products : Linkable(p)} \in SUBSET Products
        OBVIOUS
      <3>. QED
        BY <2>1, <3>1, PlanRepairWF DEF PlanLinks
    <2>2. CASE PlanCopy(w)
      <3>1. {p \in Products : Copyable(p)} \in SUBSET Products
        OBVIOUS
      <3>. QED
        BY <2>2, <3>1, PlanRepairWF DEF PlanCopy
    <2>3. CASE ApplyLinks(w) \/ ApplyCopy(w)
      BY <2>3, ApplyLinksWF, ApplyCopyWF
    <2>4. CASE Seed(w) \/ ClaimStage(w) \/ \E n \in Pipelines : Record(w, n)
      BY <2>4, SeedWF, ClaimStageWF, RecordWF
    <2>5. CASE Prepare(w) \/ Publish(w) \/ PublishRefused(w)
      BY <2>5, PrepareWF, PublishWF, PublishRefusedWF
    <2>6. CASE VerifyPages(w) \/ Confirm(w) \/ Quotes(w)
      BY <2>6, VerifyPagesWF, ConfirmWF, QuotesWF
    <2>7. CASE UndoPublications(w) \/ UndoCopy(w) \/ UndoLinks(w) \/ Crash(w)
      BY <2>7, UndoPublicationsWF, UndoRepairsWF, CrashWF
    <2>. QED
      BY <1>2, <2>1, <2>2, <2>3, <2>4, <2>5, <2>6, <2>7 DEF Step
  <1>3. CASE UNCHANGED vars
    BY <1>3 DEF vars, WellFormed, TypeOK, Chained, Used
  <1>. QED
    BY <1>1, <1>2, <1>3 DEF Next

(* The state is always well formed.                                        *)
THEOREM TypeCorrect == Spec => []TypeOK
  <1>1. WellFormed => TypeOK
    BY DEF WellFormed
  <1>. QED
    BY <1>1, WellFormedInitially, WellFormedKept, PTL DEF Spec

-----------------------------------------------------------------------------
(* What a step leaves alone.                                               *)

(* A process is where it was, with what it planned and released, and its   *)
(* plan is valid no more for a product that is written.                    *)
Stays(v) ==
  /\ worker'[v].pc = worker[v].pc /\ worker'[v].rows = worker[v].rows
  /\ worker'[v].released = worker[v].released
  /\ worker'[v].valid \subseteq worker[v].valid
  /\ \A p \in worker'[v].valid : product'[p] = product[p]

(* The process that writes products voids the plans of the others,         *)
LEMMA OneWrites ==
  ASSUME WellFormed, NEW v \in Workers, NEW W, NEW S, W[v] = worker[v],
         \A p \in Products \ S : product'[p] = product[p],
         worker' = Voided(W, S)
  PROVE  Stays(v)
  <1>1. worker[v] \in WorkerRow
    BY DEF WellFormed, TypeOK
  <1>2. worker'[v] = [worker[v] EXCEPT !.valid = @ \ S]
    BY DEF Voided
  <1>. QED
    BY <1>1, <1>2 DEF Stays, WorkerRow

(* and so does each step of a process.                                     *)
LEMMA OthersStay ==
  ASSUME WellFormed, NEW w \in Workers, Step(w), NEW v \in Workers \ {w}
  PROVE  Stays(v)
  <1>. USE DEF WellFormed, TypeOK
  <1>1. ASSUME NEW r, NEW S, worker' = Voided([worker EXCEPT ![w] = r], S),
               \A p \in Products \ S : product'[p] = product[p]
        PROVE  Stays(v)
    <2>. DEFINE W == [worker EXCEPT ![w] = r]
    <2>1. W[v] = worker[v] /\ worker' = Voided(W, S)
      BY <1>1
    <2>. HIDE DEF W
    <2>. QED
      BY <1>1, <2>1, OneWrites
  <1>2. CASE ApplyLinks(w)
    <2>. DEFINE r == [worker[w] EXCEPT !.pc = "linked", !.rows = {}, !.links = worker[w].rows]
    <2>1. worker' = Voided([worker EXCEPT ![w] = r], worker[w].rows)
      BY <1>2 DEF ApplyLinks
    <2>2. \A p \in Products \ worker[w].rows : product'[p] = product[p]
      BY <1>2 DEF ApplyLinks
    <2>. HIDE DEF r
    <2>. QED
      BY <1>1, <2>1, <2>2
  <1>3. CASE ApplyCopy(w)
    <2>. DEFINE r == [worker[w] EXCEPT !.pc = "seeding", !.rows = {}, !.copies = worker[w].rows]
    <2>1. worker' = Voided([worker EXCEPT ![w] = r], worker[w].rows)
      BY <1>3 DEF ApplyCopy
    <2>2. \A p \in Products \ worker[w].rows : product'[p] = product[p]
      BY <1>3 DEF ApplyCopy
    <2>. HIDE DEF r
    <2>. QED
      BY <1>1, <2>1, <2>2
  <1>4. CASE Publish(w)
    <2>. DEFINE written == {pipeline[n].of : n \in Planned(w)}
    <2>1. \E r : worker' = Voided([worker EXCEPT ![w] = r], written)
      <3>1. \/ worker' = Voided([worker EXCEPT ![w] = [worker[w] EXCEPT !.pc = "verifying",
                          !.released = Planned(w), !.plan = Unplanned]], written)
            \/ worker' = Voided([worker EXCEPT ![w] =
                          Failing([worker[w] EXCEPT !.plan = Unplanned])], written)
        BY <1>4 DEF Publish
      <3>. QED
        BY <3>1, Zenon
    <2>2. \A p \in Products \ written : product'[p] = product[p]
      BY <1>4 DEF Publish
    <2>. HIDE DEF written
    <2>. QED
      BY <1>1, <2>1, <2>2
  <1>5. CASE UndoPublications(w)
    <2>. DEFINE written == {pipeline[n].of : n \in {m \in worker[w].released : Withdrawn(m)}}
                r == Failing([worker[w] EXCEPT !.released = {}])
    <2>1. worker' = Voided([worker EXCEPT ![w] = r], written)
      BY <1>5 DEF UndoPublications
    <2>2. \A p \in Products \ written : product'[p] = product[p]
      BY <1>5 DEF UndoPublications
    <2>. HIDE DEF written, r
    <2>. QED
      BY <1>1, <2>1, <2>2
  <1>10. ASSUME NEW from, NEW S, NEW standing, NEW before, NEW r,
                UndoRows(w, from, S, standing, before, r)
         PROVE  Stays(v)
    <2>1. CASE worker' = [worker EXCEPT ![w] = Idle] /\ UNCHANGED product
      BY <2>1 DEF Stays
    <2>2. CASE /\ worker' = Voided([worker EXCEPT ![w] = r], S)
               /\ product' = [p \in Products |-> IF p \in S THEN before[p] ELSE product[p]]
      BY <1>1, <2>2
    <2>. QED
      BY <1>10, <2>1, <2>2 DEF UndoRows
  <1>11. CASE UndoCopy(w)
    BY <1>10, <1>11 DEF UndoCopy
  <1>12. CASE UndoLinks(w)
    BY <1>10, <1>12 DEF UndoLinks
  <1>6. CASE PlanLinks(w) \/ PlanCopy(w)
    BY <1>6 DEF PlanLinks, PlanCopy, PlanRepair, Stays
  <1>7. CASE Seed(w) \/ ClaimStage(w) \/ \E n \in Pipelines : Record(w, n)
    BY <1>7 DEF Seed, ClaimStage, Record, Stays
  <1>8. CASE Prepare(w) \/ PublishRefused(w) \/ VerifyPages(w)
    BY <1>8 DEF Prepare, PublishRefused, VerifyPages, Stays
  <1>9. CASE Confirm(w) \/ Quotes(w) \/ Crash(w)
    BY <1>9 DEF Confirm, Quotes, Crash, Stays
  <1>. QED
    BY <1>2, <1>3, <1>4, <1>5, <1>6, <1>7, <1>8, <1>9, <1>11, <1>12 DEF Step

(* The steps that write products.                                          *)
Writes(w) ==
  ApplyLinks(w) \/ ApplyCopy(w) \/ Publish(w) \/ UndoPublications(w) \/ UndoCopy(w) \/ UndoLinks(w)

(* Every other step leaves the products alone.                             *)
LEMMA QuietSteps == ASSUME NEW w, Step(w), ~Writes(w) PROVE UNCHANGED product
  BY Zenon DEF Step, Writes, PlanLinks, PlanCopy, PlanRepair, Seed, ClaimStage, Record, Prepare,
     PublishRefused, VerifyPages, Confirm, Quotes, Crash

-----------------------------------------------------------------------------
(* Repairs.                                                                *)

(* The rows of a copy plan that nobody has written since have the copy for *)
(* which the repair was planned.                                           *)
CopyIsPlanned ==
  \A w \in Workers : worker[w].pc = "copying" =>
     \A p \in worker[w].rows \cap worker[w].valid : product[p].copy = "unsafe"

(* No step but a plan brings a process to the point where copy is written. *)
LEMMA CopyingIsPlanned ==
  ASSUME WellFormed, NEW w \in Workers, Step(w), ~PlanCopy(w)
  PROVE  worker'[w].pc # "copying"
  <1>1. Idle.pc # "copying" /\ \A r \in WorkerRow : Failing(r).pc # "copying"
    BY IdleRow, FailingRow
  <1>2. CASE Writes(w)
    <2>1. CASE ApplyLinks(w) \/ ApplyCopy(w)
      BY <2>1, ApplyLinksWF, ApplyCopyWF
    <2>2. CASE Publish(w)
      BY <2>2, PublishWF
    <2>3. CASE UndoPublications(w) \/ UndoCopy(w) \/ UndoLinks(w)
      BY <2>3, UndoPublicationsWF, UndoRepairsWF
    <2>. QED
      BY <1>2, <2>1, <2>2, <2>3 DEF Writes
  <1>3. CASE PlanLinks(w) \/ Seed(w) \/ ClaimStage(w) \/ \E n \in Pipelines : Record(w, n)
    <2>. USE DEF WorkerRow, WellFormed, TypeOK
    <2>1. CASE PlanLinks(w)
      <3>1. PICK S \in SUBSET {p \in Products : Linkable(p)} :
              worker' = [worker EXCEPT ![w].pc = IF S = {} THEN "linked" ELSE "linking",
                                       ![w].rows = S, ![w].valid = S]
        BY <2>1 DEF PlanLinks, PlanRepair
      <3>. QED
        BY <3>1
    <2>2. CASE Seed(w)
      BY <2>2 DEF Seed
    <2>3. CASE ClaimStage(w)
      BY ZenonT(60), <2>3 DEF ClaimStage
    <2>4. ASSUME NEW n \in Pipelines, Record(w, n) PROVE worker'[w].pc # "copying"
      BY <2>4 DEF Record
    <2>. QED
      BY <1>3, <2>1, <2>2, <2>3, <2>4
  <1>4. CASE Prepare(w)
    BY <1>1, <1>4 DEF Prepare, WorkerRow, WellFormed, TypeOK
  <1>5. CASE PublishRefused(w)
    <2>. DEFINE q == [worker[w] EXCEPT !.plan = Unplanned]
    <2>1. q \in WorkerRow
      BY IdleRow DEF WorkerRow, WellFormed, TypeOK
    <2>2. worker'[w] = Failing(q)
      BY <1>5 DEF PublishRefused, WellFormed, TypeOK
    <2>. QED
      BY <1>1, <2>1, <2>2
  <1>6. CASE VerifyPages(w) \/ Confirm(w) \/ Quotes(w) \/ Crash(w)
    BY <1>1, <1>6 DEF VerifyPages, Confirm, Quotes, Crash, WorkerRow, WellFormed, TypeOK
  <1>. QED
    BY <1>2, <1>3, <1>4, <1>5, <1>6 DEF Step, Writes

(* Copy plans stay what they are.                                          *)
LEMMA CopyKept == WellFormed /\ CopyIsPlanned /\ [Next]_vars => CopyIsPlanned'
  <1>. SUFFICES ASSUME WellFormed, CopyIsPlanned, [Next]_vars,
                       NEW v \in Workers, worker'[v].pc = "copying",
                       NEW p \in worker'[v].rows \cap worker'[v].valid
                PROVE  product'[p].copy = "unsafe"
    BY DEF CopyIsPlanned
  <1>1. CASE Stays(v)
    BY <1>1 DEF Stays, CopyIsPlanned
  <1>2. CASE UNCHANGED vars
    BY <1>2 DEF vars, CopyIsPlanned
  <1>3. ASSUME NEW w \in Workers, Step(w), ~Stays(v)
        PROVE  product'[p].copy = "unsafe"
    <2>1. w = v
      BY <1>3, OthersStay
    <2>2. PlanCopy(v)
      BY <1>3, <2>1, CopyingIsPlanned
    <2>3. product' = product /\ worker'[v].rows \subseteq {q \in Products : Copyable(q)}
      <3>1. product' = product
        BY <2>2 DEF PlanCopy, PlanRepair
      <3>2. PICK S \in SUBSET {q \in Products : Copyable(q)} :
              worker' = [worker EXCEPT ![v].pc = IF S = {} THEN "seeding" ELSE "copying",
                                       ![v].rows = S, ![v].valid = S]
        BY <2>2 DEF PlanCopy, PlanRepair
      <3>3. worker'[v].rows = S
        BY <3>2 DEF WellFormed, TypeOK, WorkerRow
      <3>. QED
        BY <3>1, <3>2, <3>3
    <2>. QED
      BY <2>3 DEF Copyable
  <1>4. ASSUME Others, ~Stays(v) PROVE product'[p].copy = "unsafe"
    <2>1. ASSUME NEW q \in Products, EditProduct(q) PROVE Stays(v)
      <3>1. \A o \in Products \ {q} : product'[o] = product[o]
        BY <2>1 DEF EditProduct, WellFormed, TypeOK
      <3>2. worker' = Voided(worker, {q})
        BY <2>1 DEF EditProduct
      <3>. QED
        BY <3>1, <3>2, OneWrites
    <2>2. CASE UNCHANGED <<product, worker>>
      BY <2>2 DEF CopyIsPlanned
    <2>. QED
      BY <1>4, <2>1, <2>2 DEF Others, EvidenceChanges, Cancel
  <1>. QED
    BY <1>1, <1>2, <1>3, <1>4 DEF Next

(* What people write is not undone: neither a link nor a copy that a       *)
(* person has set is replaced by a step of a process.                      *)
LEMMA StaffKept ==
  ASSUME WellFormed, CopyIsPlanned, NEW w \in Workers, Step(w),
         NEW p \in Products, NEW f \in {"url", "copy"}, product[p][f] = "staff"
  PROVE  product'[p][f] = "staff"
  <1>. USE DEF WellFormed, TypeOK, ProductRow
  <1>1. CASE ~Writes(w)
    BY <1>1, QuietSteps
  <1>2. CASE ApplyLinks(w)
    BY <1>2 DEF ApplyLinks, Linkable, Sourced, Linked
  <1>3. CASE ApplyCopy(w)
    <2>1. \A q \in worker[w].rows : q \in worker[w].rows \cap worker[w].valid
      BY <1>3 DEF ApplyCopy, Unchanged
    <2>2. p \in worker[w].rows => product[p].copy = "unsafe"
      BY <1>3, <2>1 DEF ApplyCopy, CopyIsPlanned
    <2>. QED
      BY <1>3, <2>2 DEF ApplyCopy
  <1>4. CASE Publish(w)
    BY <1>4 DEF Publish, Shown
  <1>5. CASE UndoPublications(w)
    BY <1>5 DEF UndoPublications
  <1>6. CASE UndoCopy(w)
    BY ZenonT(60), <1>6 DEF UndoCopy, UndoRows, CopyStands
  <1>7. CASE UndoLinks(w)
    BY <1>7 DEF UndoLinks, UndoRows, LinkStands
  <1>. QED
    BY <1>1, <1>2, <1>3, <1>4, <1>5, <1>6, <1>7 DEF Writes

-----------------------------------------------------------------------------
(* The website.                                                            *)

(* No step shows a product that is not complete, or takes from a shown one *)
(* what it is shown for.                                                   *)
LEMMA CompleteKept == WellFormed /\ ShownIsComplete /\ [Next]_vars => ShownIsComplete'
  <1>. DEFINE Complete(r) ==
                r.shown => Sourced(r) /\ r.copy # "unsafe" /\ r.price >= 2
  <1>. SUFFICES ASSUME WellFormed, ShownIsComplete, [Next]_vars, NEW p \in Products
                PROVE  Complete(product'[p])
    BY DEF ShownIsComplete
  <1>1. Complete(product[p]) /\ product[p] \in ProductRow
    BY DEF ShownIsComplete, WellFormed, TypeOK
  <1>2. \A r : Allowed(p, r) => Complete(r)
    BY DEF Allowed
  <1>3. CASE product' = product
    BY <1>1, <1>3
  <1>4. ASSUME NEW w \in Workers, Writes(w) PROVE Complete(product'[p])
    <2>1. CASE ApplyLinks(w)
      BY <1>1, <2>1 DEF ApplyLinks, Linkable, Linked, ProductRow
    <2>2. CASE ApplyCopy(w)
      <3>1. p \in worker[w].rows => Allowed(p, product'[p])
        BY <2>2 DEF ApplyCopy
      <3>. QED
        BY <1>1, <1>2, <2>2, <3>1 DEF ApplyCopy
    <2>3. CASE Publish(w)
      BY <1>1, <1>2, <2>3 DEF Publish
    <2>4. CASE UndoPublications(w)
      BY <1>1, <2>4 DEF UndoPublications, ProductRow
    <2>5. CASE UndoCopy(w)
      BY <1>1, <1>2, <2>5 DEF UndoCopy, UndoRows
    <2>6. CASE UndoLinks(w)
      BY <1>1, <1>2, <2>6 DEF UndoLinks, UndoRows
    <2>. QED
      BY <1>4, <2>1, <2>2, <2>3, <2>4, <2>5, <2>6 DEF Writes
  <1>5. ASSUME NEW q \in Products, EditProduct(q) PROVE Complete(product'[p])
    BY <1>1, <1>2, <1>5 DEF EditProduct, WellFormed, TypeOK
  <1>6. Others => product' = product \/ \E q \in Products : EditProduct(q)
    BY DEF Others, EvidenceChanges, Cancel
  <1>7. \A w : Step(w) => product' = product \/ Writes(w)
    BY QuietSteps
  <1>8. UNCHANGED vars => product' = product
    BY DEF vars
  <1>. HIDE DEF Complete
  <1>. QED
    BY <1>3, <1>4, <1>5, <1>6, <1>7, <1>8 DEF Next

-----------------------------------------------------------------------------
(* Releases.                                                               *)

Released == {"published", "verified"}
Out(n) == pipeline[n].publication \in Released

(* A product that nobody has hidden is shown by the one release it has.    *)
OutOnce ==
  \A n \in Pipelines : Out(n) /\ ~product[pipeline[n].of].hid =>
     /\ product[pipeline[n].of].shown
     /\ \A m \in Pipelines \ {n} : pipeline[m].of = pipeline[n].of => ~Out(m)

(* A product that is released is one of the products.                      *)
LEMMA OutOfProduct ==
  ASSUME WellFormed, NEW n \in Pipelines, pipeline[n].publication # "not_applicable"
  PROVE  pipeline[n].of \in Products /\ product[pipeline[n].of] \in ProductRow
  BY DEF WellFormed, Chained, Used, TypeOK, PipelineRow

(* A step that releases nothing and hides no product with a release.       *)
LEMMA NothingReleased ==
  ASSUME WellFormed, OutOnce,
         \A n \in Pipelines : pipeline'[n].publication \in Released =>
            /\ Out(n) /\ pipeline'[n].of = pipeline[n].of
            /\ ~product'[pipeline[n].of].hid =>
                 /\ ~product[pipeline[n].of].hid
                 /\ product[pipeline[n].of].shown => product'[pipeline[n].of].shown
  PROVE  OutOnce'
  BY DEF OutOnce, Out

(* Pipelines that are as many as their products have different products.   *)
LEMMA OnePerProduct ==
  ASSUME NEW S \in SUBSET Pipelines,
         Cardinality({pipeline[n].of : n \in S}) = Cardinality(S)
  PROVE  \A n, m \in S : pipeline[n].of = pipeline[m].of => n = m
  <1>. DEFINE T == {pipeline[n].of : n \in S}
              f == [n \in S |-> pipeline[n].of]
  <1>1. IsFiniteSet(S)
    <2>1. IsFiniteSet(Pipelines)
      BY ReleaseConstants, FS_Interval DEF Pipelines
    <2>. QED
      BY <2>1, FS_Subset
  <1>2. f \in Surjection(S, T)
    BY DEF Surjection
  <1>. HIDE DEF f
  <1>3. f \in Injection(S, T)
    BY <1>1, <1>2, FS_Surjection
  <1>. QED
    BY <1>3 DEF Injection, IsInjective, f

(* Publishing releases products that have no release yet, or were hidden.  *)
LEMMA PublishOnce ==
  ASSUME WellFormed, OutOnce, NEW w \in Workers, Publish(w)
  PROVE  OutOnce'
  <1>. DEFINE S == Planned(w)
              P == [n \in Pipelines |->
                      IF n \in S THEN [pipeline[n] EXCEPT !.publication = "published"]
                      ELSE pipeline[n]]
  <1>1. S \in SUBSET Pipelines /\ \A n, m \in S : pipeline[n].of = pipeline[m].of => n = m
    BY OnePerProduct DEF Publish, Planned
  <1>2. \A n \in S : /\ ~product[pipeline[n].of].shown
                     /\ pipeline[n].publication = "ready"
                     /\ pipeline[n].of \in Products
    BY <1>1, OutOfProduct DEF Publish, AsPlanned, Ready
  <1>3. \A n \in Pipelines :
           /\ pipeline'[n].of = pipeline[n].of
           /\ pipeline'[n].publication \in Released => Out(n) \/ n \in S
    <2>1. P \in [Pipelines -> PipelineRow]
      BY DEF WellFormed, TypeOK, PipelineRow
    <2>2. pipeline' = Aged(P, {pipeline[n].of : n \in S})
      BY DEF Publish
    <2>3. \A n \in Pipelines :
             P[n].of = pipeline[n].of /\ (n \notin S => P[n].publication = pipeline[n].publication)
      BY DEF WellFormed, TypeOK, PipelineRow
    <2>. HIDE DEF P
    <2>. QED
      BY <2>1, <2>2, <2>3, AgedRows DEF Out
  <1>4. \A p \in Products :
           /\ product'[p].hid = product[p].hid
           /\ product'[p].shown = (product[p].shown \/ \E n \in S : pipeline[n].of = p)
    BY DEF Publish, Shown, WellFormed, TypeOK, ProductRow
  <1>5. \A n \in Pipelines : Out(n) => pipeline[n].of \in Products
    BY OutOfProduct DEF Out, Released
  <1>. HIDE DEF S
  <1>6. ASSUME NEW n \in Pipelines, pipeline'[n].publication \in Released,
               ~product'[pipeline'[n].of].hid
        PROVE  /\ product'[pipeline'[n].of].shown
               /\ \A m \in Pipelines \ {n} : pipeline'[m].of = pipeline'[n].of =>
                     pipeline'[m].publication \notin Released
    <2>. DEFINE p == pipeline[n].of
    <2>1. p \in Products /\ pipeline'[n].of = p /\ ~product[p].hid
      BY <1>2, <1>3, <1>4, <1>5, <1>6
    <2>2. CASE n \in S
      <3>1. product'[p].shown
        BY <1>4, <2>1, <2>2
      <3>2. \A m \in Pipelines : pipeline[m].of = p => ~Out(m)
        BY <1>2, <2>1, <2>2 DEF OutOnce
      <3>. QED
        BY <1>1, <1>3, <2>1, <2>2, <3>1, <3>2
    <2>3. CASE n \notin S
      <3>1. Out(n)
        BY <1>3, <1>6, <2>3
      <3>2. /\ product[p].shown
            /\ \A m \in Pipelines \ {n} : pipeline[m].of = p => ~Out(m)
        BY <2>1, <3>1 DEF OutOnce
      <3>3. \A m \in S : pipeline[m].of # p
        BY <1>2, <3>2
      <3>. QED
        BY <1>3, <1>4, <2>1, <3>2, <3>3
    <2>. QED
      BY <2>2, <2>3
  <1>. QED
    BY <1>6 DEF OutOnce, Out

(* Rolling back hides the product of its own release only.                 *)
LEMMA UndoHidesOwn ==
  ASSUME WellFormed, OutOnce, NEW w \in Workers, UndoPublications(w)
  PROVE  OutOnce'
  <1>. DEFINE S == {n \in worker[w].released : Withdrawn(n)}
              P == [n \in Pipelines |->
                      IF n \in S THEN [pipeline[n] EXCEPT !.publication = "rolled_back",
                                                          !.state = "stopped"]
                      ELSE pipeline[n]]
  <1>1. S \in SUBSET Pipelines /\ \A n \in S : Out(n)
    BY DEF Out, Withdrawn, Released, WellFormed, TypeOK, WorkerRow
  <1>2. \A n \in Pipelines :
           /\ pipeline'[n].of = pipeline[n].of
           /\ pipeline'[n].publication \in Released => Out(n) /\ n \notin S
    <2>1. P \in [Pipelines -> PipelineRow]
      BY ZenonT(60) DEF WellFormed, TypeOK, PipelineRow
    <2>2. pipeline' = Aged(P, {pipeline[n].of : n \in S})
      BY DEF UndoPublications
    <2>3. \A n \in Pipelines :
             /\ P[n].of = pipeline[n].of
             /\ P[n].publication = IF n \in S THEN "rolled_back" ELSE pipeline[n].publication
      BY DEF WellFormed, TypeOK, PipelineRow
    <2>. HIDE DEF P
    <2>. QED
      BY <2>1, <2>2, <2>3, AgedRows DEF Out, Released
  <1>3. \A p \in Products :
           /\ product'[p].hid = product[p].hid
           /\ ~(\E n \in S : pipeline[n].of = p) => product'[p] = product[p]
    BY DEF UndoPublications, WellFormed, TypeOK, ProductRow
  <1>4. \A n \in Pipelines : Out(n) => pipeline[n].of \in Products
    BY OutOfProduct DEF Out, Released
  <1>. HIDE DEF S
  <1>5. ASSUME NEW n \in Pipelines, pipeline'[n].publication \in Released,
               ~product'[pipeline[n].of].hid
        PROVE  product'[pipeline[n].of] = product[pipeline[n].of]
    <2>1. Out(n) /\ n \notin S /\ pipeline[n].of \in Products
      BY <1>2, <1>4, <1>5
    <2>2. \A m \in S : pipeline[m].of # pipeline[n].of
      BY <1>1, <1>3, <1>5, <2>1 DEF OutOnce
    <2>. QED
      BY <1>3, <2>1, <2>2
  <1>. QED
    BY <1>2, <1>5, NothingReleased

(* The other steps of a process release nothing more: at most they verify  *)
(* what is published.                                                      *)
LEMMA OthersRelease ==
  ASSUME WellFormed, NEW w \in Workers, Step(w), ~Publish(w), NEW n \in Pipelines,
         pipeline'[n].publication \in Released
  PROVE  /\ Out(n) /\ pipeline'[n].of = pipeline[n].of
         /\ pipeline'[n].publication \in {pipeline[n].publication, "verified"}
  <1>. USE DEF WellFormed, TypeOK
  <1>1. pipeline[n] \in PipelineRow
    OBVIOUS
  <1>2. ASSUME NEW S, pipeline' = Aged(pipeline, S)
        PROVE  /\ Out(n) /\ pipeline'[n].of = pipeline[n].of
               /\ pipeline'[n].publication \in {pipeline[n].publication, "verified"}
    BY <1>2, AgedRows DEF Out
  <1>3. CASE UNCHANGED pipeline
    BY <1>3 DEF Out
  <1>4. CASE ApplyLinks(w) \/ ApplyCopy(w) \/ UndoCopy(w) \/ UndoLinks(w)
    BY <1>2, <1>3, <1>4 DEF ApplyLinks, ApplyCopy, UndoCopy, UndoLinks, UndoRows
  <1>5. CASE Seed(w)
    <2>1. PICK p \in Products : SeedOne(p)
      BY <1>5 DEF Seed
    <2>2. CASE pipeline' = [m \in Pipelines |->
                 IF m \in Root(p) THEN Reseeded(pipeline[m], p) ELSE pipeline[m]]
      BY <1>1, <2>2 DEF Reseeded, PipelineRow, Out
    <2>3. CASE \E m \in Unused : pipeline' = [pipeline EXCEPT ![m] =
                 [NoPipeline EXCEPT !.of = p, !.stage = 1, !.fresh = TRUE]]
      BY <1>1, <2>3 DEF NoPipeline, Out, Released
    <2>. QED
      BY <2>1, <2>2, <2>3 DEF SeedOne
  <1>6. CASE ClaimStage(w) \/ Prepare(w)
    <2>1. \E s \in {"claimed", "stopped"} :
             pipeline'[n] \in {pipeline[n], [pipeline[n] EXCEPT !.state = s]}
      <3>1. CASE ClaimStage(w)
        BY <3>1 DEF ClaimStage
      <3>2. CASE Prepare(w)
        BY <3>2 DEF Prepare
      <3>. QED
        BY <1>6, <3>1, <3>2
    <2>. QED
      BY <1>1, <2>1 DEF PipelineRow, Out
  <1>7. ASSUME NEW m \in Pipelines, Record(w, m)
        PROVE  /\ Out(n) /\ pipeline'[n].of = pipeline[n].of
               /\ pipeline'[n].publication \in {pipeline[n].publication, "verified"}
    <2>1. UNCHANGED pipeline
             \/ \E r \in Results(pipeline[m]) : pipeline' = [pipeline EXCEPT ![m] = r]
      BY <1>7 DEF Record
    <2>2. ASSUME NEW q \in PipelineRow, NEW r \in Results(q), r.publication \in Released
          PROVE  r.publication = q.publication /\ r.of = q.of
      BY <2>2 DEF Results, HandedOn, PipelineRow, Released
    <2>. QED
      BY <1>1, <1>3, <2>1, <2>2 DEF Out
  <1>8. CASE Confirm(w)
    BY <1>1, <1>8 DEF Confirm, PipelineRow, Out, Released
  <1>9. CASE UndoPublications(w)
    <2>. DEFINE S == {m \in worker[w].released : Withdrawn(m)}
                P == [m \in Pipelines |->
                        IF m \in S THEN [pipeline[m] EXCEPT !.publication = "rolled_back",
                                                            !.state = "stopped"]
                        ELSE pipeline[m]]
    <2>1. P \in [Pipelines -> PipelineRow]
      BY ZenonT(60) DEF PipelineRow
    <2>2. pipeline' = Aged(P, {pipeline[m].of : m \in S})
      BY <1>9 DEF UndoPublications
    <2>3. /\ P[n].of = pipeline[n].of
          /\ P[n].publication = IF n \in S THEN "rolled_back" ELSE pipeline[n].publication
      BY <1>1 DEF PipelineRow
    <2>. HIDE DEF P
    <2>. QED
      BY <2>1, <2>2, <2>3, AgedRows DEF Out, Released
  <1>10. CASE PlanLinks(w) \/ PlanCopy(w) \/ PublishRefused(w) \/ VerifyPages(w) \/ Quotes(w) \/ Crash(w)
    BY <1>3, <1>10 DEF PlanLinks, PlanCopy, PlanRepair, PublishRefused, VerifyPages, Quotes, Crash
  <1>. QED
    BY <1>4, <1>5, <1>6, <1>7, <1>8, <1>9, <1>10 DEF Step

(* Repairs neither show nor hide a product.                                *)
LEMMA RepairsHideNothing ==
  ASSUME WellFormed, NEW w \in Workers, Step(w), ~Publish(w), ~UndoPublications(w),
         NEW p \in Products
  PROVE  product'[p].shown = product[p].shown /\ product'[p].hid = product[p].hid
  <1>1. product[p] \in ProductRow
    BY DEF WellFormed, TypeOK
  <1>2. CASE ApplyLinks(w) \/ ApplyCopy(w)
    <2>1. \/ product'[p] = product[p] \/ product'[p] = [product[p] EXCEPT !.url = "listing"]
          \/ product'[p] = [product[p] EXCEPT !.copy = "repaired"]
      BY <1>2 DEF ApplyLinks, ApplyCopy, Linked
    <2>. QED
      BY <1>1, <2>1 DEF ProductRow
  <1>3. CASE UndoCopy(w) \/ UndoLinks(w)
    <2>1. \/ product'[p] = product[p] \/ product'[p] = [product[p] EXCEPT !.url = "none"]
          \/ product'[p] = [product[p] EXCEPT !.copy = "unsafe"]
      BY <1>3 DEF UndoCopy, UndoLinks, UndoRows
    <2>. QED
      BY <1>1, <2>1 DEF ProductRow
  <1>4. CASE ~Writes(w)
    BY <1>4, QuietSteps
  <1>. QED
    BY <1>2, <1>3, <1>4 DEF Writes

(* Every step keeps one release to a product that nobody has hidden.       *)
LEMMA OutOnceKept == WellFormed /\ OutOnce /\ [Next]_vars => OutOnce'
  <1>. SUFFICES ASSUME WellFormed, OutOnce, [Next]_vars PROVE OutOnce'
    OBVIOUS
  <1>1. \A n \in Pipelines : Out(n) => pipeline[n].of \in Products
    BY OutOfProduct DEF Out, Released
  <1>2. ASSUME NEW w \in Workers, Step(w) PROVE OutOnce'
    <2>1. CASE Publish(w) \/ UndoPublications(w)
      BY <2>1, PublishOnce, UndoHidesOwn
    <2>2. CASE ~Publish(w) /\ ~UndoPublications(w)
      BY <1>1, <1>2, <2>2, OthersRelease, RepairsHideNothing, NothingReleased
    <2>. QED
      BY <2>1, <2>2
  <1>3. ASSUME NEW q \in Products, EditProduct(q) PROVE OutOnce'
    <2>1. \A n \in Pipelines : /\ pipeline'[n].of = pipeline[n].of
                               /\ pipeline'[n].publication = pipeline[n].publication
      BY <1>3, AgedRows DEF EditProduct, WellFormed, TypeOK
    <2>2. PICK r \in Edited(q) : product' = [product EXCEPT ![q] = r]
      BY <1>3 DEF EditProduct
    <2>3. r.hid \/ (r.hid = product[q].hid /\ (product[q].shown => r.shown))
      BY DEF Edited, WellFormed, TypeOK, ProductRow
    <2>4. \A p \in Products : ~product'[p].hid =>
             ~product[p].hid /\ (product[p].shown => product'[p].shown)
      BY <2>2, <2>3 DEF WellFormed, TypeOK
    <2>. QED
      BY <1>1, <2>1, <2>4, NothingReleased DEF Out
  <1>4. CASE UNCHANGED <<product, pipeline>>
    BY <1>4 DEF OutOnce, Out
  <1>5. ASSUME NEW n \in Pipelines, Cancel(n) PROVE OutOnce'
    <2>1. \A m \in Pipelines : /\ pipeline'[m].of = pipeline[m].of
                               /\ pipeline'[m].publication = pipeline[m].publication
      BY <1>5 DEF Cancel, WellFormed, TypeOK, PipelineRow
    <2>. QED
      BY <1>1, <1>5, <2>1, NothingReleased DEF Cancel, Out
  <1>. QED
    BY <1>2, <1>3, <1>4, <1>5 DEF Next, Others, EvidenceChanges, vars

-----------------------------------------------------------------------------
(* Publications in hand.                                                   *)

Holding == {"verifying", "confirming", "failed"}

(* A step of one process after which the other processes hold what they    *)
(* held, and this one what it held or publishes.                           *)
LEMMA StillHeld ==
  ASSUME PublicationIsHeld, NEW w \in Workers,
         \A v \in Workers \ {w} : Stays(v), orphans \subseteq orphans',
         \A n \in Pipelines : pipeline'[n].publication = "published" =>
            \/ n \in orphans'
            \/ n \in worker'[w].released /\ worker'[w].pc \in Holding
            \/ /\ pipeline[n].publication = "published"
               /\ n \in worker[w].released => worker[w].pc \notin Holding
  PROVE  PublicationIsHeld'
  BY DEF PublicationIsHeld, Stays, Holding

(* Publishing takes what it publishes in hand.                             *)
LEMMA PublishHeld ==
  ASSUME WellFormed, PublicationIsHeld, NEW w \in Workers, Publish(w)
  PROVE  PublicationIsHeld'
  <1>. DEFINE S == Planned(w)
              P == [n \in Pipelines |->
                      IF n \in S THEN [pipeline[n] EXCEPT !.publication = "published"]
                      ELSE pipeline[n]]
  <1>1. \A v \in Workers \ {w} : Stays(v)
    BY OthersStay DEF Step
  <1>2. \A n \in Pipelines :
           pipeline'[n].publication = "published" /\ n \notin S => pipeline[n].publication = "published"
    <2>1. P \in [Pipelines -> PipelineRow]
      BY DEF WellFormed, TypeOK, PipelineRow
    <2>2. pipeline' = Aged(P, {pipeline[n].of : n \in S})
      BY DEF Publish
    <2>3. \A n \in Pipelines : n \notin S => P[n] = pipeline[n]
      OBVIOUS
    <2>. HIDE DEF P
    <2>. QED
      BY <2>1, <2>2, <2>3, AgedRows
  <1>3. worker[w].pc \notin Holding
    BY DEF Publish, Holding
  <1>4. \/ worker'[w].pc = "verifying" /\ worker'[w].released = S /\ orphans' = orphans
        \/ orphans' = orphans \cup S
    BY PublishWF
  <1>. HIDE DEF S
  <1>. QED
    BY <1>1, <1>2, <1>3, <1>4, StillHeld DEF Holding

(* The other steps of a process give nothing out of hand.                  *)
LEMMA OthersHeld ==
  ASSUME WellFormed, PublicationIsHeld, NEW w \in Workers, Step(w), ~Publish(w)
  PROVE  PublicationIsHeld'
  <1>1. \A v \in Workers \ {w} : Stays(v)
    BY OthersStay
  <1>2. \A n \in Pipelines : pipeline'[n].publication = "published" =>
           pipeline[n].publication = "published"
    BY OthersRelease DEF Released
  <1>3. worker[w] \in WorkerRow /\ worker[w].released \subseteq Pipelines
    BY DEF WellFormed, TypeOK, WorkerRow
  <1>4. CASE VerifyPages(w)
    <2>1. \/ worker'[w] = [worker[w] EXCEPT !.pc = "confirming"]
          \/ worker'[w] = Failing(worker[w])
      BY <1>4 DEF VerifyPages, WellFormed, TypeOK
    <2>2. worker[w].released # {} =>
             worker'[w].pc \in Holding /\ worker'[w].released = worker[w].released
      BY <1>3, <2>1, FailingRow DEF WorkerRow, Holding
    <2>. QED
      BY <1>1, <1>2, <1>4, <2>2, StillHeld DEF VerifyPages
  <1>5. CASE Confirm(w)
    <2>1. \A n \in worker[w].released : pipeline'[n].publication = "verified"
      BY <1>3, <1>5 DEF Confirm, WellFormed, TypeOK, PipelineRow
    <2>. QED
      BY <1>1, <1>2, <1>5, <2>1, StillHeld DEF Confirm
  <1>6. CASE UndoPublications(w)
    <2>. DEFINE S == {n \in worker[w].released : Withdrawn(n)}
                P == [n \in Pipelines |->
                        IF n \in S THEN [pipeline[n] EXCEPT !.publication = "rolled_back",
                                                            !.state = "stopped"]
                        ELSE pipeline[n]]
    <2>1. P \in [Pipelines -> PipelineRow]
      BY ZenonT(60) DEF WellFormed, TypeOK, PipelineRow
    <2>2. pipeline' = Aged(P, {pipeline[n].of : n \in S})
      BY <1>6 DEF UndoPublications
    <2>3. \A n \in worker[w].released : P[n].publication # "published"
      BY <1>3 DEF Withdrawn, WellFormed, TypeOK, PipelineRow
    <2>. HIDE DEF P
    <2>4. \A n \in worker[w].released : pipeline'[n].publication # "published"
      BY <1>3, <2>1, <2>2, <2>3, AgedRows
    <2>. QED
      BY <1>1, <1>2, <1>6, <2>4, StillHeld DEF UndoPublications
  <1>7. CASE Crash(w)
    BY <1>1, <1>2, <1>7, StillHeld DEF Crash
  <1>8. CASE ~VerifyPages(w) /\ ~Confirm(w) /\ ~UndoPublications(w) /\ ~Crash(w)
    <2>1. worker[w].pc \notin Holding /\ orphans' = orphans
      BY <1>8 DEF Step, Holding, PlanLinks, PlanCopy, PlanRepair, ApplyLinks, ApplyCopy, Seed,
         ClaimStage, Record, Prepare, PublishRefused, Quotes, UndoCopy, UndoLinks, UndoRows
    <2>. QED
      BY <1>1, <1>2, <2>1, StillHeld
  <1>. QED
    BY <1>4, <1>5, <1>6, <1>7, <1>8

(* Every step keeps publications in hand.                                  *)
LEMMA HeldKept == WellFormed /\ PublicationIsHeld /\ [Next]_vars => PublicationIsHeld'
  <1>. SUFFICES ASSUME WellFormed, PublicationIsHeld, [Next]_vars PROVE PublicationIsHeld'
    OBVIOUS
  <1>1. ASSUME NEW w \in Workers, Step(w) PROVE PublicationIsHeld'
    BY <1>1, PublishHeld, OthersHeld
  <1>2. ASSUME NEW p \in Products, EditProduct(p), orphans' = orphans PROVE PublicationIsHeld'
    <2>1. \A n \in Pipelines : pipeline'[n].publication = pipeline[n].publication
      BY <1>2, AgedRows DEF EditProduct, WellFormed, TypeOK
    <2>2. \A v \in Workers : /\ worker'[v].pc = worker[v].pc
                             /\ worker'[v].released = worker[v].released
      BY <1>2, VoidedRows DEF EditProduct, WellFormed, TypeOK
    <2>. QED
      BY <1>2, <2>1, <2>2 DEF PublicationIsHeld
  <1>3. CASE UNCHANGED <<pipeline, worker, orphans>>
    BY <1>3 DEF PublicationIsHeld
  <1>4. ASSUME NEW n \in Pipelines, Cancel(n), orphans' = orphans PROVE PublicationIsHeld'
    <2>1. \A m \in Pipelines : pipeline'[m].publication = pipeline[m].publication
      BY <1>4 DEF Cancel, WellFormed, TypeOK, PipelineRow
    <2>. QED
      BY <1>4, <2>1 DEF PublicationIsHeld, Cancel
  <1>. QED
    BY <1>1, <1>2, <1>3, <1>4 DEF Next, Others, EvidenceChanges, vars

-----------------------------------------------------------------------------
(* The inductive invariant and what it shows.                              *)

Orderly == WellFormed /\ CopyIsPlanned /\ ShownIsComplete /\ OutOnce /\ PublicationIsHeld

(* The inductive invariant holds in every reachable state: at first nothing *)
(* is planned, shown or released.                                          *)
LEMMA OrderlyAlways == Spec => []Orderly
  <1>1. Init => Orderly
    <2>. SUFFICES ASSUME Init PROVE Orderly
      OBVIOUS
    <2>1. \A n \in Pipelines : pipeline[n].publication = "not_applicable"
      BY DEF Init, NoPipeline
    <2>2. \A p \in Products : ~product[p].shown
      BY DEF Init
    <2>3. \A w \in Workers : worker[w].pc = "idle"
      BY IdleRow DEF Init
    <2>. QED
      BY <2>1, <2>2, <2>3, WellFormedInitially
         DEF Orderly, CopyIsPlanned, ShownIsComplete, OutOnce, Out, Released, PublicationIsHeld
  <1>2. Orderly /\ [Next]_vars => Orderly'
    BY WellFormedKept, CopyKept, CompleteKept, OutOnceKept, HeldKept DEF Orderly
  <1>. QED
    BY <1>1, <1>2, PTL DEF Spec

(* No step of the automation replaces a URL, an image or a description     *)
(* that a person has set: repairs are refused once somebody has written    *)
(* the product since the plan, and rollbacks take back what a repair set.  *)
THEOREM StaffIsKept == Spec => RepairKeepsStaff
  <1>1. Orderly /\ [Next]_vars =>
          [troubles' = troubles => \A p \in Products, f \in {"url", "copy"} :
             product[p][f] = "staff" => product'[p][f] = "staff"]_vars
    <2>. SUFFICES ASSUME Orderly, Next, troubles' = troubles,
                         NEW p \in Products, NEW f \in {"url", "copy"}, product[p][f] = "staff"
                  PROVE  product'[p][f] = "staff"
      OBVIOUS
    <2>1. ~Others
      BY DEF Others, Orderly, WellFormed, TypeOK
    <2>. QED
      BY <2>1, StaffKept DEF Next, Orderly
  <1>. QED
    BY <1>1, OrderlyAlways, PTL DEF Spec, RepairKeepsStaff

(* A product on the website keeps its source, image, copy and verified     *)
(* price, whichever process takes its repairs back meanwhile.              *)
THEOREM ShownStaysComplete == Spec => []ShownIsComplete
  BY OrderlyAlways, PTL DEF Orderly

(* What one process has released, another does not hide, and a product has *)
(* one release at a time.                                                  *)
THEOREM ReleaseStaysShown == Spec => []ReleaseIsShown
  <1>1. Orderly => ReleaseIsShown
    BY DEF Orderly, OutOnce, Out, Released, ReleaseIsShown
  <1>. QED
    BY <1>1, OrderlyAlways, PTL

(* A publication that is neither verified nor rolled back is in the hands  *)
(* of a process that will do one of them, or was orphaned.                 *)
THEOREM PublicationStaysHeld == Spec => []PublicationIsHeld
  BY OrderlyAlways, PTL DEF Orderly

-----------------------------------------------------------------------------
(* Tasks that wait for an agent.                                           *)

(* Only the last agent gives a release its publication, and nothing waits  *)
(* for an agent after that.                                                *)
WaitsOK(q) ==
  /\ q.publication # "not_applicable" => q.stage = Depth
  /\ q.state \in {"queued", "claimed"} => q.publication = "not_applicable"

Waiting == \A n \in Pipelines : WaitsOK(pipeline[n])

(* Publishing changes the publication of what it has planned.              *)
LEMMA PublishedRows ==
  ASSUME WellFormed, NEW w \in Workers, Publish(w)
  PROVE  \A n \in Pipelines :
           /\ pipeline'[n].of = pipeline[n].of
           /\ pipeline'[n].stage = pipeline[n].stage /\ pipeline'[n].state = pipeline[n].state
           /\ pipeline'[n].publication =
                IF n \in Planned(w) THEN "published" ELSE pipeline[n].publication
           /\ n \in Planned(w) => /\ pipeline[n].publication = "ready"
                                  /\ ~product[pipeline[n].of].shown
  <1>. DEFINE S == Planned(w)
              P == [n \in Pipelines |->
                      IF n \in S THEN [pipeline[n] EXCEPT !.publication = "published"]
                      ELSE pipeline[n]]
  <1>1. P \in [Pipelines -> PipelineRow]
    BY DEF WellFormed, TypeOK, PipelineRow
  <1>2. pipeline' = Aged(P, {pipeline[n].of : n \in S})
    BY DEF Publish
  <1>3. \A n \in Pipelines :
           /\ P[n].of = pipeline[n].of
           /\ P[n].stage = pipeline[n].stage /\ P[n].state = pipeline[n].state
           /\ P[n].publication = IF n \in S THEN "published" ELSE pipeline[n].publication
    BY DEF WellFormed, TypeOK, PipelineRow
  <1>4. \A n \in S : pipeline[n].publication = "ready" /\ ~product[pipeline[n].of].shown
    BY DEF Publish, AsPlanned, Ready
  <1>. HIDE DEF P, S
  <1>. QED
    BY <1>1, <1>2, <1>3, <1>4, AgedRows DEF S

(* Rolling back changes what the process has released and is published.    *)
LEMMA WithdrawnRows ==
  ASSUME WellFormed, NEW w \in Workers, UndoPublications(w),
         NEW S, S = {n \in worker[w].released : Withdrawn(n)}
  PROVE  /\ S \in SUBSET Pipelines /\ \A n \in S : pipeline[n].publication = "published"
         /\ \A n \in Pipelines :
              /\ pipeline'[n].of = pipeline[n].of /\ pipeline'[n].stage = pipeline[n].stage
              /\ pipeline'[n].state = IF n \in S THEN "stopped" ELSE pipeline[n].state
              /\ pipeline'[n].publication =
                   IF n \in S THEN "rolled_back" ELSE pipeline[n].publication
  <1>. DEFINE P == [n \in Pipelines |->
                      IF n \in S THEN [pipeline[n] EXCEPT !.publication = "rolled_back",
                                                          !.state = "stopped"]
                      ELSE pipeline[n]]
  <1>1. S \in SUBSET Pipelines /\ \A n \in S : pipeline[n].publication = "published"
    BY DEF Withdrawn, WellFormed, TypeOK, WorkerRow
  <1>2. P \in [Pipelines -> PipelineRow]
    BY ZenonT(60) DEF WellFormed, TypeOK, PipelineRow
  <1>3. pipeline' = Aged(P, {pipeline[n].of : n \in S})
    BY DEF UndoPublications
  <1>4. \A n \in Pipelines :
           /\ P[n].of = pipeline[n].of /\ P[n].stage = pipeline[n].stage
           /\ P[n].state = IF n \in S THEN "stopped" ELSE pipeline[n].state
           /\ P[n].publication = IF n \in S THEN "rolled_back" ELSE pipeline[n].publication
    BY DEF WellFormed, TypeOK, PipelineRow
  <1>. HIDE DEF P
  <1>. QED
    BY <1>1, <1>2, <1>3, <1>4, AgedRows

(* Confirming verifies what the process has released.                      *)
LEMMA ConfirmedRows ==
  ASSUME WellFormed, NEW w \in Workers, Confirm(w)
  PROVE  /\ worker[w].released \in SUBSET Pipelines
         /\ \A n \in worker[w].released : pipeline[n].publication = "published"
         /\ \A n \in Pipelines :
              /\ pipeline'[n].of = pipeline[n].of
              /\ pipeline'[n].stage = pipeline[n].stage /\ pipeline'[n].state = pipeline[n].state
              /\ pipeline'[n].publication =
                   IF n \in worker[w].released THEN "verified" ELSE pipeline[n].publication
  <1>1. worker[w].released \in SUBSET Pipelines
    BY DEF WellFormed, TypeOK, WorkerRow
  <1>. QED
    BY <1>1 DEF Confirm, WellFormed, TypeOK, PipelineRow

(* A pipeline in which at most the state of a task has changed, to one     *)
(* that WaitsOK allows.                                                    *)
Quiet(n) ==
  /\ pipeline'[n].of = pipeline[n].of
  /\ pipeline'[n].publication = pipeline[n].publication
  /\ WaitsOK(pipeline'[n])

(* Writing a product moves the keys of its pipelines only.                 *)
LEMMA AgedQuiet ==
  ASSUME WellFormed, Waiting, NEW S, pipeline' = Aged(pipeline, S) \/ UNCHANGED pipeline
  PROVE  \A n \in Pipelines : Quiet(n)
  <1>1. CASE pipeline' = Aged(pipeline, S)
    BY <1>1, AgedRows DEF Quiet, Waiting, WaitsOK, WellFormed, TypeOK
  <1>2. CASE UNCHANGED pipeline
    BY <1>2 DEF Quiet, Waiting
  <1>. QED
    BY <1>1, <1>2

(* Steps that publish, verify, withdraw, seed or record are the only ones  *)
(* of a process that do more than change a task.                           *)
LEMMA QuietStepRows ==
  ASSUME WellFormed, Waiting, NEW w \in Workers, Step(w),
         ~Publish(w), ~Confirm(w), ~UndoPublications(w), ~Seed(w),
         \A n \in Pipelines : ~Record(w, n)
  PROVE  \A n \in Pipelines : Quiet(n)
  <1>. USE DEF WellFormed, TypeOK
  <1>1. CASE ApplyLinks(w) \/ ApplyCopy(w) \/ UndoCopy(w) \/ UndoLinks(w)
    BY <1>1, AgedQuiet DEF ApplyLinks, ApplyCopy, UndoCopy, UndoLinks, UndoRows
  <1>2. CASE ClaimStage(w)
    <2>1. \A n \in Pipelines :
             \/ pipeline'[n] = pipeline[n]
             \/ pipeline[n].state = "queued" /\ pipeline'[n] = [pipeline[n] EXCEPT !.state = "claimed"]
      BY <1>2 DEF ClaimStage
    <2>2. ASSUME NEW n \in Pipelines, pipeline[n].state = "queued",
                 pipeline'[n] = [pipeline[n] EXCEPT !.state = "claimed"]
          PROVE  Quiet(n)
      BY <2>2 DEF PipelineRow, Quiet, Waiting, WaitsOK
    <2>. QED
      BY <2>1, <2>2 DEF Quiet, Waiting
  <1>3. CASE Prepare(w)
    <2>1. \A n \in Pipelines :
             \/ pipeline'[n] = pipeline[n]
             \/ pipeline'[n] = [pipeline[n] EXCEPT !.state = "stopped"]
      BY <1>3 DEF Prepare
    <2>2. ASSUME NEW n \in Pipelines, pipeline'[n] = [pipeline[n] EXCEPT !.state = "stopped"]
          PROVE  Quiet(n)
      BY <2>2 DEF PipelineRow, Quiet, Waiting, WaitsOK
    <2>. QED
      BY <2>1, <2>2 DEF Quiet, Waiting
  <1>4. CASE \/ PlanLinks(w) \/ PlanCopy(w) \/ PublishRefused(w)
             \/ VerifyPages(w) \/ Quotes(w) \/ Crash(w)
    <2>1. UNCHANGED pipeline
      BY <1>4 DEF PlanLinks, PlanCopy, PlanRepair, PublishRefused, VerifyPages, Quotes, Crash
    <2>. QED
      BY <2>1 DEF Quiet, Waiting
  <1>. QED
    BY <1>1, <1>2, <1>3, <1>4 DEF Step

(* Cancelling stops a task.                                                *)
LEMMA CancelRows ==
  ASSUME WellFormed, Waiting, NEW n \in Pipelines, Cancel(n)
  PROVE  \A m \in Pipelines : Quiet(m)
  BY DEF Cancel, WellFormed, TypeOK, PipelineRow, Quiet, Waiting, WaitsOK

(* A pipeline that is taken for a product.                                 *)
BegunFor(n, p) ==
  /\ pipeline[n].of = NoOne /\ pipeline'[n].of = p
  /\ pipeline'[n].publication = pipeline[n].publication /\ WaitsOK(pipeline'[n])
  /\ \A m \in Pipelines \ {n} : Quiet(m)

(* Seeding takes an unused pipeline for a product, or queues a task of the *)
(* first agent again.                                                      *)
LEMMA SeededRows ==
  ASSUME WellFormed, Waiting, NEW w \in Workers, Seed(w)
  PROVE  \/ \A n \in Pipelines : Quiet(n)
         \/ \E n \in Pipelines, p \in Products : BegunFor(n, p)
  <1>. USE DEF WellFormed, TypeOK
  <1>1. PICK p \in Products : SeedOne(p)
    BY DEF Seed
  <1>2. CASE pipeline' = [n \in Pipelines |->
               IF n \in Root(p) THEN Reseeded(pipeline[n], p) ELSE pipeline[n]]
    <2>1. ASSUME NEW n \in Pipelines
          PROVE  \/ pipeline'[n] = pipeline[n]
                 \/ pipeline[n].stage = 1 /\ pipeline'[n] = [pipeline[n] EXCEPT !.state = "queued"]
      BY <1>2 DEF Reseeded
    <2>2. 1 # Depth
      BY ReleaseConstants
    <2>3. ASSUME NEW n \in Pipelines, pipeline[n].stage = 1,
                 pipeline'[n] = [pipeline[n] EXCEPT !.state = "queued"]
          PROVE  Quiet(n)
      BY <2>2, <2>3 DEF PipelineRow, Quiet, Waiting, WaitsOK
    <2>4. \A n \in Pipelines : Quiet(n)
      BY <2>1, <2>3 DEF Quiet, Waiting
    <2>. QED
      BY <2>4
  <1>3. ASSUME NEW n \in Unused, pipeline' = [pipeline EXCEPT ![n] =
                 [NoPipeline EXCEPT !.of = p, !.stage = 1, !.fresh = TRUE]]
        PROVE  n \in Pipelines /\ BegunFor(n, p)
    <2>1. n \in Pipelines /\ pipeline[n].of = NoOne /\ pipeline[n].publication = "not_applicable"
      BY DEF Unused, Used, Chained
    <2>. QED
      BY <1>3, <2>1 DEF NoPipeline, BegunFor, Quiet, Waiting, WaitsOK
  <1>4. CASE \E n \in Unused : pipeline' = [pipeline EXCEPT ![n] =
                 [NoPipeline EXCEPT !.of = p, !.stage = 1, !.fresh = TRUE]]
    <2>1. PICK n \in Unused : pipeline' = [pipeline EXCEPT ![n] =
                 [NoPipeline EXCEPT !.of = p, !.stage = 1, !.fresh = TRUE]]
      BY <1>4
    <2>2. n \in Pipelines /\ BegunFor(n, p)
      BY <1>3, <2>1
    <2>. QED
      BY <2>2
  <1>5. \/ pipeline' = [n \in Pipelines |->
               IF n \in Root(p) THEN Reseeded(pipeline[n], p) ELSE pipeline[n]]
        \/ \E n \in Unused : pipeline' = [pipeline EXCEPT ![n] =
                 [NoPipeline EXCEPT !.of = p, !.stage = 1, !.fresh = TRUE]]
    BY <1>1 DEF SeedOne
  <1>. QED
    BY <1>2, <1>4, <1>5

(* Recording a result hands a task on, stops it, or makes the release of a *)
(* product that is not shown ready.                                        *)
LEMMA RecordedRows ==
  ASSUME WellFormed, Waiting, NEW w \in Workers, NEW n \in Pipelines, Record(w, n)
  PROVE  /\ \A m \in Pipelines \ {n} : Quiet(m)
         /\ pipeline'[n].of = pipeline[n].of /\ WaitsOK(pipeline'[n])
         /\ \/ pipeline'[n].publication = pipeline[n].publication
            \/ /\ pipeline[n].publication = "not_applicable"
               /\ pipeline'[n].publication = "ready"
               /\ pipeline[n].of \in Products /\ ~product[pipeline[n].of].shown
  <1>. USE DEF WellFormed, TypeOK
  <1>1. CASE UNCHANGED pipeline
    BY <1>1 DEF Quiet, Waiting
  <1>2. ASSUME pipeline[n].state \in {"queued", "claimed"},
               NEW r \in Results(pipeline[n]), pipeline' = [pipeline EXCEPT ![n] = r]
        PROVE  /\ r.of = pipeline[n].of /\ WaitsOK(r)
               /\ r.publication = pipeline[n].publication
                    \/ /\ pipeline[n].publication = "not_applicable" /\ r.publication = "ready"
                       /\ ~product[pipeline[n].of].shown
    <2>. DEFINE q == pipeline[n]
    <2>1. q \in PipelineRow /\ q.publication = "not_applicable" /\ q.stage \in 0..Depth
      BY <1>2 DEF Waiting, WaitsOK, PipelineRow
    <2>2. CASE r = [q EXCEPT !.state = "stopped"]
      BY <2>1, <2>2 DEF PipelineRow, WaitsOK
    <2>3. CASE r = [q EXCEPT !.stage = q.stage + 1, !.state = "queued"]
      BY <2>1, <2>3 DEF PipelineRow, WaitsOK
    <2>4. CASE Ready(q.of) /\ ~(q.stage < Depth)
                 /\ r = [q EXCEPT !.state = "completed", !.publication = "ready"]
      <3>1. q.stage = Depth
        BY <2>1, <2>4, ReleaseConstants
      <3>. QED
        BY <2>1, <2>4, <3>1 DEF PipelineRow, WaitsOK, Ready
    <2>. QED
      BY <1>2, <2>2, <2>3, <2>4 DEF Results, HandedOn
  <1>3. pipeline[n].of \in Products
    BY DEF Record, Chained, Used, PipelineRow
  <1>4. CASE pipeline[n].state \in {"queued", "claimed"}
             /\ \E r \in Results(pipeline[n]) : pipeline' = [pipeline EXCEPT ![n] = r]
    <2>1. PICK r \in Results(pipeline[n]) : pipeline' = [pipeline EXCEPT ![n] = r]
      BY <1>4
    <2>2. pipeline'[n] = r /\ \A m \in Pipelines \ {n} : pipeline'[m] = pipeline[m]
      BY <2>1
    <2>. QED
      BY <1>2, <1>3, <1>4, <2>1, <2>2 DEF Quiet, Waiting
  <1>. QED
    BY <1>1, <1>4 DEF Record

(* Nothing waits for an agent that has been decided.                       *)
LEMMA WaitingKept == WellFormed /\ Waiting /\ [Next]_vars => Waiting'
  <1>. SUFFICES ASSUME WellFormed, Waiting, [Next]_vars PROVE Waiting'
    OBVIOUS
  <1>1. ASSUME NEW w \in Workers, Publish(w) PROVE Waiting'
    BY <1>1, PublishedRows DEF Waiting, WaitsOK
  <1>2. ASSUME NEW w \in Workers, Confirm(w) PROVE Waiting'
    BY <1>2, ConfirmedRows DEF Waiting, WaitsOK
  <1>3. ASSUME NEW w \in Workers, UndoPublications(w) PROVE Waiting'
    <2>1. PICK S : S = {n \in worker[w].released : Withdrawn(n)}
      OBVIOUS
    <2>2. /\ \A n \in S : pipeline[n].publication = "published"
          /\ \A n \in Pipelines :
               /\ pipeline'[n].stage = pipeline[n].stage
               /\ pipeline'[n].state = IF n \in S THEN "stopped" ELSE pipeline[n].state
               /\ pipeline'[n].publication =
                    IF n \in S THEN "rolled_back" ELSE pipeline[n].publication
      BY <1>3, <2>1, WithdrawnRows
    <2>. QED
      BY <2>2 DEF Waiting, WaitsOK
  <1>4. ASSUME NEW w \in Workers, Seed(w) PROVE Waiting'
    BY <1>4, SeededRows DEF Waiting, BegunFor, Quiet
  <1>5. ASSUME NEW w \in Workers, NEW n \in Pipelines, Record(w, n) PROVE Waiting'
    BY <1>5, RecordedRows DEF Waiting, Quiet
  <1>6. ASSUME NEW w \in Workers, Step(w) PROVE Waiting'
    <2>1. CASE \/ Publish(w) \/ Confirm(w) \/ UndoPublications(w) \/ Seed(w)
               \/ \E n \in Pipelines : Record(w, n)
      BY <1>1, <1>2, <1>3, <1>4, <1>5, <2>1
    <2>2. CASE /\ ~Publish(w) /\ ~Confirm(w) /\ ~UndoPublications(w) /\ ~Seed(w)
               /\ \A n \in Pipelines : ~Record(w, n)
      <3>1. \A n \in Pipelines : Quiet(n)
        BY <1>6, <2>2, QuietStepRows
      <3>. QED
        BY <3>1 DEF Waiting, Quiet
    <2>. QED
      BY <2>1, <2>2
  <1>7. CASE Others
    <2>1. ASSUME NEW p \in Products, EditProduct(p) PROVE Waiting'
      BY <2>1, AgedQuiet DEF EditProduct, Waiting, Quiet
    <2>2. ASSUME NEW n \in Pipelines, Cancel(n) PROVE Waiting'
      BY <2>2, CancelRows DEF Waiting, Quiet
    <2>3. CASE UNCHANGED pipeline
      BY <2>3 DEF Waiting
    <2>. QED
      BY <1>7, <2>1, <2>2, <2>3 DEF Others, EvidenceChanges
  <1>8. CASE UNCHANGED vars
    BY <1>8 DEF Waiting, vars
  <1>. QED
    BY <1>6, <1>7, <1>8 DEF Next

(* Nothing waits for an agent that has been decided, in any state.         *)
LEMMA WaitingAlways == Spec => []Waiting
  <1>1. Init => Waiting
    BY DEF Init, Waiting, WaitsOK, NoPipeline
  <1>2. Orderly /\ Waiting /\ [Next]_vars => Waiting'
    BY WaitingKept DEF Orderly
  <1>. QED
    BY <1>1, <1>2, OrderlyAlways, PTL DEF Spec

-----------------------------------------------------------------------------
(* The contract of the website.                                            *)

Follows == [Contract!Next]_(Contract!vars)

(* Who is on the website, and whom a person has hidden, does not change.   *)
SiteStays ==
  \A p \in Products : product'[p].shown = product[p].shown /\ product'[p].hid = product[p].hid

(* The website sees who is on it and what releases are of and have come to. *)
LEMMA UnseenSite == ASSUME SiteStays PROVE UNCHANGED <<OnSite, HiddenOnce>>
  BY DEF SiteStays, OnSite, HiddenOnce

(* Releases stay with the product that they are of.                        *)
LEMMA UnseenTarget ==
  ASSUME \A n \in Pipelines : pipeline'[n].of = pipeline[n].of
  PROVE  UNCHANGED Target
  BY DEF Target

(* The publications stay where they are.                                   *)
LEMMA UnseenRelease ==
  ASSUME \A n \in Pipelines : pipeline'[n].publication = pipeline[n].publication
  PROVE  UNCHANGED Publication
  BY DEF Publication

(* Steps that at most change a task are not seen by the website.           *)
LEMMA QuietFollows ==
  ASSUME SiteStays, \A n \in Pipelines : Quiet(n)
  PROVE  Follows
  <1>1. UNCHANGED <<Target, Publication>>
    BY UnseenTarget, UnseenRelease DEF Quiet
  <1>. QED
    BY <1>1, UnseenSite DEF Follows, Contract!vars

(* Seeding begins a release, or is not seen.                               *)
LEMMA SeedFollows ==
  ASSUME WellFormed, Waiting, SiteStays, NEW w \in Workers, Seed(w)
  PROVE  Follows
  <1>1. ASSUME NEW n \in Pipelines, NEW p \in Products, BegunFor(n, p) PROVE Follows
    <2>1. Target[n] = NoOne /\ Target' = [Target EXCEPT ![n] = p]
      BY <1>1 DEF Target, BegunFor, Quiet
    <2>2. UNCHANGED Publication
      BY <1>1, UnseenRelease DEF BegunFor, Quiet
    <2>3. Contract!Begin(n, p)
      BY <2>1, <2>2, UnseenSite DEF Contract!Begin
    <2>4. Contract!Next
      BY <2>3, Zenon DEF Contract!Next
    <2>. QED
      BY <2>4 DEF Follows
  <1>. QED
    BY <1>1, SeededRows, QuietFollows

(* Recording the result of an agent approves a release, or is not seen.    *)
LEMMA RecordFollows ==
  ASSUME WellFormed, Waiting, SiteStays, NEW w \in Workers, NEW n \in Pipelines, Record(w, n)
  PROVE  Follows
  <1>1. CASE pipeline'[n].publication = pipeline[n].publication
    BY <1>1, RecordedRows, QuietFollows DEF Quiet
  <1>2. CASE /\ pipeline[n].publication = "not_applicable"
             /\ pipeline'[n].publication = "ready"
             /\ pipeline[n].of \in Products /\ ~product[pipeline[n].of].shown
    <2>1. UNCHANGED Target
      BY RecordedRows, UnseenTarget DEF Quiet
    <2>2. Target[n] \in Products /\ Target[n] \notin OnSite /\ Target[n] # NoOne
      BY <1>2, ReleaseConstants DEF Target, OnSite
    <2>3. Publication[n] = "not_applicable"
      BY <1>2 DEF Publication
    <2>4. Publication' = [m \in Pipelines |-> IF m \in {n} THEN "ready" ELSE Publication[m]]
      BY <1>2, RecordedRows DEF Publication, Quiet
    <2>5. Contract!Approve(n)
      BY <2>1, <2>2, <2>3, <2>4, UnseenSite DEF Contract!Approve, Contract!Move
    <2>6. Contract!Next
      BY <2>5, Zenon DEF Contract!Next
    <2>. QED
      BY <2>6 DEF Follows
  <1>. QED
    BY <1>1, <1>2, RecordedRows

(* Publishing what is planned shows its products, each by one release.     *)
LEMMA PublishFollows ==
  ASSUME WellFormed, NEW w \in Workers, Publish(w)
  PROVE  Follows
  <1>. DEFINE S == Planned(w)
  <1>1. S \in SUBSET Pipelines /\ \A n, m \in S : pipeline[n].of = pipeline[m].of => n = m
    BY OnePerProduct DEF Publish, Planned
  <1>2. \A n \in S : pipeline[n].publication = "ready" /\ ~product[pipeline[n].of].shown
    BY <1>1, PublishedRows
  <1>3. \A n \in S : pipeline[n].of \in Products
    BY <1>1, <1>2, OutOfProduct
  <1>4. \A p \in Products :
           /\ product'[p].hid = product[p].hid
           /\ product'[p].shown = (product[p].shown \/ \E n \in S : pipeline[n].of = p)
    BY DEF Publish, Shown, WellFormed, TypeOK, ProductRow
  <1>5. Publication' = [n \in Pipelines |-> IF n \in S THEN "published" ELSE Publication[n]]
    BY PublishedRows DEF Publication
  <1>6. UNCHANGED Target
    BY PublishedRows, UnseenTarget
  <1>. HIDE DEF S
  <1>7. \A n \in S : /\ Target[n] = pipeline[n].of /\ Target[n] # NoOne
                     /\ Publication[n] = "ready" /\ Target[n] \notin OnSite
    BY <1>1, <1>2, <1>3, ReleaseConstants DEF Target, Publication, OnSite
  <1>8. OnSite' = OnSite \cup {Target[n] : n \in S}
    <2>1. {Target[n] : n \in S} = {pipeline[n].of : n \in S}
      BY <1>7
    <2>2. ASSUME NEW p
          PROVE  p \in OnSite' <=> (p \in OnSite \/ \E n \in S : pipeline[n].of = p)
      BY <1>3, <1>4 DEF OnSite
    <2>. QED
      BY <2>1, <2>2
  <1>9. UNCHANGED HiddenOnce
    BY <1>4 DEF HiddenOnce
  <1>10. Contract!Publish(S)
    BY <1>1, <1>5, <1>6, <1>7, <1>8, <1>9 DEF Contract!Publish, Contract!Move
  <1>11. Contract!Next
    BY <1>1, <1>10, Zenon DEF Contract!Next
  <1>. QED
    BY <1>11 DEF Follows

(* Confirming verifies what was published, and shows or hides nothing.     *)
LEMMA ConfirmFollows ==
  ASSUME WellFormed, SiteStays, NEW w \in Workers, Confirm(w)
  PROVE  Follows
  <1>. DEFINE S == worker[w].released
  <1>1. S \in SUBSET Pipelines /\ \A n \in S : pipeline[n].publication = "published"
    BY ConfirmedRows
  <1>2. Publication' = [n \in Pipelines |-> IF n \in S THEN "verified" ELSE Publication[n]]
    BY ConfirmedRows DEF Publication
  <1>3. UNCHANGED Target
    BY ConfirmedRows, UnseenTarget
  <1>. HIDE DEF S
  <1>4. \A n \in S : Target[n] # NoOne /\ Publication[n] = "published"
    BY <1>1, OutOfProduct, ReleaseConstants DEF Target, Publication
  <1>5. Contract!Verify(S)
    BY <1>2, <1>3, <1>4, UnseenSite DEF Contract!Verify, Contract!Move
  <1>6. Contract!Next
    BY <1>1, <1>5, Zenon DEF Contract!Next
  <1>. QED
    BY <1>6 DEF Follows

(* Rolling back withdraws what is not verified, with its products.         *)
LEMMA UndoFollows ==
  ASSUME WellFormed, NEW w \in Workers, UndoPublications(w)
  PROVE  Follows
  <1>0. PICK S : S = {n \in worker[w].released : Withdrawn(n)}
    OBVIOUS
  <1>1. S \in SUBSET Pipelines /\ \A n \in S : pipeline[n].publication = "published"
    BY <1>0, WithdrawnRows
  <1>2. Publication' = [n \in Pipelines |-> IF n \in S THEN "rolled_back" ELSE Publication[n]]
    BY <1>0, WithdrawnRows DEF Publication
  <1>3. UNCHANGED Target
    BY <1>0, WithdrawnRows, UnseenTarget
  <1>4. \A p \in Products :
           /\ product'[p].hid = product[p].hid
           /\ product'[p].shown = (product[p].shown /\ ~(\E n \in S : pipeline[n].of = p))
    BY <1>0 DEF UndoPublications, WellFormed, TypeOK, ProductRow
  <1>5. \A n \in S : /\ Target[n] = pipeline[n].of /\ Target[n] # NoOne
                     /\ Publication[n] = "published"
    BY <1>1, OutOfProduct, ReleaseConstants DEF Target, Publication
  <1>6. OnSite' = OnSite \ {Target[n] : n \in S}
    <2>1. {Target[n] : n \in S} = {pipeline[n].of : n \in S}
      BY <1>5
    <2>2. ASSUME NEW p
          PROVE  p \in OnSite' <=> (p \in OnSite /\ ~(\E n \in S : pipeline[n].of = p))
      BY <1>4 DEF OnSite
    <2>. QED
      BY <2>1, <2>2
  <1>7. UNCHANGED HiddenOnce
    BY <1>4 DEF HiddenOnce
  <1>8. Contract!Withdraw(S)
    BY <1>2, <1>3, <1>5, <1>6, <1>7 DEF Contract!Withdraw, Contract!Move
  <1>9. Contract!Next
    BY <1>1, <1>8, Zenon DEF Contract!Next
  <1>. QED
    BY <1>9 DEF Follows

(* A person who writes a product shows it, hides it or is not seen.        *)
LEMMA EditFollows ==
  ASSUME WellFormed, NEW p \in Products, EditProduct(p)
  PROVE  Follows
  <1>1. PICK r \in Edited(p) : product' = [product EXCEPT ![p] = r]
    BY DEF EditProduct
  <1>2. product[p] \in ProductRow /\ product'[p] = r
    BY <1>1 DEF WellFormed, TypeOK
  <1>3. \A q \in Products \ {p} : product'[q] = product[q]
    BY <1>1 DEF WellFormed, TypeOK
  <1>4. UNCHANGED <<Target, Publication>>
    <2>1. pipeline' = Aged(pipeline, {p})
      BY DEF EditProduct
    <2>. QED
      BY <2>1, AgedRows, UnseenTarget, UnseenRelease DEF WellFormed, TypeOK
  <1>5. CASE r.shown = product[p].shown /\ r.hid = product[p].hid
    <2>1. SiteStays
      BY <1>2, <1>3, <1>5 DEF SiteStays
    <2>. QED
      BY <1>4, <2>1, UnseenSite DEF Follows, Contract!vars
  <1>6. CASE r.shown = TRUE /\ r.hid = product[p].hid
    <2>1. OnSite' = OnSite \cup {p} /\ UNCHANGED HiddenOnce
      BY <1>2, <1>3, <1>6 DEF OnSite, HiddenOnce
    <2>2. Contract!Show(p)
      BY <1>4, <2>1 DEF Contract!Show
    <2>3. Contract!Next
      BY <2>2, Zenon DEF Contract!Next
    <2>. QED
      BY <2>3 DEF Follows
  <1>7. CASE r.shown = FALSE /\ r.hid = TRUE
    <2>1. OnSite' = OnSite \ {p} /\ HiddenOnce' = HiddenOnce \cup {p}
      BY <1>2, <1>3, <1>7 DEF OnSite, HiddenOnce
    <2>2. Contract!Hide(p)
      BY <1>4, <2>1 DEF Contract!Hide
    <2>3. Contract!Next
      BY <2>2, Zenon DEF Contract!Next
    <2>. QED
      BY <2>3 DEF Follows
  <1>. QED
    BY <1>2, <1>5, <1>6, <1>7 DEF Edited, ProductRow

(* Every step of a process keeps the contract.                             *)
LEMMA StepFollows ==
  ASSUME WellFormed, Waiting, NEW w \in Workers, Step(w)
  PROVE  Follows
  <1>1. CASE Publish(w) \/ UndoPublications(w)
    BY <1>1, PublishFollows, UndoFollows
  <1>2. CASE ~Publish(w) /\ ~UndoPublications(w)
    <2>1. SiteStays
      BY <1>2, RepairsHideNothing DEF SiteStays
    <2>2. CASE Confirm(w) \/ Seed(w) \/ \E n \in Pipelines : Record(w, n)
      BY <2>1, <2>2, ConfirmFollows, SeedFollows, RecordFollows
    <2>3. CASE ~Confirm(w) /\ ~Seed(w) /\ \A n \in Pipelines : ~Record(w, n)
      BY <1>2, <2>1, <2>3, QuietStepRows, QuietFollows
    <2>. QED
      BY <2>2, <2>3
  <1>. QED
    BY <1>1, <1>2

(* Every step keeps the contract.                                          *)
LEMMA NextFollows == WellFormed /\ Waiting /\ [Next]_vars => Follows
  <1>. SUFFICES ASSUME WellFormed, Waiting, [Next]_vars PROVE Follows
    OBVIOUS
  <1>1. ASSUME NEW w \in Workers, Step(w) PROVE Follows
    BY <1>1, StepFollows
  <1>2. ASSUME NEW p \in Products, EditProduct(p) PROVE Follows
    BY <1>2, EditFollows
  <1>3. CASE UNCHANGED <<product, pipeline>>
    <2>1. SiteStays /\ \A n \in Pipelines : Quiet(n)
      BY <1>3 DEF SiteStays, Quiet, Waiting
    <2>. QED
      BY <2>1, QuietFollows
  <1>4. ASSUME NEW n \in Pipelines, Cancel(n) PROVE Follows
    <2>1. SiteStays
      BY <1>4 DEF Cancel, SiteStays
    <2>2. \A m \in Pipelines : Quiet(m)
      BY <1>4, CancelRows
    <2>. QED
      BY <2>1, <2>2, QuietFollows
  <1>. QED
    BY <1>1, <1>2, <1>3, <1>4 DEF Next, Others, EvidenceChanges, vars

(* The release of products keeps the contract of the website, whatever the *)
(* scripts do to each other, are refused or leave behind: only releases    *)
(* and people move a product, a batch is published as a whole, and what is *)
(* verified is never taken back.                                           *)
THEOREM ReleaseKeepsContract == Spec => KeepsContract
  <1>1. Init => Contract!Init
    <2>. SUFFICES ASSUME Init PROVE Contract!Init
      OBVIOUS
    <2>1. \A n \in Pipelines : /\ pipeline[n].of = NoOne
                               /\ pipeline[n].publication = "not_applicable"
      BY DEF Init, NoPipeline
    <2>2. \A p \in Products : product[p].shown = FALSE /\ product[p].hid = FALSE
      BY DEF Init
    <2>. QED
      BY <2>1, <2>2 DEF Contract!Init, Target, Publication, OnSite, HiddenOnce
  <1>2. Orderly /\ Waiting /\ [Next]_vars => Follows
    BY NextFollows DEF Orderly
  <1>. QED
    BY <1>1, <1>2, OrderlyAlways, WaitingAlways, PTL
       DEF Spec, Follows, KeepsContract, Contract!Spec
=============================================================================
