--------------------------- MODULE ManifestIngestion ---------------------------
(***************************************************************************)
(* The durable Sparex pipeline: manifests of crawled pages go through a    *)
(* FIFO queue of SQS to queue workers, which have Odoo ingest them into    *)
(* the vendor catalog, and sweeps that count the items nobody sees any     *)
(* more (sparex_manifest.py, upsert_catalog_items of vendor_catalog.py,    *)
(* sparex_catalog_manifest.py, sparex_catalog_queue_worker.py).            *)
(*                                                                         *)
(* Odoo serialises its methods by an advisory lock, so each is one step.   *)
(* The records of a manifest are those of its page artifact, which is      *)
(* addressed by its checksum: the same artifact always shows the same.     *)
(* Each record is accepted or rejected by itself: slices of fifty are      *)
(* halved up to six times until the failing record stands alone.           *)
(***************************************************************************)
EXTENDS Integers, Sequences, FiniteSets

CONSTANTS
  Skus,          (* normalized vendor SKUs                                  *)
  Contents,      (* what a page may show of an item                         *)
  Unlisted,      (* an item that a page does not show, or Odoo has not got  *)
  Pages,         (* page artifacts                                          *)
  Shows,         (* what each artifact shows of each item                   *)
  Workers,       (* queue worker processes                                  *)
  Nobody,        (* no process holds the message at the head                *)
  Versions,      (* parser and rules versions                               *)
  MaxManifests,  (* bound: manifests published                              *)
  MaxSweeps,     (* bound: sweeps begun                                     *)
  MaxReceives    (* maxReceiveCount of the redrive policy (5)               *)

ASSUME PagesAssumption ==
  /\ Pages # {} /\ Unlisted \notin Contents
  /\ Shows \in [Pages -> [Skus -> Contents \cup {Unlisted}]]
ASSUME QueueAssumption == Nobody \notin Workers /\ MaxReceives \in Nat \ {0}
ASSUME BoundsAssumption == Versions # {} /\ MaxManifests \in Nat /\ MaxSweeps \in Nat

VARIABLES
  manifest,    (* the published manifests: their sweep and page artifact    *)
  queue,       (* the messages of the queue, in order                       *)
  holder,      (* the process that received the head and keeps it invisible *)
  received,    (* how often the message of each manifest was received       *)
  dead,        (* the dead letter queue                                     *)
  worker,      (* the queue workers                                         *)
  ingestion,   (* the ledger of manifests: state and rejected records       *)
  item,        (* the vendor catalog items                                  *)
  sweep,       (* the sweeps                                                *)
  completed,   (* completed sweeps, in the order of completed_at            *)
  late         (* history: manifests that were ever dead letters            *)

vars == <<manifest, queue, holder, received, dead, worker, ingestion, item,
          sweep, completed, late>>

messages == <<queue, holder, received, dead>>
sweeps   == <<sweep, completed>>

-----------------------------------------------------------------------------
Ids       == 1..MaxManifests
Sweeps    == 1..MaxSweeps
Outcomes  == {"accepted", "transient", "permanent"}

Published == {m \in Ids : manifest[m].sweep # 0}
Lists(p)  == {k \in Skus : Shows[p][k] # Unlisted}
Listed(m) == Lists(manifest[m].page)

(* rejected: the records whose entry in the rejection ledger is permanent. *)
IngestionRecord ==
  [state : {"absent", "failed", "complete"}, rejected : SUBSET Skus]

(* page is source_artifact_sha256, sweep is last_seen_sweep_key; from is   *)
(* history, the manifest of the last accepted observation.                 *)
ItemRecord ==
  [content : Contents \cup {Unlisted}, page : Pages, sweep : 0..MaxSweeps,
   from : 0..MaxManifests]

SweepRecord ==
  [state : {"absent", "in_progress", "complete"}, clean : BOOLEAN,
   version : Versions, consecutive : 0..MaxSweeps, absent : SUBSET Skus]

WorkerRecord == [at : {"idle", "working", "replied"}, has : 0..MaxManifests]

AnyPage == CHOOSE p \in Pages : TRUE

Init ==
  /\ manifest = [m \in Ids |-> [sweep |-> 0, page |-> AnyPage]]
  /\ queue = <<>> /\ holder = Nobody
  /\ dead = {} /\ late = {}
  /\ received = [m \in Ids |-> 0]
  /\ worker = [w \in Workers |-> [at |-> "idle", has |-> 0]]
  /\ ingestion = [m \in Ids |-> [state |-> "absent", rejected |-> {}]]
  /\ item = [k \in Skus |->
       [content |-> Unlisted, page |-> AnyPage, sweep |-> 0, from |-> 0]]
  /\ sweep = [s \in Sweeps |->
       [state |-> "absent", clean |-> FALSE, version |-> CHOOSE v \in Versions : TRUE,
        consecutive |-> 0, absent |-> {}]]
  /\ completed = <<>>

-----------------------------------------------------------------------------
(* Publication and the queue.                                              *)

(* publish_manifest: the next page of the sweep at work, or the first one  *)
(* of the next sweep, is archived and its message sent.                    *)
Publish ==
  LET m == Cardinality(Published) + 1
      now == IF m = 1 THEN 1 ELSE manifest[m - 1].sweep
  IN  /\ m \in Ids
      /\ \E s \in {now, now + 1} \cap Sweeps, p \in Pages :
           Lists(p) # {} /\ manifest' = [manifest EXCEPT ![m] = [sweep |-> s, page |-> p]]
      /\ queue' = Append(queue, m)
      /\ UNCHANGED <<holder, received, dead, worker, ingestion, item, sweeps, late>>

(* Mutated form of Deliverable: manifests have groups of their own.        *)
DeliverableInAnyOrder == {queue[n] : n \in 1..Len(queue)}

(* All messages are of one group, so only the first may be delivered.      *)
Deliverable == {queue[n] : n \in {1} \cap 1..Len(queue)}

Without(m) ==
  LET n == CHOOSE n \in 1..Len(queue) : queue[n] = m
  IN  SubSeq(queue, 1, n - 1) \o SubSeq(queue, n + 1, Len(queue))

Hold(w, at, m) == worker' = [worker EXCEPT ![w] = [at |-> at, has |-> m]]

Receive(w) ==
  /\ worker[w].at = "idle" /\ holder = Nobody
  /\ \E m \in Deliverable :
       /\ received[m] < MaxReceives
       /\ received' = [received EXCEPT ![m] = @ + 1]
       /\ Hold(w, "working", m)
  /\ holder' = w
  /\ UNCHANGED <<manifest, queue, dead, ingestion, item, sweeps, late>>

(* The visibility of a received message runs out: its worker has ended, or *)
(* its heartbeat thread has.                                               *)
Reappear ==
  /\ holder # Nobody
  /\ holder' = Nobody
  /\ UNCHANGED <<manifest, queue, received, dead, worker, ingestion, item, sweeps, late>>

DeadLetter ==
  /\ holder = Nobody
  /\ \E m \in Deliverable :
       /\ received[m] = MaxReceives
       /\ queue' = Without(m) /\ dead' = dead \cup {m} /\ late' = late \cup {m}
  /\ UNCHANGED <<manifest, holder, received, worker, ingestion, item, sweeps>>

(* An operator sends a dead letter back to the queue.                      *)
Redrive ==
  /\ \E m \in dead :
       /\ dead' = dead \ {m} /\ queue' = Append(queue, m)
       /\ received' = [received EXCEPT ![m] = 0]
  /\ UNCHANGED <<manifest, holder, worker, ingestion, item, sweeps, late>>

-----------------------------------------------------------------------------
(* Ingestion.                                                              *)

(* upsert_catalog_items for one record: a repeated observation of the same *)
(* content in the same artifact leaves the sweep key as it is.             *)
Upserted(old, m, k) ==
  LET page == manifest[m].page
      seen == Shows[page][k]
  IN  IF old.content = seen /\ old.page = page
        THEN [old EXCEPT !.from = m]
        ELSE [content |-> seen, page |-> page, sweep |-> manifest[m].sweep, from |-> m]

(* _persist_rejection for the records that failed; the entry of a record   *)
(* that has been accepted since stays.                                     *)
Rejected(old, outcomes) ==
  {k \in Skus : IF k \in DOMAIN outcomes /\ outcomes[k] # "accepted"
                  THEN outcomes[k] = "permanent" ELSE k \in old}

RetryRequired(outcomes) == \E k \in DOMAIN outcomes : outcomes[k] = "transient"

(* Mutated form: a complete manifest is ingested again.                    *)
NeverSettled(m) == FALSE

Settled(m) == ingestion[m].state = "complete"

(* Mutated form: the worker takes any answer for a committed manifest.     *)
AnyReply(state) == TRUE

Committed(state) == state = "complete"

(* ingest_manifest, called by a worker.  The reply comes back, or is lost  *)
(* and the client sends the call again.                                    *)
Ingest(w) ==
  LET m == worker[w].has
      Reply(state) == \/ UNCHANGED worker
                      \/ IF Committed(state) THEN Hold(w, "replied", m)
                                             ELSE Hold(w, "idle", 0)
  IN  /\ worker[w].at = "working"
      /\ IF Settled(m)
           THEN UNCHANGED <<ingestion, item>> /\ Reply("complete")
           ELSE \E outcomes \in [Listed(m) -> Outcomes] :
             LET state == IF RetryRequired(outcomes) THEN "failed" ELSE "complete"
             IN  /\ ingestion' = [ingestion EXCEPT ![m] =
                      [state |-> state, rejected |-> Rejected(@.rejected, outcomes)]]
                 /\ item' = [k \in Skus |->
                      IF k \in Listed(m) /\ outcomes[k] = "accepted"
                        THEN Upserted(item[k], m, k) ELSE item[k]]
                 /\ Reply(state)
      /\ UNCHANGED <<manifest, messages, sweeps, late>>

(* The worker is killed, cannot verify the artifacts, or cannot reach Odoo.*)
Fail(w) ==
  /\ worker[w].at # "idle"
  /\ Hold(w, "idle", 0)
  /\ UNCHANGED <<manifest, messages, ingestion, item, sweeps, late>>

(* delete_message, which SQS refuses when the receipt has run out.         *)
Delete(w) ==
  /\ worker[w].at = "replied"
  /\ Hold(w, "idle", 0)
  /\ IF holder = w THEN queue' = Without(worker[w].has) /\ holder' = Nobody
                   ELSE UNCHANGED <<queue, holder>>
  /\ UNCHANGED <<manifest, received, dead, ingestion, item, sweeps, late>>

-----------------------------------------------------------------------------
(* Sweeps.                                                                 *)

(* record_checkpoint; clean says that the page counts add up and no page   *)
(* failed, was skipped or cut off by a cooldown.                           *)
RecordCheckpoint ==
  /\ \E s \in Sweeps, clean \in BOOLEAN, v \in Versions :
       /\ sweep[s].state # "complete"
       /\ sweep' = [sweep EXCEPT ![s] = [@ EXCEPT !.state = "in_progress",
                                         !.clean = clean, !.version = v]]
  /\ UNCHANGED <<manifest, messages, worker, ingestion, item, completed, late>>

Previous == completed[Len(completed)]

(* Mutated form: the sweep itself is counted before it is added.           *)
ConsecutiveFromTwo(s) ==
  IF completed # <<>> /\ sweep[Previous].version = sweep[s].version
    THEN sweep[Previous].consecutive + 2 ELSE 2

Consecutive(s) ==
  IF completed # <<>> /\ sweep[Previous].version = sweep[s].version
    THEN sweep[Previous].consecutive + 1 ELSE 1

(* action_complete, with the items it counts as absence candidates.        *)
CompleteSweep(s) ==
  /\ sweep[s].state = "in_progress" /\ sweep[s].clean
  /\ sweep' = [sweep EXCEPT ![s] =
       [@ EXCEPT !.state = "complete", !.consecutive = Consecutive(s),
                 !.absent = IF Consecutive(s) < 2 THEN {}
                            ELSE {k \in Skus : /\ item[k].content # Unlisted
                                               /\ item[k].sweep \notin {Previous, s}}]]
  /\ completed' = Append(completed, s)
  /\ UNCHANGED <<manifest, messages, worker, ingestion, item, late>>

Next ==
  \/ Publish \/ Reappear \/ DeadLetter \/ Redrive
  \/ \E w \in Workers : Receive(w) \/ Ingest(w) \/ Delete(w) \/ Fail(w)
  \/ RecordCheckpoint \/ \E s \in Sweeps : CompleteSweep(s)

Spec == Init /\ [][Next]_vars

-----------------------------------------------------------------------------
(* Properties.                                                             *)

TypeOK ==
  /\ manifest \in [Ids -> [sweep : 0..MaxSweeps, page : Pages]]
  /\ queue \in Seq(Ids) /\ holder \in Workers \cup {Nobody}
  /\ received \in [Ids -> 0..MaxReceives]
  /\ dead \subseteq Ids /\ late \subseteq Ids
  /\ worker \in [Workers -> WorkerRecord]
  /\ ingestion \in [Ids -> IngestionRecord]
  /\ item \in [Skus -> ItemRecord]
  /\ sweep \in [Sweeps -> SweepRecord]
  /\ completed \in Seq(Sweeps)

(* A manifest leaves the queue for good only when Odoo has ingested it,    *)
(* and then each of its records is in the ledger of rejections or in the   *)
(* catalog, as this manifest or a later one shows it - or an older one     *)
(* that came back from the dead letters.                                   *)
NothingIsLost ==
  \A m \in Published :
    /\ m \in dead \/ ingestion[m].state = "complete" \/ \E n \in 1..Len(queue) : queue[n] = m
    /\ ingestion[m].state = "complete" =>
         \A k \in Listed(m) :
           \/ k \in ingestion[m].rejected
           \/ item[k].from >= m \/ item[k].from \in late

(* Deliveries, repeated calls and late workers of a manifest that is       *)
(* complete change neither its ledger nor the catalog.                     *)
RepeatIsHarmless ==
  [][/\ \A m \in Ids : ingestion[m].state = "complete" => ingestion'[m] = ingestion[m]
     /\ \A k \in Skus : item'[k] # item[k] => ingestion[item'[k].from].state # "complete"]_vars

(* What ingestion promises the catalog: with deliveries that repeat, calls *)
(* sent again, workers that stall or die and manifests that come back from *)
(* the dead letters, each manifest takes effect until all its records are  *)
(* applied or refused, and never after.                                    *)
PageOf   == [m \in Published |-> manifest[m].page]
Ingested == {m \in Ids : ingestion[m].state = "complete"}
Refused  == [m \in Ids |-> ingestion[m].rejected]
Catalog  == [k \in Skus |-> item[k].content]

Contract == INSTANCE IngestionContract
  WITH Manifests <- Ids, page <- PageOf, settled <- Ingested, refused <- Refused,
       catalog <- Catalog

KeepsContract == Contract!Spec

(* An observation is overwritten only by a later one, though manifests are *)
(* delivered again and workers stall - except by a former dead letter.     *)
ObservationsInOrder ==
  [][\A k \in Skus : item'[k].from < item[k].from => item'[k].from \in late]_vars

(* An item that counts as an absence candidate was last observed by        *)
(* neither of the two sweeps ("absence requires two sweeps without         *)
(* observation").                                                          *)
AbsentOnlyIfUnseen ==
  [][\A s \in Sweeps, k \in Skus :
       /\ sweep[s].state # "complete" /\ k \in sweep'[s].absent /\ item[k].from # 0
       => manifest[item[k].from].sweep \notin {Previous, s}]_vars
=============================================================================
